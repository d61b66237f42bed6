---------------------------- MODULE KListProofs ----------------------------
(***************************************************************************)
(* Proofs about KList, for any threads, elements and lists.  Whatever      *)
(* calls are made, next and prev stay inverse on every list, and no call   *)
(* follows a link that was never set; and KList implements Lists: what a   *)
(* reader of the links finds are sequences that the calls change and       *)
(* answer for as Lists says.                                               *)
(***************************************************************************)
EXTENDS KList, SequenceTheorems, FiniteSetTheorems, WellFoundedInduction, TLAPS

(* The ends of the lists are all different, and neither elements nor NULL. *)
LEMMA Ends ==
  /\ \A l \in List : /\ head(l) \in Node /\ tail(l) \in Node
                     /\ head(l) \notin Elem /\ tail(l) \notin Elem
                     /\ head(l) # NULL /\ tail(l) # NULL
  /\ \A l, m \in List : /\ head(l) # tail(m)
                        /\ (head(l) = head(m) => l = m)
                        /\ (tail(l) = tail(m) => l = m)
  /\ \A e \in Elem : e \in Node /\ e # NULL
  /\ NULL \notin List
<1>1. \A l \in List : head(l) \in Heads /\ tail(l) \in Tails
  BY DEF Heads, Tails
<1>2. \A l, m \in List : /\ head(l) # tail(m)
                         /\ (head(l) = head(m) => l = m)
                         /\ (tail(l) = tail(m) => l = m)
  BY DEF head, tail
<1> QED
  BY <1>1, <1>2, KListAssumption DEF Node

-----------------------------------------------------------------------------
(* The links as functions, and where the elements are.                     *)
LinkTypes ==
  /\ prev \in [Node -> Node \union {NULL}]
  /\ next \in [Node -> Node \union {NULL}]
  /\ home \in [Elem -> List \union {NULL}]

ThreadTypes ==
  /\ pc \in [Thread -> {"idle", "insert", "remove", "find", "count", "traverse", "fault"}]
  /\ plist \in [Thread -> List \union {NULL}]
  /\ node \in [Thread -> Node \union {NULL}]
  /\ arg \in [Thread -> SUBSET (Elem \union {"pop"})]
  /\ len \in [Thread -> Nat]

\* Where the call of a thread stands: at a node of its list, and for the two
\* that change links one at which they find all the links they follow.
CallOK(t) ==
  pc[t] # "idle" =>
    /\ pc[t] # "fault"
    /\ \A u \in Thread \ {t} : pc[u] = "idle"
    /\ plist[t] \in List
    /\ node[t] \in Members(plist[t]) \union {tail(plist[t])}
    /\ pc[t] = "insert" => arg[t] \subseteq {e \in Elem : home[e] = NULL}
    /\ pc[t] = "remove" => node[t] \in Members(plist[t])

KListInv == LinkTypes /\ ThreadTypes /\ LinksSound /\ \A t \in Thread : CallOK(t)

-----------------------------------------------------------------------------
(* list_insert_before keeps the links of every list sound.                 *)
LEMMA InsertSound ==
  ASSUME LinkTypes, LinksSound,
         NEW l \in List, NEW e \in Elem, home[e] = NULL,
         NEW before \in Members(l) \union {tail(l)},
         InsertNode(before, e), home' = [home EXCEPT ![e] = l]
  PROVE  LinkTypes' /\ LinksSound'
<1> DEFINE old == prev[before]
<1>1. /\ before \in Node /\ before # e /\ before # NULL
      /\ old \in Members(l) \union {head(l)} /\ next[old] = before
      /\ old \in Node /\ old # e
  <2>1. before \in Node /\ before # e /\ before # NULL
    BY Ends DEF LinkTypes, Members
  <2>2. old \in Members(l) \union {head(l)} /\ next[old] = before
    BY DEF LinksSound
  <2>3. old \in Node /\ old # e
    BY <2>2, Ends DEF LinkTypes, Members
  <2> QED BY <2>1, <2>2, <2>3
<1>2. /\ next' = [next EXCEPT ![old] = e, ![e] = before]
      /\ prev' = [prev EXCEPT ![e] = old, ![before] = e]
  BY DEF InsertNode, InsertLinks
<1> HIDE DEF old
<1>3. /\ \A n \in Node : next'[n] = IF n = e THEN before ELSE IF n = old THEN e ELSE next[n]
      /\ \A n \in Node : prev'[n] = IF n = before THEN e ELSE IF n = e THEN old ELSE prev[n]
      /\ \A x \in Elem : home'[x] = IF x = e THEN l ELSE home[x]
  BY <1>1, <1>2, Ends DEF LinkTypes
<1>4. LinkTypes'
  BY <1>1, <1>2, Ends DEF LinkTypes
<1>5. ASSUME NEW m \in List
      PROVE  /\ m = l => Members(m)' = Members(m) \union {e}
             /\ m # l => Members(m)' = Members(m)
             /\ e \notin Members(m)
             /\ head(m)' = head(m) /\ tail(m)' = tail(m)
  BY <1>3, Ends DEF Members, head, tail
<1>6. ASSUME NEW m \in List
      PROVE  prev'[head(m)] = NULL /\ next'[tail(m)] = NULL
  <2>1. head(m) # before /\ head(m) # e /\ tail(m) # old /\ tail(m) # e
    BY <1>1, Ends DEF Members
  <2> QED BY <2>1, <1>3, Ends DEF LinksSound
<1>7. ASSUME NEW m \in List, NEW n \in Members(m)' \union {head(m)}
      PROVE  next'[n] \in Members(m)' \union {tail(m)} /\ prev'[next'[n]] = n
  <2>1. CASE n = e
    BY <2>1, <1>1, <1>3, <1>5, Ends DEF Members
  <2>2. CASE n = old
    BY <2>2, <1>1, <1>3, <1>5, Ends DEF Members
  <2>3. CASE n # e /\ n # old
    <3>1. n \in Members(m) \union {head(m)} /\ n \in Node
      BY <2>3, <1>5, Ends DEF Members
    <3>2. next'[n] = next[n] /\ next[n] \in Members(m) \union {tail(m)} /\ prev[next[n]] = n
      BY <2>3, <3>1, <1>3 DEF LinksSound
    <3>3. next[n] # before /\ next[n] # e /\ next[n] \in Node
      BY <2>3, <3>2, <1>5, Ends DEF Members, old
    <3> QED BY <3>1, <3>2, <3>3, <1>3, <1>5
  <2> QED BY <2>1, <2>2, <2>3
<1>8. ASSUME NEW m \in List, NEW n \in Members(m)' \union {tail(m)}
      PROVE  prev'[n] \in Members(m)' \union {head(m)} /\ next'[prev'[n]] = n
  <2>1. CASE n = e
    BY <2>1, <1>1, <1>3, <1>5, Ends DEF Members
  <2>2. CASE n = before
    BY <2>2, <1>1, <1>3, <1>5, Ends DEF Members
  <2>3. CASE n # e /\ n # before
    <3>1. n \in Members(m) \union {tail(m)} /\ n \in Node
      BY <2>3, <1>5, Ends DEF Members
    <3>2. prev'[n] = prev[n] /\ prev[n] \in Members(m) \union {head(m)} /\ next[prev[n]] = n
      BY <2>3, <3>1, <1>3 DEF LinksSound
    <3>3. prev[n] # old /\ prev[n] # e /\ prev[n] \in Node
      BY <2>3, <3>2, <1>1, <1>5, Ends DEF Members
    <3> QED BY <3>1, <3>2, <3>3, <1>3, <1>5
  <2> QED BY <2>1, <2>2, <2>3
<1> QED
  BY <1>4, <1>5, <1>6, <1>7, <1>8 DEF LinksSound

(* list_remove keeps the links of every list sound.                        *)
LEMMA RemoveSound ==
  ASSUME LinkTypes, LinksSound,
         NEW l \in List, NEW e \in Members(l),
         UnlinkBoth(e), home' = [home EXCEPT ![e] = NULL]
  PROVE  LinkTypes' /\ LinksSound'
<1> DEFINE p == prev[e]
           q == next[e]
<1>1. /\ e \in Elem /\ e \in Node /\ p \in Node /\ q \in Node
      /\ p \in Members(l) \union {head(l)} /\ next[p] = e
      /\ q \in Members(l) \union {tail(l)} /\ prev[q] = e
  <2>1. e \in Elem /\ e \in Node
    BY Ends DEF Members
  <2>2. /\ p \in Members(l) \union {head(l)} /\ next[p] = e
        /\ q \in Members(l) \union {tail(l)} /\ prev[q] = e
    BY DEF LinksSound
  <2> QED BY <2>1, <2>2, Ends DEF Members
<1>2. /\ next' = [next EXCEPT ![p] = q]
      /\ prev' = [prev EXCEPT ![q] = p]
  BY DEF UnlinkBoth, Unlink
<1>3. next[e] = q /\ prev[e] = p
  OBVIOUS
<1> HIDE DEF p, q
<1>4. /\ \A n \in Node : next'[n] = IF n = p THEN q ELSE next[n]
      /\ \A n \in Node : prev'[n] = IF n = q THEN p ELSE prev[n]
      /\ \A x \in Elem : home'[x] = IF x = e THEN NULL ELSE home[x]
  BY <1>1, <1>2 DEF LinkTypes
<1>5. LinkTypes'
  BY <1>1, <1>2 DEF LinkTypes
<1>6. ASSUME NEW m \in List
      PROVE  /\ Members(m)' = Members(m) \ {e}
             /\ head(m)' = head(m) /\ tail(m)' = tail(m)
             /\ m # l => e \notin Members(m)
  BY <1>1, <1>4, Ends DEF Members, head, tail
<1>7. ASSUME NEW m \in List
      PROVE  prev'[head(m)] = NULL /\ next'[tail(m)] = NULL
  <2>1. head(m) # q /\ tail(m) # p
    BY <1>1, Ends DEF Members
  <2> QED BY <2>1, <1>4, Ends DEF LinksSound
<1>8. ASSUME NEW m \in List, NEW n \in Members(m)' \union {head(m)}
      PROVE  next'[n] \in Members(m)' \union {tail(m)} /\ prev'[next'[n]] = n
  <2>1. n \in Members(m) \union {head(m)} /\ n \in Node /\ n # e
    BY <1>1, <1>6, Ends DEF Members
  <2>2. next[n] \in Members(m) \union {tail(m)} /\ prev[next[n]] = n /\ next[n] \in Node
    BY <2>1, Ends DEF LinksSound, Members
  <2>3. CASE n = p
    <3>1. m = l
      BY <2>1, <2>3, <1>1, Ends DEF Members
    <3>2. q # e
      BY <2>1, <2>3, <1>1, <1>3
    <3> QED BY <2>3, <3>1, <3>2, <1>1, <1>4, <1>6
  <2>4. CASE n # p
    <3>1. next[n] # e /\ next[n] # q
      BY <2>1, <2>2, <2>4, <1>1, <1>3
    <3> QED BY <2>1, <2>2, <2>4, <3>1, <1>4, <1>6
  <2> QED BY <2>3, <2>4
<1>9. ASSUME NEW m \in List, NEW n \in Members(m)' \union {tail(m)}
      PROVE  prev'[n] \in Members(m)' \union {head(m)} /\ next'[prev'[n]] = n
  <2>1. n \in Members(m) \union {tail(m)} /\ n \in Node /\ n # e
    BY <1>1, <1>6, Ends DEF Members
  <2>2. prev[n] \in Members(m) \union {head(m)} /\ next[prev[n]] = n /\ prev[n] \in Node
    BY <2>1, Ends DEF LinksSound, Members
  <2>3. CASE n = q
    <3>1. m = l
      BY <2>1, <2>3, <1>1, Ends DEF Members
    <3>2. p # e
      BY <2>1, <2>3, <1>1, <1>3
    <3> QED BY <2>3, <3>1, <3>2, <1>1, <1>4, <1>6
  <2>4. CASE n # q
    <3>1. prev[n] # e /\ prev[n] # p
      BY <2>1, <2>2, <2>4, <1>1, <1>3
    <3> QED BY <2>1, <2>2, <2>4, <3>1, <1>4, <1>6
  <2> QED BY <2>3, <2>4
<1> QED
  BY <1>5, <1>6, <1>7, <1>8, <1>9 DEF LinksSound

-----------------------------------------------------------------------------
(* list_init makes every list sound.                                       *)
LEMMA InitInv == Init => KListInv
<1> SUFFICES ASSUME Init PROVE KListInv
  OBVIOUS
<1>1. /\ \A l \in List : next[head(l)] = tail(l) /\ prev[tail(l)] = head(l)
      /\ \A l \in List : prev[head(l)] = NULL /\ next[tail(l)] = NULL
  <2>1. \A l \in List : tail(l)[2] = l /\ head(l) \in Heads /\ tail(l) \in Tails
    BY DEF tail, Heads, Tails
  <2>2. \A l \in List : head(l) \notin Tails /\ tail(l) \notin Heads
    BY Ends DEF Heads, Tails
  <2>3. /\ \A n \in Node : next[n] = IF n \in Heads THEN tail(n[2]) ELSE NULL
        /\ \A n \in Node : prev[n] = IF n \in Tails THEN head(n[2]) ELSE NULL
    BY DEF Init
  <2>4. \A l \in List : head(l)[2] = l
    BY DEF head
  <2> QED BY <2>1, <2>2, <2>3, <2>4, Ends
<1>2. LinkTypes
  <2>1. \A n \in Heads : tail(n[2]) \in Node
    BY Ends DEF Heads, head
  <2>2. \A n \in Tails : head(n[2]) \in Node
    BY Ends DEF Tails, tail
  <2> QED BY <2>1, <2>2 DEF Init, LinkTypes
<1>3. \A l \in List : Members(l) = {}
  BY Ends DEF Init, Members
<1>4. LinksSound
  BY <1>1, <1>3 DEF LinksSound
<1>5. ThreadTypes /\ \A t \in Thread : CallOK(t)
  BY DEF Init, ThreadTypes, CallOK
<1> QED
  BY <1>2, <1>4, <1>5 DEF KListInv

(* What starts a call: at a node of the list, and fit for what it changes. *)
LEMMA EnterInv ==
  ASSUME KListInv,
         NEW t \in Thread, NEW l \in List, NEW n \in Members(l) \union {tail(l)},
         NEW a \in SUBSET (Elem \union {"pop"}),
         NEW to \in {"insert", "remove", "find", "count", "traverse"},
         Enter(t, l, n, a, to),
         to = "insert" => a \subseteq {e \in Elem : home[e] = NULL},
         to = "remove" => n \in Members(l)
  PROVE  KListInv'
<1>1. n \in Node
  BY Ends DEF Members
<1>2. LinkTypes' /\ LinksSound' /\ \A m \in List : Members(m)' = Members(m)
  BY DEF KListInv, Enter, links, LinkTypes, LinksSound, Members
<1>3. ThreadTypes'
  BY <1>1 DEF KListInv, Enter, Goto, ThreadTypes
<1>4. ASSUME NEW u \in Thread PROVE CallOK(u)'
  <2>1. CASE u # t
    BY <2>1 DEF KListInv, ThreadTypes, Enter, At, MayRun, Goto, CallOK
  <2>2. CASE u = t
    <3>1. pc'[t] = to /\ plist'[t] = l /\ node'[t] = n /\ arg'[t] = a /\ home' = home
      BY DEF KListInv, ThreadTypes, Enter, Goto
    <3>2. \A v \in Thread \ {t} : pc'[v] = "idle"
      BY DEF KListInv, ThreadTypes, Enter, At, MayRun, Goto
    <3>3. tail(l)' = tail(l)
      BY DEF tail
    <3> QED BY <2>2, <3>1, <3>2, <3>3, <1>2 DEF CallOK
  <2> QED BY <2>1, <2>2
<1> QED
  BY <1>2, <1>3, <1>4 DEF KListInv

(* What ends a call: the thread is idle again, as all the others are.      *)
LEMMA ReturnInv ==
  ASSUME KListInv, NEW t \in Thread, NEW r, Return(t, r),
         \A u \in Thread \ {t} : pc[u] = "idle",
         LinkTypes', LinksSound'
  PROVE  KListInv'
<1>1. ThreadTypes'
  BY DEF KListInv, ThreadTypes, Return, Goto
<1>2. \A u \in Thread : pc'[u] = "idle"
  BY DEF KListInv, ThreadTypes, Return, Goto
<1> QED
  BY <1>1, <1>2 DEF KListInv, CallOK

(* The seven calls.                                                        *)
LEMMA CallInv == ASSUME KListInv, NEW t \in Thread, Call(t) PROVE KListInv'
<1>1. ASSUME NEW l \in List
      PROVE  next[head(l)] \in Members(l) \union {tail(l)}
  BY DEF KListInv, LinksSound
<1>2. ASSUME NEW l \in List, NEW e \in Elem, list_push(t, l, e) \/ list_append(t, l, e)
      PROVE  KListInv'
  <2> DEFINE n == IF list_push(t, l, e) THEN next[head(l)] ELSE tail(l)
  <2>1. /\ n \in Members(l) \union {tail(l)} /\ home[e] = NULL
        /\ Enter(t, l, n, {e}, "insert")
    BY <1>1, <1>2 DEF list_push, list_append
  <2> HIDE DEF n
  <2> QED BY <2>1, EnterInv
<1>3. ASSUME NEW l \in List, NEW e \in Elem, elem_find(t, l, e)
      PROVE  KListInv'
  BY <1>1, <1>3, EnterInv DEF elem_find
<1>4. ASSUME NEW l \in List, list_pop(t, l)
      PROVE  KListInv'
  <2>1. next[head(l)] \in Members(l)
    BY <1>1, <1>4 DEF list_pop, list_empty
  <2> QED BY <2>1, <1>4, EnterInv DEF list_pop
<1>5. ASSUME NEW l \in List, list_len(t, l)
      PROVE  KListInv'
  BY <1>1, <1>5, EnterInv DEF list_len
<1>6. ASSUME NEW l \in List, NEW func \in SUBSET Elem, list_traversal(t, l, func)
      PROVE  KListInv'
  <2>1. CASE list_empty(l)
    <3>1. At(t, "idle") /\ Return(t, Answer(NULL)) /\ UNCHANGED <<links, home>>
      BY <1>6, <2>1 DEF list_traversal
    <3>2. LinkTypes' /\ LinksSound'
      BY <3>1 DEF KListInv, links, LinkTypes, LinksSound, Members
    <3> QED BY <3>1, <3>2, ReturnInv DEF At, MayRun
  <2>2. CASE ~list_empty(l)
    BY <1>1, <1>6, <2>2, EnterInv DEF list_traversal
  <2> QED BY <2>1, <2>2
<1>7. ASSUME NEW e \in Elem, list_remove(t, e)
      PROVE  KListInv'
  <2>1. home[e] \in List /\ e \in Members(home[e])
    BY <1>7 DEF list_remove, KListInv, LinkTypes, Members
  <2> QED BY <2>1, <1>7, EnterInv DEF list_remove
<1> QED
  BY <1>2, <1>3, <1>4, <1>5, <1>6, <1>7 DEF Call

(* A round of a search stays in the list: the tail ends it, and whatever   *)
(* comes before has a next.                                                *)
LEMMA LoopInv ==
  ASSUME KListInv, NEW t \in Thread, MayRun(t),
         pc[t] \in {"find", "count", "traverse"},
         NEW end, NEW atTail, NEW atHit,
         end = tail(plist[t]), Loop(t, end, atTail, atHit)
  PROVE  KListInv'
<1>1. /\ plist[t] \in List /\ node[t] # NULL
      /\ node[t] \in Members(plist[t]) \union {tail(plist[t])}
      /\ \A u \in Thread \ {t} : pc[u] = "idle"
  BY Ends DEF KListInv, CallOK, Members, MayRun
<1>2. CASE \E r : Return(t, r) /\ UNCHANGED <<links, home>>
  <2>1. LinkTypes' /\ LinksSound'
    BY <1>2 DEF KListInv, links, LinkTypes, LinksSound, Members
  <2> QED BY <1>1, <1>2, <2>1, ReturnInv
<1>3. CASE /\ node[t] # end
           /\ node' = [node EXCEPT ![t] = next[@]] /\ len' = [len EXCEPT ![t] = @ + 1]
           /\ UNCHANGED <<links, pc, plist, arg, home, result>>
  <2>1. LinkTypes' /\ LinksSound' /\ \A m \in List : Members(m)' = Members(m)
    BY <1>3 DEF KListInv, links, LinkTypes, LinksSound, Members
  <2>2. next[node[t]] \in Members(plist[t]) \union {tail(plist[t])}
    BY <1>1, <1>3 DEF KListInv, LinksSound
  <2>3. next[node[t]] \in Node
    BY <1>1, <2>2, Ends DEF Members
  <2>4. ThreadTypes'
    BY <1>3, <2>3 DEF KListInv, ThreadTypes
  <2>5. ASSUME NEW u \in Thread PROVE CallOK(u)'
    <3>1. CASE u # t
      BY <3>1, <1>1, <1>3 DEF CallOK
    <3>2. CASE u = t
      <4>1. node'[t] = next[node[t]] /\ plist' = plist /\ pc' = pc /\ arg' = arg /\ home' = home
        BY <1>3 DEF KListInv, ThreadTypes
      <4>2. tail(plist[t])' = tail(plist[t])
        BY <4>1 DEF tail
      <4> QED BY <3>2, <4>1, <4>2, <1>1, <2>1, <2>2 DEF CallOK
    <3> QED BY <3>1, <3>2
  <2> QED BY <2>1, <2>4, <2>5 DEF KListInv
<1> QED
  BY <1>1, <1>2, <1>3 DEF Loop

(* The rest of the calls.                                                  *)
LEMMA StepInv == ASSUME KListInv, NEW t \in Thread, Step(t) PROVE KListInv'
<1>1. ASSUME InsertBefore(t) PROVE KListInv'
  <2> DEFINE before == node[t]
             l == plist[t]
  <2>1. /\ pc[t] = "insert" /\ \A u \in Thread \ {t} : pc[u] = "idle"
        /\ l \in List /\ before \in Members(l) \union {tail(l)}
        /\ arg[t] \subseteq {e \in Elem : home[e] = NULL}
    BY <1>1 DEF InsertBefore, At, MayRun, KListInv, CallOK
  <2>2. before # NULL /\ prev[before] # NULL
    <3>1. prev[before] \in Members(l) \union {head(l)}
      BY <2>1 DEF KListInv, LinksSound
    <3> QED BY <2>1, <3>1, Ends DEF Members
  <2>3. PICK e \in arg[t] : /\ InsertNode(before, e) /\ home' = [home EXCEPT ![e] = l]
                            /\ Return(t, Answer(NULL))
    BY <1>1, <2>2 DEF InsertBefore
  <2>4. LinkTypes' /\ LinksSound'
    <3> HIDE DEF before, l
    <3> QED BY <2>1, <2>3, InsertSound DEF KListInv
  <2> QED BY <2>1, <2>3, <2>4, ReturnInv
<1>2. ASSUME RemoveNode(t) PROVE KListInv'
  <2> DEFINE e == node[t]
             l == plist[t]
  <2>1. /\ pc[t] = "remove" /\ \A u \in Thread \ {t} : pc[u] = "idle"
        /\ l \in List /\ e \in Members(l)
    BY <1>2 DEF RemoveNode, At, MayRun, KListInv, CallOK
  <2>2. e \in Elem /\ prev[e] # NULL /\ next[e] # NULL
    <3>1. prev[e] \in Members(l) \union {head(l)} /\ next[e] \in Members(l) \union {tail(l)}
      BY <2>1 DEF KListInv, LinksSound
    <3> QED BY <2>1, <3>1, Ends DEF Members
  <2>3. PICK r : UnlinkBoth(e) /\ home' = [home EXCEPT ![e] = NULL] /\ Return(t, r)
    BY <1>2, <2>2 DEF RemoveNode
  <2>4. LinkTypes' /\ LinksSound'
    <3> HIDE DEF e, l
    <3> QED BY <2>1, <2>3, RemoveSound DEF KListInv
  <2> QED BY <2>1, <2>3, <2>4, ReturnInv
<1>3. ASSUME Find(t) PROVE KListInv'
  BY <1>3, LoopInv DEF Find, At
<1>4. ASSUME Count(t) PROVE KListInv'
  BY <1>4, LoopInv DEF Count, At
<1>5. ASSUME Traverse(t) PROVE KListInv'
  BY <1>5, LoopInv DEF Traverse, At
<1> QED
  BY <1>1, <1>2, <1>3, <1>4, <1>5 DEF Step

LEMMA NextInv == KListInv /\ [Next]_vars => KListInv'
<1>1. CASE Next
  BY <1>1, CallInv, StepInv DEF Next
<1>2. ASSUME KListInv, UNCHANGED vars PROVE KListInv'
  BY <1>2 DEF vars, links, call, KListInv, LinkTypes, ThreadTypes, LinksSound, CallOK, Members, tail
<1> QED
  BY <1>1, <1>2

(* The links of every list stay sound and the calls on it stay within it.  *)
LEMMA KListInvariant == Spec => []KListInv
<1> QED
  BY InitInv, NextInv, PTL DEF Spec

(* However lists, elements and threads are combined, next and prev are     *)
(* inverse on each list after any number of calls (list.c:38-77).          *)
THEOREM ListLinksSound == Spec => []LinksSound
<1>1. KListInv => LinksSound
  BY DEF KListInv
<1> QED
  BY <1>1, KListInvariant, PTL

(* No call of list.c follows a link that was never set.                    *)
THEOREM NoNullLink == Spec => []NoFault
<1>1. KListInv => NoFault
  BY DEF KListInv, CallOK, NoFault
<1> QED
  BY <1>1, KListInvariant, PTL

(* Every variable keeps its type, and a call under way has a list and a    *)
(* node of it.                                                             *)
THEOREM ListTypes == Spec => []TypeOK
<1>1. KListInv => TypeOK
  BY Ends DEF KListInv, LinkTypes, ThreadTypes, CallOK, Members, TypeOK
<1> QED
  BY <1>1, KListInvariant, PTL

(* The lists stay sound, and no call fails, whatever threads call, in any  *)
(* order and at any time the kernel's callers can be preempted.            *)
THEOREM ListsStaySound == Spec => []ListsSound
<1> QED
  BY ListLinksSound, NoNullLink, ListTypes, PTL DEF ListsSound

-----------------------------------------------------------------------------
(* A set of numbers that is not empty has a least element.                 *)
LEMMA LeastElement ==
  ASSUME NEW S \in SUBSET Nat, S # {}
  PROVE  Min(S) \in S /\ \A x \in S : Min(S) <= x
<1> DEFINE R == OpToRel(<, Nat)
<1>1. IsWellFoundedOn(R, Nat)
  BY NatLessThanWellFounded
<1>2. \E x \in S : \A y \in S : ~ (<<y, x>> \in R)
  <2> HIDE DEF R
  <2> QED BY <1>1, WFMin
<1>3. PICK x \in S : \A y \in S : ~ (<<y, x>> \in R)
  BY <1>2
<1>4. \A y \in S : ~ (y < x)
  BY <1>3 DEF OpToRel
<1>5. \A y \in S : x <= y
  BY <1>4
<1> QED
  BY <1>5 DEF Min

LEMMA UpTo ==
  ASSUME NEW N \in Nat, NEW T, 0 \in T, \A n \in 0 .. N - 1 : n \in T => n + 1 \in T
  PROVE  \A n \in 0 .. N : n \in T
<1> DEFINE Missed == {n \in 0 .. N : n \notin T}
<1>1. SUFFICES ASSUME Missed # {} PROVE FALSE
  OBVIOUS
<1>2. PICK n : n = Min(Missed)
  OBVIOUS
<1>3. n \in Missed /\ \A x \in Missed : n <= x
  <2>1. Missed \in SUBSET Nat
    OBVIOUS
  <2> HIDE DEF Missed
  <2> QED
    BY <1>1, <1>2, <2>1, LeastElement
<1>4. n \in 0 .. N /\ n \notin T /\ n # 0
  BY <1>3
<1>5. n - 1 \in 0 .. N - 1 /\ n - 1 + 1 = n /\ n - 1 \notin Missed
  BY <1>3, <1>4
<1> QED
  BY <1>4, <1>5

-----------------------------------------------------------------------------
(* Sequences given by their elements.                                      *)
Prefix(s, k) == [j \in 1 .. k |-> s[j]]
With(s, k, e) ==
  [j \in 1 .. Len(s) + 1 |-> IF j <= k THEN s[j] ELSE IF j = k + 1 THEN e ELSE s[j - 1]]
Without(s, k) == [j \in 1 .. Len(s) - 1 |-> IF j < k THEN s[j] ELSE s[j + 1]]

LEMMA SeqIs ==
  ASSUME NEW S, NEW n \in Nat, NEW f \in [1 .. n -> S]
  PROVE  f \in Seq(S) /\ Len(f) = n
<1>1. f \in Seq(S)
  OBVIOUS
<1>2. DOMAIN f = 1 .. Len(f) /\ Len(f) \in Nat
  BY <1>1, LenProperties
<1>3. 1 .. Len(f) = 1 .. n
  BY <1>2
<1>4. Len(f) = n
  <2>1. PICK m \in Nat : m = Len(f)
    BY <1>2
  <2>2. ASSUME m < n PROVE FALSE
    <3>1. n \in 1 .. n /\ n \notin 1 .. m
      BY <2>2
    <3> QED
      BY <1>3, <2>1, <3>1
  <2>3. ASSUME n < m PROVE FALSE
    <3>1. m \in 1 .. m /\ m \notin 1 .. n
      BY <2>3
    <3> QED
      BY <1>3, <2>1, <3>1
  <2> QED
    BY <2>1, <2>2, <2>3
<1> QED
  BY <1>1, <1>4

LEMMA PrefixIs ==
  ASSUME NEW S, NEW s \in Seq(S), NEW k \in 0 .. Len(s)
  PROVE  /\ Prefix(s, k) \in Seq(S) /\ Len(Prefix(s, k)) = k
         /\ Prefix(s, k) = <<>> <=> k = 0
         /\ k > 0 => Last(Prefix(s, k)) = s[k]
         /\ k < Len(s) => Append(Prefix(s, k), s[k + 1]) = Prefix(s, k + 1)
         /\ k = Len(s) => Prefix(s, k) = s
<1>1. Len(s) \in Nat /\ s \in [1 .. Len(s) -> S]
  BY LenProperties
<1>2. k \in Nat /\ k <= Len(s)
  BY <1>1
<1>3. \A j \in 1 .. Len(s) : s[j] \in S
  BY <1>1
<1>4. Prefix(s, k) \in [1 .. k -> S]
  BY <1>1, <1>2, <1>3 DEF Prefix
<1>5. Prefix(s, k) \in Seq(S) /\ Len(Prefix(s, k)) = k
  BY <1>2, <1>4, SeqIs
<1>6. Prefix(s, k) = <<>> <=> k = 0
  BY <1>5, EmptySeq
<1>7. k > 0 => Last(Prefix(s, k)) = s[k]
  <2>1. k > 0 => Prefix(s, k)[k] = s[k]
    BY <1>2 DEF Prefix
  <2> QED
    BY <1>5, <2>1 DEF Last
<1>8. ASSUME k < Len(s) PROVE Append(Prefix(s, k), s[k + 1]) = Prefix(s, k + 1)
  <2> DEFINE p == Prefix(s, k)
             q == Prefix(s, k + 1)
             a == Append(p, s[k + 1])
  <2>1. s[k + 1] \in S /\ k + 1 \in Nat
    BY <1>1, <1>2, <1>3, <1>8
  <2>2. /\ a \in Seq(S) /\ Len(a) = k + 1
        /\ \A j \in 1 .. k : a[j] = p[j]
        /\ a[k + 1] = s[k + 1]
    <3> HIDE DEF p
    <3>1. p \in Seq(S) /\ Len(p) = k
      BY <1>5 DEF p
    <3> QED
      BY <2>1, <3>1, AppendProperties
  <2>3. a \in [1 .. k + 1 -> S]
    <3> HIDE DEF a
    <3> QED BY <2>2, LenProperties
  <2>4. a = [j \in 1 .. k + 1 |-> a[j]]
    <3> HIDE DEF a
    <3> QED BY <2>3
  <2>5. ASSUME NEW j \in 1 .. k + 1 PROVE a[j] = s[j]
    <3>1. CASE j = k + 1
      BY <2>2, <3>1
    <3>2. CASE j # k + 1
      <4>1. j \in 1 .. k
        BY <1>2, <3>2
      <4>2. p[j] = s[j]
        BY <4>1 DEF Prefix
      <4> QED
        BY <2>2, <4>1, <4>2
    <3> QED
      BY <3>1, <3>2
  <2> HIDE DEF a
  <2>6. a = [j \in 1 .. k + 1 |-> s[j]]
    BY <2>4, <2>5
  <2> QED
    BY <2>6 DEF a, Prefix
<1>9. k = Len(s) => Prefix(s, k) = s
  BY <1>1 DEF Prefix
<1> QED
  BY <1>5, <1>6, <1>7, <1>8, <1>9

LEMMA WithIs ==
  ASSUME NEW S, NEW s \in Seq(S), NEW e \in S, NEW k \in 0 .. Len(s)
  PROVE  /\ With(s, k, e) \in Seq(S) /\ Len(With(s, k, e)) = Len(s) + 1
         /\ With(s, 0, e) = <<e>> \o s
         /\ With(s, Len(s), e) = s \o <<e>>
<1>1. Len(s) \in Nat /\ s \in [1 .. Len(s) -> S]
  BY LenProperties
<1>2. \A j \in 1 .. Len(s) : s[j] \in S
  BY <1>1
<1>3. With(s, k, e) \in [1 .. Len(s) + 1 -> S]
  <2>1. ASSUME NEW j \in 1 .. Len(s) + 1
        PROVE  (IF j <= k THEN s[j] ELSE IF j = k + 1 THEN e ELSE s[j - 1]) \in S
    <3>1. CASE j <= k
      BY <1>1, <1>2, <3>1
    <3>2. CASE j = k + 1
      BY <1>1, <3>2
    <3>3. CASE ~ (j <= k) /\ j # k + 1
      <4>1. j - 1 \in 1 .. Len(s)
        BY <1>1, <3>3
      <4> QED
        BY <1>2, <3>3, <4>1
    <3> QED
      BY <3>1, <3>2, <3>3
  <2> QED
    BY <2>1 DEF With
<1>4. With(s, k, e) \in Seq(S) /\ Len(With(s, k, e)) = Len(s) + 1
  <2>1. Len(s) + 1 \in Nat
    BY <1>1
  <2> QED
    BY <1>3, <2>1, SeqIs
<1>5. <<e>> \in Seq(S) /\ Len(<<e>>) = 1 /\ <<e>>[1] = e
  OBVIOUS
<1>6. With(s, 0, e) = <<e>> \o s
  <2>1. PICK c : c = <<e>> \o s
    OBVIOUS
  <2>2. /\ c \in Seq(S) /\ Len(c) = 1 + Len(s)
        /\ \A j \in 1 .. 1 + Len(s) : c[j] = IF j <= 1 THEN <<e>>[j] ELSE s[j - 1]
    BY <1>5, <2>1, ConcatProperties
  <2>3. c \in [1 .. Len(s) + 1 -> S]
    BY <1>1, <2>2, LenProperties
  <2>4. ASSUME NEW j \in 1 .. Len(s) + 1
        PROVE  c[j] = IF j <= 0 THEN s[j] ELSE IF j = 0 + 1 THEN e ELSE s[j - 1]
    BY <1>1, <1>5, <2>2
  <2> QED
    BY <2>1, <2>3, <2>4 DEF With
<1>7. With(s, Len(s), e) = s \o <<e>>
  <2>1. PICK c : c = s \o <<e>>
    OBVIOUS
  <2>2. /\ c \in Seq(S) /\ Len(c) = Len(s) + 1
        /\ \A j \in 1 .. Len(s) + 1 : c[j] = IF j <= Len(s) THEN s[j] ELSE <<e>>[j - Len(s)]
    BY <1>5, <2>1, ConcatProperties
  <2>3. c \in [1 .. Len(s) + 1 -> S]
    BY <1>1, <2>2, LenProperties
  <2>4. ASSUME NEW j \in 1 .. Len(s) + 1
        PROVE  c[j] = IF j <= Len(s) THEN s[j] ELSE IF j = Len(s) + 1 THEN e ELSE s[j - 1]
    <3>1. CASE j <= Len(s)
      BY <2>2, <3>1
    <3>2. CASE ~ (j <= Len(s))
      <4>1. j = Len(s) + 1 /\ j - Len(s) = 1
        BY <1>1, <3>2
      <4> QED
        BY <1>5, <2>2, <3>2, <4>1
    <3> QED
      BY <3>1, <3>2
  <2> QED
    BY <2>1, <2>3, <2>4 DEF With
<1> QED
  BY <1>4, <1>6, <1>7

LEMMA WithoutIs ==
  ASSUME NEW S, NEW s \in Seq(S), NEW k \in 1 .. Len(s)
  PROVE  /\ Without(s, k) \in Seq(S) /\ Len(Without(s, k)) = Len(s) - 1
         /\ Without(s, k) = RemoveAt(s, k)
         /\ Without(s, 1) = Tail(s)
<1>1. /\ Len(s) \in Nat /\ s \in [1 .. Len(s) -> S] /\ k \in Nat /\ Len(s) - 1 \in Nat
      /\ k <= Len(s)
  BY LenProperties
<1>2. \A j \in 1 .. Len(s) : s[j] \in S
  BY <1>1
<1>3. Without(s, k) \in [1 .. Len(s) - 1 -> S]
  <2>1. ASSUME NEW j \in 1 .. Len(s) - 1
        PROVE  j \in 1 .. Len(s) /\ j + 1 \in 1 .. Len(s)
    BY <1>1
  <2> QED
    BY <1>2, <2>1 DEF Without
<1>4. Without(s, k) \in Seq(S) /\ Len(Without(s, k)) = Len(s) - 1
  BY <1>1, <1>3, SeqIs
<1>5. Without(s, k) = RemoveAt(s, k)
  <2>1. PICK a, b : a = SubSeq(s, 1, k - 1) /\ b = SubSeq(s, k + 1, Len(s))
    OBVIOUS
  <2>2. /\ a \in Seq(S) /\ Len(a) = k - 1 /\ \A j \in 1 .. k - 1 : a[j] = s[j]
    <3>1. k - 1 \in Int /\ 1 \in Int /\ \A j \in 1 .. k - 1 : s[j] \in S
      BY <1>1, <1>2
    <3>2. /\ SubSeq(s, 1, k - 1) \in Seq(S)
          /\ Len(SubSeq(s, 1, k - 1)) = IF 1 <= k - 1 THEN k - 1 - 1 + 1 ELSE 0
          /\ \A j \in 1 .. k - 1 - 1 + 1 : SubSeq(s, 1, k - 1)[j] = s[1 + j - 1]
      BY <3>1, SubSeqProperties
    <3> QED
      BY <1>1, <2>1, <3>2
  <2>3. /\ b \in Seq(S) /\ Len(b) = Len(s) - k /\ \A j \in 1 .. Len(s) - k : b[j] = s[k + j]
    <3>1. k + 1 \in Int /\ Len(s) \in Int /\ \A j \in k + 1 .. Len(s) : s[j] \in S
      BY <1>1, <1>2
    <3>2. /\ SubSeq(s, k + 1, Len(s)) \in Seq(S)
          /\ Len(SubSeq(s, k + 1, Len(s))) =
               IF k + 1 <= Len(s) THEN Len(s) - (k + 1) + 1 ELSE 0
          /\ \A j \in 1 .. Len(s) - (k + 1) + 1 :
               SubSeq(s, k + 1, Len(s))[j] = s[(k + 1) + j - 1]
      BY <3>1, SubSeqProperties
    <3> QED
      <4>1. PICK n : n = Len(s) /\ n \in Nat /\ k \in Nat /\ k <= n
        BY <1>1, Zenon
      <4>2. n - (k + 1) + 1 = n - k /\ (~ (k + 1 <= n) => n - k = 0)
        BY <4>1
      <4>3. ASSUME NEW j \in 1 .. n - k PROVE b[j] = s[k + j]
        <5>1. (k + 1) + j - 1 = k + j
          BY <1>1, <4>1
        <5> QED
          BY <2>1, <3>2, <4>1, <4>2, <5>1
      <4> QED
        BY <2>1, <3>2, <4>1, <4>2, <4>3
  <2>4. PICK c : c = a \o b
    OBVIOUS
  <2>5. /\ c \in Seq(S) /\ Len(c) = Len(s) - 1
        /\ \A j \in 1 .. Len(s) - 1 : c[j] = IF j <= k - 1 THEN a[j] ELSE b[j - (k - 1)]
    <3>1. /\ c \in Seq(S) /\ Len(c) = Len(a) + Len(b)
          /\ \A j \in 1 .. Len(a) + Len(b) : c[j] = IF j <= Len(a) THEN a[j] ELSE b[j - Len(a)]
      BY <2>2, <2>3, <2>4, ConcatProperties
    <3>2. Len(a) + Len(b) = Len(s) - 1
      BY <1>1, <2>2, <2>3
    <3> QED
      BY <2>2, <3>1, <3>2
  <2>6. c \in [1 .. Len(s) - 1 -> S]
    BY <2>5, LenProperties
  <2>7. ASSUME NEW j \in 1 .. Len(s) - 1
        PROVE  c[j] = IF j < k THEN s[j] ELSE s[j + 1]
    <3>1. CASE j < k
      <4>1. j \in 1 .. k - 1 /\ j <= k - 1
        BY <1>1, <3>1
      <4> QED
        BY <2>2, <2>5, <3>1, <4>1
    <3>2. CASE ~ (j < k)
      <4>1. j - (k - 1) \in 1 .. Len(s) - k /\ k + (j - (k - 1)) = j + 1 /\ ~ (j <= k - 1)
        BY <1>1, <3>2
      <4> QED
        BY <2>3, <2>5, <3>2, <4>1
    <3> QED
      BY <3>1, <3>2
  <2>8. c = Without(s, k)
    BY <2>6, <2>7 DEF Without
  <2> QED
    BY <2>1, <2>4, <2>8 DEF RemoveAt
<1>6. Without(s, 1) = Tail(s)
  <2>1. s # <<>>
    BY <1>1
  <2>2. /\ Tail(s) \in Seq(S) /\ Len(Tail(s)) = Len(s) - 1
        /\ \A j \in 1 .. Len(Tail(s)) : Tail(s)[j] = s[j + 1]
    BY <2>1, HeadTailProperties
  <2>3. PICK c : c = Tail(s)
    OBVIOUS
  <2>4. c \in [1 .. Len(s) - 1 -> S]
    BY <2>2, <2>3, LenProperties
  <2>5. ASSUME NEW j \in 1 .. Len(s) - 1
        PROVE  c[j] = IF j < 1 THEN s[j] ELSE s[j + 1]
    BY <1>1, <2>2, <2>3
  <2> QED
    BY <2>3, <2>4, <2>5 DEF Without
<1> QED
  BY <1>4, <1>5, <1>6

-----------------------------------------------------------------------------
(* The nodes of a list in their order, when s are its elements.            *)
NodeAt(l, s, i) == IF i = 0 THEN head(l) ELSE IF i <= Len(s) THEN s[i] ELSE tail(l)

InOrder(nx, hm, l, s) ==
  /\ s \in Seq(Elem)
  /\ \A i \in 0 .. Len(s) : nx[NodeAt(l, s, i)] = NodeAt(l, s, i + 1)
  /\ \A i, j \in 1 .. Len(s) : s[i] = s[j] => i = j
  /\ \A e \in Elem : hm[e] = l <=> \E i \in 1 .. Len(s) : s[i] = e

(* Elements for any links.                                                 *)
NextOf(nx, l, s) == nx[IF s = <<>> THEN head(l) ELSE Last(s)]

Chain(nx, l, f) ==
  [i \in 0 .. Cardinality(Elem) |->
     IF i = 0 THEN <<>>
     ELSE IF NextOf(nx, l, f[i - 1]) \in Elem THEN Append(f[i - 1], NextOf(nx, l, f[i - 1]))
     ELSE f[i - 1]]

Reach(nx, l) ==
  LET follow[i \in 0 .. Cardinality(Elem)] ==
        LET s == follow[i - 1]
            n == nx[IF s = <<>> THEN head(l) ELSE Last(s)]
        IN  IF i = 0 THEN <<>> ELSE IF n \in Elem THEN Append(s, n) ELSE s
  IN  follow[Cardinality(Elem)]

LEMMA ElementsReach ==
  ASSUME NEW l \in List
  PROVE  Elements(l) = Reach(next, l) /\ Elements(l)' = Reach(next', l)
<1>1. Elements(l) = Reach(next, l)
  BY DEF Elements, Reach
<1>2. Elements(l)' = Reach(next', l)
  BY DEF Elements, Reach, head
<1> QED
  BY <1>1, <1>2

(* No list is longer than there are elements.                              *)
LEMMA NotLonger ==
  ASSUME NEW nx, NEW hm, NEW l \in List, NEW s, InOrder(nx, hm, l, s)
  PROVE  Cardinality(Elem) \in Nat /\ Len(s) \in Nat /\ Len(s) <= Cardinality(Elem)
<1>1. IsFiniteSet(Elem) /\ Cardinality(Elem) \in Nat
  BY KListAssumption, FS_CardinalityType
<1>2. Len(s) \in Nat /\ s \in [1 .. Len(s) -> Elem]
  BY LenProperties DEF InOrder
<1>3. s \in Injection(1 .. Len(s), Elem)
  BY <1>2 DEF InOrder, Injection, IsInjective
<1>4. Cardinality(1 .. Len(s)) <= Cardinality(Elem)
  BY <1>1, <1>3, FS_Injection
<1>5. Cardinality(1 .. Len(s)) = Len(s)
  <2>1. PICK n \in Nat : n = Len(s)
    BY <1>2
  <2>2. Cardinality(1 .. n) = IF 1 > n THEN 0 ELSE n - 1 + 1
    BY FS_Interval
  <2>3. Cardinality(1 .. n) = n
    BY <2>2
  <2> QED
    BY <2>1, <2>3
<1> QED
  BY <1>1, <1>2, <1>4, <1>5

(* A reader of the links finds the elements that are in order.             *)
LEMMA Reads ==
  ASSUME NEW nx, NEW hm, NEW l \in List, NEW s, InOrder(nx, hm, l, s)
  PROVE  Reach(nx, l) = s
<1> DEFINE N == Cardinality(Elem)
           follow[i \in 0 .. N] ==
             LET p == follow[i - 1]
                 n == nx[IF p = <<>> THEN head(l) ELSE Last(p)]
             IN  IF i = 0 THEN <<>> ELSE IF n \in Elem THEN Append(p, n) ELSE p
           Cut(i) == IF i <= Len(s) THEN i ELSE Len(s)
           F == [i \in 0 .. N |-> Prefix(s, Cut(i))]
<1>1. N \in Nat /\ Len(s) \in Nat /\ Len(s) <= N /\ s \in Seq(Elem)
  <2> HIDE DEF follow, F
  <2>1. s \in Seq(Elem)
    BY DEF InOrder
  <2>2. Cardinality(Elem) \in Nat /\ Len(s) \in Nat /\ Len(s) <= Cardinality(Elem)
    BY NotLonger
  <2> QED
    BY <2>1, <2>2
<1>2. Reach(nx, l) = follow[N]
  BY DEF Reach
<1> HIDE DEF N
<1>3. ASSUME NEW f
      PROVE  [i \in 0 .. N |->
                LET p == f[i - 1]
                    n == nx[IF p = <<>> THEN head(l) ELSE Last(p)]
                IN  IF i = 0 THEN <<>> ELSE IF n \in Elem THEN Append(p, n) ELSE p]
               = Chain(nx, l, f)
  BY DEF Chain, NextOf, N
<1>4. ASSUME NEW k \in 0 .. Len(s)
      PROVE  NextOf(nx, l, Prefix(s, k)) = NodeAt(l, s, k + 1)
  <2>1. /\ Prefix(s, k) = <<>> <=> k = 0
        /\ k > 0 => Last(Prefix(s, k)) = s[k]
    BY <1>1, PrefixIs
  <2>2. nx[NodeAt(l, s, k)] = NodeAt(l, s, k + 1)
    BY DEF InOrder
  <2>3. NodeAt(l, s, k) = IF k = 0 THEN head(l) ELSE s[k]
    BY <1>1 DEF NodeAt
  <2> QED
    BY <1>1, <2>1, <2>2, <2>3 DEF NextOf
<1>5. F = Chain(nx, l, F)
  <2>1. Prefix(s, 0) = <<>> /\ Cut(0) = 0
    BY <1>1, PrefixIs
  <2>2. ASSUME NEW i \in 0 .. N, i # 0
        PROVE  Prefix(s, Cut(i)) =
                 IF NextOf(nx, l, F[i - 1]) \in Elem
                 THEN Append(F[i - 1], NextOf(nx, l, F[i - 1])) ELSE F[i - 1]
    <3>1. PICK k : k = Cut(i - 1)
      OBVIOUS
    <3>2. F[i - 1] = Prefix(s, k) /\ k \in 0 .. Len(s)
      BY <1>1, <2>2, <3>1
    <3>3. NextOf(nx, l, F[i - 1]) = NodeAt(l, s, k + 1)
      <4> HIDE DEF F
      <4> QED BY <1>4, <3>2
    <3>4. CASE i - 1 < Len(s)
      <4>1. k = i - 1 /\ k < Len(s) /\ Cut(i) = k + 1 /\ k + 1 \in 1 .. Len(s) /\ k + 1 # 0
        BY <1>1, <2>2, <3>1, <3>4
      <4>2. NodeAt(l, s, k + 1) = s[k + 1] /\ s[k + 1] \in Elem
        <5>1. s \in [1 .. Len(s) -> Elem]
          BY <1>1, LenProperties
        <5> QED
          BY <1>1, <4>1, <5>1 DEF NodeAt
      <4>3. Append(Prefix(s, k), s[k + 1]) = Prefix(s, k + 1)
        BY <1>1, <3>2, <4>1, PrefixIs
      <4> HIDE DEF F, Cut
      <4> QED
        BY <3>2, <3>3, <4>1, <4>2, <4>3
    <3>5. CASE ~ (i - 1 < Len(s))
      <4>1. k = Len(s) /\ Cut(i) = Len(s)
        BY <1>1, <2>2, <3>1, <3>5
      <4>2. NodeAt(l, s, k + 1) = tail(l) /\ tail(l) \notin Elem
        BY <1>1, <4>1, Ends DEF NodeAt
      <4> HIDE DEF F, Cut
      <4> QED
        BY <3>2, <3>3, <4>1, <4>2
    <3> QED
      BY <3>4, <3>5
  <2>3. ASSUME NEW i \in 0 .. N
        PROVE  Prefix(s, Cut(i)) =
                 IF i = 0 THEN <<>>
                 ELSE IF NextOf(nx, l, F[i - 1]) \in Elem
                 THEN Append(F[i - 1], NextOf(nx, l, F[i - 1])) ELSE F[i - 1]
    <3> HIDE DEF F, Cut
    <3> QED BY <2>1, <2>2
  <2>4. Chain(nx, l, F) =
          [i \in 0 .. N |->
             IF i = 0 THEN <<>>
             ELSE IF NextOf(nx, l, F[i - 1]) \in Elem
             THEN Append(F[i - 1], NextOf(nx, l, F[i - 1])) ELSE F[i - 1]]
    BY DEF Chain, N
  <2>5. Chain(nx, l, F) = [i \in 0 .. N |-> Prefix(s, Cut(i))]
    <3> HIDE DEF F, Cut
    <3> QED BY <2>3, <2>4
  <2> QED
    BY <2>5
<1>6. \E f : f = [i \in 0 .. N |->
                LET p == f[i - 1]
                    n == nx[IF p = <<>> THEN head(l) ELSE Last(p)]
                IN  IF i = 0 THEN <<>> ELSE IF n \in Elem THEN Append(p, n) ELSE p]
  <2> HIDE DEF F
  <2> QED BY <1>3, <1>5
<1>7. follow = [i \in 0 .. N |->
                LET p == follow[i - 1]
                    n == nx[IF p = <<>> THEN head(l) ELSE Last(p)]
                IN  IF i = 0 THEN <<>> ELSE IF n \in Elem THEN Append(p, n) ELSE p]
  BY <1>6
<1> HIDE DEF follow
<1>8. follow = Chain(nx, l, follow)
  BY <1>3, <1>7
<1>9. F[0] = <<>> /\ F[N] = s
  <2>1. Cut(N) = Len(s) /\ Cut(0) = 0 /\ N \in 0 .. N /\ 0 \in 0 .. N
    BY <1>1
  <2>2. Prefix(s, Len(s)) = s /\ Prefix(s, 0) = <<>>
    BY <1>1, PrefixIs
  <2> QED
    BY <2>1, <2>2
<1> HIDE DEF F
<1> DEFINE T == {i \in 0 .. N : follow[i] = F[i]}
<1>10. \A f : f = Chain(nx, l, f) =>
          /\ f[0] = <<>>
          /\ \A i \in 0 .. N : i # 0 =>
               f[i] = IF NextOf(nx, l, f[i - 1]) \in Elem
                      THEN Append(f[i - 1], NextOf(nx, l, f[i - 1])) ELSE f[i - 1]
  <2>1. 0 \in 0 .. N
    BY <1>1
  <2> QED
    BY <2>1 DEF Chain, N
<1>11. 0 \in T
  BY <1>1, <1>8, <1>9, <1>10
<1>12. ASSUME NEW k \in 0 .. N - 1, k \in T PROVE k + 1 \in T
  <2>1. PICK i : i = k + 1
    OBVIOUS
  <2>2. i \in 0 .. N /\ i # 0 /\ i - 1 = k
    BY <1>1, <2>1
  <2>3. follow[k] = F[k]
    BY <1>12
  <2>4. follow[i] = F[i]
    BY <1>5, <1>8, <1>10, <2>2, <2>3
  <2> QED
    BY <2>1, <2>2, <2>4
<1>13. N \in T
  <2> HIDE DEF T
  <2>1. \A k \in 0 .. N : k \in T
    BY <1>1, <1>11, <1>12, UpTo
  <2> QED
    BY <1>1, <2>1
<1> QED
  BY <1>2, <1>9, <1>13

(* The nodes of a list are all different.                                  *)
Different(hm, l, s) ==
  /\ Len(s) \in Nat
  /\ \A i \in 1 .. Len(s) : s[i] \in Elem /\ hm[s[i]] = l /\ NodeAt(l, s, i) = s[i]
  /\ NodeAt(l, s, 0) = head(l) /\ NodeAt(l, s, Len(s) + 1) = tail(l)
  /\ \A i \in 0 .. Len(s) + 1 : NodeAt(l, s, i) \in Node
  /\ \A i, j \in 0 .. Len(s) + 1 : NodeAt(l, s, i) = NodeAt(l, s, j) => i = j

LEMMA NodesDiffer ==
  ASSUME NEW nx, NEW hm, NEW l \in List, NEW s, InOrder(nx, hm, l, s)
  PROVE  Different(hm, l, s)
<1>1. Len(s) \in Nat /\ s \in [1 .. Len(s) -> Elem]
  BY LenProperties DEF InOrder
<1>2. \A i \in 1 .. Len(s) : s[i] \in Elem /\ hm[s[i]] = l /\ NodeAt(l, s, i) = s[i]
  <2>1. ASSUME NEW i \in 1 .. Len(s) PROVE s[i] \in Elem /\ hm[s[i]] = l
    BY <1>1 DEF InOrder
  <2>2. ASSUME NEW i \in 1 .. Len(s) PROVE NodeAt(l, s, i) = s[i]
    BY <1>1 DEF NodeAt
  <2> QED
    BY <2>1, <2>2
<1>3. NodeAt(l, s, 0) = head(l) /\ NodeAt(l, s, Len(s) + 1) = tail(l)
  BY <1>1 DEF NodeAt
<1>4. ASSUME NEW i \in 0 .. Len(s) + 1 PROVE i = 0 \/ i = Len(s) + 1 \/ i \in 1 .. Len(s)
  BY <1>1
<1>5. \A i \in 0 .. Len(s) + 1 : NodeAt(l, s, i) \in Node
  BY <1>2, <1>3, <1>4, Ends
<1>6. ASSUME NEW i \in 0 .. Len(s) + 1, NEW j \in 0 .. Len(s) + 1, NodeAt(l, s, i) = NodeAt(l, s, j)
      PROVE  i = j
  <2>1. CASE i \in 1 .. Len(s)
    <3>1. j \in 1 .. Len(s)
      <4>1. NodeAt(l, s, j) \in Elem
        BY <1>2, <1>6, <2>1
      <4>2. head(l) \notin Elem /\ tail(l) \notin Elem
        BY Ends
      <4> QED
        BY <1>3, <1>4, <4>1, <4>2
    <3>2. s[i] = s[j]
      BY <1>2, <1>6, <2>1, <3>1
    <3>3. \A a, b \in 1 .. Len(s) : s[a] = s[b] => a = b
      BY DEF InOrder
    <3> QED
      BY <2>1, <3>1, <3>2, <3>3
  <2>2. CASE i = 0
    BY <1>2, <1>3, <1>4, <1>6, <2>2, Ends
  <2>3. CASE i = Len(s) + 1
    BY <1>2, <1>3, <1>4, <1>6, <2>3, Ends
  <2> QED
    BY <1>4, <2>1, <2>2, <2>3
<1> QED
  BY <1>1, <1>2, <1>3, <1>5, <1>6 DEF Different

\* Both for sequences of elements.
LEMMA WithElem ==
  ASSUME NEW s \in Seq(Elem), NEW e \in Elem, NEW k \in 0 .. Len(s)
  PROVE  /\ With(s, k, e) \in Seq(Elem) /\ Len(With(s, k, e)) = Len(s) + 1
         /\ With(s, 0, e) = <<e>> \o s /\ With(s, Len(s), e) = s \o <<e>>
BY WithIs

LEMMA WithoutElem ==
  ASSUME NEW s \in Seq(Elem), NEW k \in 1 .. Len(s)
  PROVE  /\ Without(s, k) \in Seq(Elem) /\ Len(Without(s, k)) = Len(s) - 1
         /\ Without(s, k) = RemoveAt(s, k) /\ Without(s, 1) = Tail(s)
BY WithoutIs

(* list_insert_before puts an element between two nodes ...                *)
LEMMA InsertOrder ==
  ASSUME NEW nx \in [Node -> Node \union {NULL}], NEW hm \in [Elem -> List \union {NULL}],
         NEW l \in List, NEW s, InOrder(nx, hm, l, s), NEW e \in Elem, hm[e] = NULL,
         NEW k \in 0 .. Len(s), NEW mx, NEW im,
         mx = [nx EXCEPT ![NodeAt(l, s, k)] = e, ![e] = NodeAt(l, s, k + 1)],
         im = [hm EXCEPT ![e] = l]
  PROVE  InOrder(mx, im, l, With(s, k, e))
<1> DEFINE w == With(s, k, e)
<1>1. /\ Len(s) \in Nat
      /\ \A i \in 1 .. Len(s) : s[i] \in Elem /\ hm[s[i]] = l /\ NodeAt(l, s, i) = s[i]
      /\ NodeAt(l, s, 0) = head(l) /\ NodeAt(l, s, Len(s) + 1) = tail(l)
      /\ \A i \in 0 .. Len(s) + 1 : NodeAt(l, s, i) \in Node
      /\ \A i, j \in 0 .. Len(s) + 1 : NodeAt(l, s, i) = NodeAt(l, s, j) => i = j
  <2>1. Different(hm, l, s)
    BY NodesDiffer
  <2> QED
    BY <2>1 DEF Different
<1>2. s \in Seq(Elem) /\ w \in Seq(Elem) /\ Len(w) = Len(s) + 1
  <2>1. s \in Seq(Elem)
    BY DEF InOrder
  <2> HIDE DEF w
  <2>2. w = With(s, k, e)
    BY DEF w
  <2>3. With(s, k, e) \in Seq(Elem) /\ Len(With(s, k, e)) = Len(s) + 1
    BY <2>1, WithElem
  <2> QED
    BY <2>1, <2>2, <2>3
<1>3. k \in Nat /\ k <= Len(s)
  BY <1>1
<1>4. \A i \in 0 .. Len(s) + 1 : NodeAt(l, s, i) # e
  <2>1. ASSUME NEW i \in 0 .. Len(s) + 1 PROVE i = 0 \/ i = Len(s) + 1 \/ i \in 1 .. Len(s)
    BY <1>1
  <2> QED
    BY <1>1, <2>1, Ends
<1>5. ASSUME NEW j \in 1 .. Len(s) + 1
      PROVE  w[j] = IF j <= k THEN s[j] ELSE IF j = k + 1 THEN e ELSE s[j - 1]
  BY DEF With
<1>6. ASSUME NEW i \in 0 .. Len(s) + 2
      PROVE  NodeAt(l, w, i) =
               IF i <= k THEN NodeAt(l, s, i) ELSE IF i = k + 1 THEN e ELSE NodeAt(l, s, i - 1)
  <2>1. CASE i = 0
    BY <1>1, <1>3, <2>1 DEF NodeAt
  <2>2. CASE i \in 1 .. Len(s) + 1
    <3>1. NodeAt(l, w, i) = w[i]
      BY <1>1, <1>2, <2>2 DEF NodeAt
    <3>2. i <= k => NodeAt(l, s, i) = s[i]
      BY <1>1, <1>3, <2>2
    <3>3. ~ (i <= k) /\ i # k + 1 => NodeAt(l, s, i - 1) = s[i - 1]
      BY <1>1, <1>3, <2>2
    <3> HIDE DEF w
    <3> QED
      BY <1>5, <2>2, <3>1, <3>2, <3>3
  <2>3. CASE i = Len(s) + 2
    <3>1. NodeAt(l, w, i) = tail(l)
      BY <1>1, <1>2, <2>3 DEF NodeAt
    <3>2. i - 1 = Len(s) + 1 /\ ~ (i <= k) /\ i # k + 1
      BY <1>1, <1>3, <2>3
    <3> HIDE DEF w
    <3> QED
      BY <1>1, <3>1, <3>2
  <2> QED
    BY <1>1, <2>1, <2>2, <2>3
<1> HIDE DEF w
<1>7. PICK p, q : p = NodeAt(l, s, k) /\ q = NodeAt(l, s, k + 1)
  OBVIOUS
<1>8. p \in Node /\ q \in Node /\ p # e /\ e \in Node
  <2>1. k \in 0 .. Len(s) + 1 /\ k + 1 \in 0 .. Len(s) + 1
    BY <1>1, <1>3
  <2> QED
    BY <1>1, <1>4, <1>7, <2>1, Ends
<1>9. \A n \in Node : mx[n] = IF n = e THEN q ELSE IF n = p THEN e ELSE nx[n]
  <2>1. mx = [nx EXCEPT ![p] = e, ![e] = q]
    BY <1>7
  <2> QED
    BY <1>8, <2>1
<1>10. ASSUME NEW i \in 0 .. Len(w) PROVE mx[NodeAt(l, w, i)] = NodeAt(l, w, i + 1)
  <2>1. i \in Nat /\ i \in 0 .. Len(s) + 2 /\ i + 1 \in 0 .. Len(s) + 2 /\ i <= Len(s) + 1
    BY <1>1, <1>2
  <2>2. CASE i < k
    <3>1. NodeAt(l, w, i) = NodeAt(l, s, i) /\ NodeAt(l, w, i + 1) = NodeAt(l, s, i + 1)
      BY <1>3, <1>6, <2>1, <2>2
    <3>2. i \in 0 .. Len(s) /\ i \in 0 .. Len(s) + 1 /\ k \in 0 .. Len(s) + 1 /\ i # k
      BY <1>1, <1>3, <2>1, <2>2
    <3>3. nx[NodeAt(l, s, i)] = NodeAt(l, s, i + 1)
      BY <3>2 DEF InOrder
    <3> QED
      BY <1>1, <1>4, <1>7, <1>9, <3>1, <3>2, <3>3
  <2>3. CASE i = k
    <3>1. NodeAt(l, w, i) = p /\ NodeAt(l, w, i + 1) = e
      BY <1>3, <1>6, <1>7, <2>1, <2>3
    <3> QED
      BY <1>8, <1>9, <3>1
  <2>4. CASE i = k + 1
    <3>1. ~ (i <= k) /\ ~ (i + 1 <= k) /\ i + 1 # k + 1 /\ i + 1 - 1 = k + 1
      BY <1>3, <2>4
    <3>2. NodeAt(l, w, i) = e /\ NodeAt(l, w, i + 1) = q
      BY <1>6, <1>7, <2>1, <2>4, <3>1
    <3> QED
      BY <1>8, <1>9, <3>2
  <2>5. CASE i > k + 1
    <3>1. PICK j : j = i - 1
      OBVIOUS
    <3>2. /\ j \in 0 .. Len(s) /\ j \in 0 .. Len(s) + 1 /\ k \in 0 .. Len(s) + 1 /\ j # k
          /\ i = j + 1 /\ i + 1 - 1 = j + 1 /\ ~ (i <= k) /\ i # k + 1
          /\ ~ (i + 1 <= k) /\ i + 1 # k + 1
      BY <1>1, <1>3, <2>1, <2>5, <3>1
    <3>3. NodeAt(l, w, i) = NodeAt(l, s, j) /\ NodeAt(l, w, i + 1) = NodeAt(l, s, j + 1)
      BY <1>6, <2>1, <3>1, <3>2
    <3>4. nx[NodeAt(l, s, j)] = NodeAt(l, s, j + 1)
      BY <3>2 DEF InOrder
    <3> QED
      BY <1>1, <1>4, <1>7, <1>9, <3>2, <3>3, <3>4
  <2> QED
    BY <1>3, <2>1, <2>2, <2>3, <2>4, <2>5
<1>11. ASSUME NEW i \in 1 .. Len(w), NEW j \in 1 .. Len(w), w[i] = w[j] PROVE i = j
  <2>1. \A a, b \in 1 .. Len(s) : s[a] = s[b] => a = b
    BY DEF InOrder
  <2>2. \A a \in 1 .. Len(s) : s[a] # e
    BY <1>1, Ends
  <2>3. ASSUME NEW a \in 1 .. Len(s) + 1
        PROVE  /\ a <= k => a \in 1 .. Len(s)
               /\ ~ (a <= k) /\ a # k + 1 => a - 1 \in 1 .. Len(s)
    BY <1>1, <1>3
  <2>4. i \in 1 .. Len(s) + 1 /\ j \in 1 .. Len(s) + 1
    BY <1>2
  <2> DEFINE From(a) == IF a <= k THEN a ELSE a - 1
  <2>5. ASSUME NEW a \in 1 .. Len(s) + 1, a # k + 1
        PROVE  From(a) \in 1 .. Len(s) /\ w[a] = s[From(a)] /\ w[a] # e
    BY <1>5, <2>2, <2>3, <2>5
  <2>6. w[k + 1] = e
    <3>1. k + 1 \in 1 .. Len(s) + 1 /\ ~ (k + 1 <= k)
      BY <1>1, <1>3
    <3> QED
      BY <1>5, <3>1
  <2>7. ASSUME i # k + 1, j # k + 1, From(i) = From(j) PROVE i = j
    <3>1. ASSUME NEW a \in 1 .. Len(s) + 1, a # k + 1 PROVE a = IF From(a) <= k THEN From(a) ELSE From(a) + 1
      BY <1>1, <1>3, <3>1
    <3> HIDE DEF From
    <3>2. /\ i = IF From(i) <= k THEN From(i) ELSE From(i) + 1
          /\ j = IF From(j) <= k THEN From(j) ELSE From(j) + 1
      BY <2>4, <2>7, <3>1
    <3> QED
      BY <2>7, <3>2
  <2> HIDE DEF From
  <2> QED
    BY <1>11, <2>1, <2>4, <2>5, <2>6, <2>7
<1>12. ASSUME NEW x \in Elem
       PROVE  im[x] = l <=> \E i \in 1 .. Len(w) : w[i] = x
  <2>1. CASE x = e
    <3>1. k + 1 \in 1 .. Len(s) + 1 /\ ~ (k + 1 <= k)
      BY <1>1, <1>3
    <3>2. w[k + 1] = e
      BY <1>5, <3>1
    <3> QED
      BY <1>2, <2>1, <3>1, <3>2
  <2>2. CASE x # e
    <3>1. im[x] = hm[x]
      BY <2>2
    <3>2. hm[x] = l <=> \E i \in 1 .. Len(s) : s[i] = x
      BY DEF InOrder
    <3>3. ASSUME NEW i \in 1 .. Len(s) PROVE \E j \in 1 .. Len(w) : w[j] = s[i]
      <4>1. CASE i <= k
        <5>1. i \in 1 .. Len(s) + 1
          BY <1>1
        <5> QED
          BY <1>2, <1>5, <4>1, <5>1
      <4>2. CASE ~ (i <= k)
        <5>1. PICK j : j = i + 1
          OBVIOUS
        <5>2. j \in 1 .. Len(s) + 1 /\ ~ (j <= k) /\ j # k + 1 /\ j - 1 = i
          BY <1>1, <1>3, <4>2, <5>1
        <5> QED
          BY <1>2, <1>5, <5>2
      <4> QED
        BY <4>1, <4>2
    <3>4. ASSUME NEW j \in 1 .. Len(w), w[j] = x PROVE \E i \in 1 .. Len(s) : s[i] = x
      <4>1. j \in 1 .. Len(s) + 1
        BY <1>2
      <4>2. j <= k => j \in 1 .. Len(s)
        BY <1>1, <1>3, <4>1
      <4>3. ~ (j <= k) /\ j # k + 1 => j - 1 \in 1 .. Len(s)
        BY <1>1, <1>3, <4>1
      <4> QED
        BY <1>5, <2>2, <3>4, <4>1, <4>2, <4>3
    <3> QED
      BY <3>1, <3>2, <3>3, <3>4
  <2> QED
    BY <2>1, <2>2
<1> QED
  BY <1>2, <1>10, <1>11, <1>12 DEF InOrder, w

(* ... and list_remove takes it out from between them, ...                 *)
LEMMA RemoveOrder ==
  ASSUME NEW nx \in [Node -> Node \union {NULL}], NEW hm \in [Elem -> List \union {NULL}],
         NEW l \in List, NEW s, InOrder(nx, hm, l, s),
         NEW k \in 1 .. Len(s), NEW mx, NEW im,
         mx = [nx EXCEPT ![NodeAt(l, s, k - 1)] = NodeAt(l, s, k + 1)],
         im = [hm EXCEPT ![s[k]] = NULL]
  PROVE  InOrder(mx, im, l, Without(s, k))
<1> DEFINE w == Without(s, k)
<1>1. /\ Len(s) \in Nat
      /\ \A i \in 1 .. Len(s) : s[i] \in Elem /\ hm[s[i]] = l /\ NodeAt(l, s, i) = s[i]
      /\ NodeAt(l, s, 0) = head(l) /\ NodeAt(l, s, Len(s) + 1) = tail(l)
      /\ \A i \in 0 .. Len(s) + 1 : NodeAt(l, s, i) \in Node
      /\ \A i, j \in 0 .. Len(s) + 1 : NodeAt(l, s, i) = NodeAt(l, s, j) => i = j
  <2>1. Different(hm, l, s)
    BY NodesDiffer
  <2> QED
    BY <2>1 DEF Different
<1>2. s \in Seq(Elem) /\ w \in Seq(Elem) /\ Len(w) = Len(s) - 1
  <2>1. s \in Seq(Elem)
    BY DEF InOrder
  <2> HIDE DEF w
  <2>2. w = Without(s, k)
    BY DEF w
  <2>3. Without(s, k) \in Seq(Elem) /\ Len(Without(s, k)) = Len(s) - 1
    BY <2>1, WithoutElem
  <2> QED
    BY <2>1, <2>2, <2>3
<1>3. k \in Nat /\ k <= Len(s) /\ 1 <= k /\ Len(s) - 1 \in Nat
  BY <1>1
<1>5. ASSUME NEW j \in 1 .. Len(s) - 1 PROVE w[j] = IF j < k THEN s[j] ELSE s[j + 1]
  BY DEF Without
<1>6. ASSUME NEW i \in 0 .. Len(s)
      PROVE  NodeAt(l, w, i) = IF i < k THEN NodeAt(l, s, i) ELSE NodeAt(l, s, i + 1)
  <2>1. CASE i = 0
    BY <1>1, <1>3, <2>1 DEF NodeAt
  <2>2. CASE i \in 1 .. Len(s) - 1
    <3>1. NodeAt(l, w, i) = w[i]
      BY <1>1, <1>2, <2>2 DEF NodeAt
    <3>2. i \in 1 .. Len(s) /\ i + 1 \in 1 .. Len(s)
      BY <1>1, <2>2
    <3> HIDE DEF w
    <3> QED
      BY <1>1, <1>5, <2>2, <3>1, <3>2
  <2>3. CASE i = Len(s)
    <3>1. NodeAt(l, w, i) = tail(l)
      BY <1>1, <1>2, <1>3, <2>3 DEF NodeAt
    <3>2. ~ (i < k)
      BY <1>1, <1>3, <2>3
    <3> HIDE DEF w
    <3> QED
      BY <1>1, <2>3, <3>1, <3>2
  <2> QED
    BY <1>1, <2>1, <2>2, <2>3
<1> HIDE DEF w
<1>7. PICK p, q : p = NodeAt(l, s, k - 1) /\ q = NodeAt(l, s, k + 1)
  OBVIOUS
<1>8. p \in Node /\ q \in Node
  <2>1. k - 1 \in 0 .. Len(s) + 1 /\ k + 1 \in 0 .. Len(s) + 1
    BY <1>1, <1>3
  <2> QED
    BY <1>1, <1>7, <2>1
<1>9. \A n \in Node : mx[n] = IF n = p THEN q ELSE nx[n]
  <2>1. mx = [nx EXCEPT ![p] = q]
    BY <1>7
  <2> QED
    BY <1>8, <2>1
<1>10. ASSUME NEW i \in 0 .. Len(w) PROVE mx[NodeAt(l, w, i)] = NodeAt(l, w, i + 1)
  <2>1. i \in Nat /\ i \in 0 .. Len(s) /\ i + 1 \in 0 .. Len(s) /\ i <= Len(s) - 1
    BY <1>1, <1>2, <1>3
  <2>2. CASE i < k - 1
    <3>1. i < k /\ i + 1 < k
      BY <1>3, <2>1, <2>2
    <3>2. NodeAt(l, w, i) = NodeAt(l, s, i) /\ NodeAt(l, w, i + 1) = NodeAt(l, s, i + 1)
      BY <1>6, <2>1, <3>1
    <3>3. i \in 0 .. Len(s) + 1 /\ k - 1 \in 0 .. Len(s) + 1 /\ i # k - 1
      BY <1>1, <1>3, <2>1, <2>2
    <3>4. nx[NodeAt(l, s, i)] = NodeAt(l, s, i + 1)
      BY <2>1 DEF InOrder
    <3>5. NodeAt(l, s, i) # p /\ NodeAt(l, s, i) \in Node
      BY <1>1, <1>7, <3>3
    <3> QED
      BY <1>9, <3>2, <3>4, <3>5
  <2>3. CASE i = k - 1
    <3>1. i < k /\ ~ (i + 1 < k) /\ i + 1 + 1 = k + 1
      BY <1>3, <2>1, <2>3
    <3>2. NodeAt(l, w, i) = p /\ NodeAt(l, w, i + 1) = q
      BY <1>6, <1>7, <2>1, <2>3, <3>1
    <3> QED
      BY <1>8, <1>9, <3>2
  <2>4. CASE i >= k
    <3>1. PICK j : j = i + 1
      OBVIOUS
    <3>2. ~ (i < k) /\ ~ (j < k) /\ j \in 0 .. Len(s) /\ j \in 0 .. Len(s) + 1
          /\ k - 1 \in 0 .. Len(s) + 1 /\ j # k - 1
      BY <1>1, <1>3, <2>1, <2>4, <3>1
    <3>3. NodeAt(l, w, i) = NodeAt(l, s, j) /\ NodeAt(l, w, j) = NodeAt(l, s, j + 1)
      BY <1>6, <2>1, <3>1, <3>2
    <3>4. nx[NodeAt(l, s, j)] = NodeAt(l, s, j + 1)
      BY <3>2 DEF InOrder
    <3>5. NodeAt(l, s, j) # p /\ NodeAt(l, s, j) \in Node
      BY <1>1, <1>7, <3>2
    <3> QED
      BY <1>9, <3>1, <3>3, <3>4, <3>5
  <2> QED
    BY <1>3, <2>1, <2>2, <2>3, <2>4
<1>11. ASSUME NEW i \in 1 .. Len(w), NEW j \in 1 .. Len(w), w[i] = w[j] PROVE i = j
  <2>1. \A a, b \in 1 .. Len(s) : s[a] = s[b] => a = b
    BY DEF InOrder
  <2>2. ASSUME NEW a \in 1 .. Len(s) - 1 PROVE a \in 1 .. Len(s) /\ a + 1 \in 1 .. Len(s)
    BY <1>1
  <2>3. i \in 1 .. Len(s) - 1 /\ j \in 1 .. Len(s) - 1
    BY <1>2
  <2>4. PICK a, b : a = (IF i < k THEN i ELSE i + 1) /\ b = (IF j < k THEN j ELSE j + 1)
    OBVIOUS
  <2>5. a \in 1 .. Len(s) /\ b \in 1 .. Len(s) /\ w[i] = s[a] /\ w[j] = s[b]
    BY <1>5, <2>2, <2>3, <2>4
  <2>6. a = b
    BY <1>11, <2>1, <2>5
  <2> QED
    BY <1>3, <2>3, <2>4, <2>6
<1>12. ASSUME NEW x \in Elem
       PROVE  im[x] = l <=> \E i \in 1 .. Len(w) : w[i] = x
  <2>0. l # NULL /\ \A a, b \in 1 .. Len(s) : s[a] = s[b] => a = b
    BY Ends DEF InOrder
  <2>1. CASE x = s[k]
    <3>1. im[x] # l
      BY <2>0, <2>1
    <3>2. ASSUME NEW j \in 1 .. Len(w), w[j] = x PROVE FALSE
      <4>1. j \in 1 .. Len(s) - 1 /\ j \in 1 .. Len(s) /\ j + 1 \in 1 .. Len(s)
        BY <1>1, <1>2
      <4>2. CASE j < k
        <5>1. s[j] = s[k]
          BY <1>5, <2>1, <3>2, <4>1, <4>2
        <5> QED
          BY <1>3, <2>0, <4>1, <4>2, <5>1
      <4>3. CASE ~ (j < k)
        <5>1. s[j + 1] = s[k]
          BY <1>5, <2>1, <3>2, <4>1, <4>3
        <5>2. j + 1 = k
          BY <2>0, <4>1, <5>1
        <5> QED
          BY <1>3, <4>1, <4>3, <5>2
      <4> QED
        BY <4>2, <4>3
    <3> QED
      BY <3>1, <3>2
  <2>2. CASE x # s[k]
    <3>1. im[x] = hm[x]
      BY <2>2
    <3>2. hm[x] = l <=> \E i \in 1 .. Len(s) : s[i] = x
      BY DEF InOrder
    <3>3. ASSUME NEW i \in 1 .. Len(s), s[i] = x PROVE \E j \in 1 .. Len(w) : w[j] = x
      <4>1. CASE i < k
        <5>1. i \in 1 .. Len(s) - 1
          BY <1>1, <1>3, <4>1
        <5> QED
          BY <1>2, <1>5, <3>3, <4>1, <5>1
      <4>2. CASE ~ (i < k)
        <5>1. PICK j : j = i - 1
          OBVIOUS
        <5>2. i # k
          BY <2>2, <3>3
        <5>3. j \in 1 .. Len(s) - 1 /\ ~ (j < k) /\ j + 1 = i
          BY <1>1, <1>3, <4>2, <5>1, <5>2
        <5> QED
          BY <1>2, <1>5, <3>3, <5>3
      <4> QED
        BY <4>1, <4>2
    <3>4. ASSUME NEW j \in 1 .. Len(w), w[j] = x PROVE \E i \in 1 .. Len(s) : s[i] = x
      <4>1. j \in 1 .. Len(s) - 1 /\ j \in 1 .. Len(s) /\ j + 1 \in 1 .. Len(s)
        BY <1>1, <1>2
      <4> QED
        BY <1>5, <3>4, <4>1
    <3> QED
      BY <3>1, <3>2, <3>3, <3>4
  <2> QED
    BY <2>1, <2>2
<1> QED
  BY <1>2, <1>10, <1>11, <1>12 DEF InOrder, w

(* ... and neither touches another list.                                   *)
Untouched(nx, hm, mx, im, m) ==
  /\ \A n \in Node : (n = head(m) \/ (n \in Elem /\ hm[n] = m)) => mx[n] = nx[n]
  /\ \A e \in Elem : im[e] = m <=> hm[e] = m

LEMMA OtherOrder ==
  ASSUME NEW nx, NEW hm, NEW mx, NEW im, NEW m \in List, NEW u, InOrder(nx, hm, m, u),
         Untouched(nx, hm, mx, im, m)
  PROVE  InOrder(mx, im, m, u)
<1>1. /\ Len(u) \in Nat
      /\ \A i \in 1 .. Len(u) : u[i] \in Elem /\ hm[u[i]] = m /\ NodeAt(m, u, i) = u[i]
      /\ NodeAt(m, u, 0) = head(m)
      /\ \A i \in 0 .. Len(u) + 1 : NodeAt(m, u, i) \in Node
  <2>1. Different(hm, m, u)
    BY NodesDiffer
  <2> QED
    BY <2>1 DEF Different
<1>2. ASSUME NEW i \in 0 .. Len(u) PROVE mx[NodeAt(m, u, i)] = NodeAt(m, u, i + 1)
  <2>1. nx[NodeAt(m, u, i)] = NodeAt(m, u, i + 1)
    BY DEF InOrder
  <2>2. i \in 0 .. Len(u) + 1 /\ (i = 0 \/ i \in 1 .. Len(u))
    BY <1>1
  <2> QED
    BY <1>1, <2>1, <2>2 DEF Untouched
<1> QED
  BY <1>2 DEF InOrder, Untouched

-----------------------------------------------------------------------------
(* KList implements Lists.                                                 *)
lists == [l \in List |-> Elements(l)]
requests == [t \in Thread |-> Request(t)]

Ordered == \A l \in List : InOrder(next, home, l, Elements(l))

\* What a call has to do when it is entered.
CallForm(p, l, n, a) ==
  /\ p = "insert" => (\E e \in Elem : a = {e}) /\ n \in {tail(l), next[head(l)]}
  /\ p = "remove" => a = {} \/ (a = {"pop"} /\ n = next[head(l)])
  /\ p = "find" => \E e \in Elem : a = {e}
  /\ p = "count" => a = {}
  /\ p = "traverse" => a \subseteq Elem

\* How far a loop over a list has come.
LoopAt(l, s, n, a, k) ==
  \E i \in 1 .. Len(s) + 1 :
    n = NodeAt(l, s, i) /\ k = i - 1 /\ \A j \in 1 .. i - 1 : s[j] \notin a

CallFor(t) ==
  /\ pc[t] = "idle" => len[t] = 0
  /\ pc[t] # "idle" => CallForm(pc[t], plist[t], node[t], arg[t])
  /\ pc[t] \in {"find", "count", "traverse"} =>
       LoopAt(plist[t], Elements(plist[t]), node[t], arg[t], len[t])

OrderInv == KListInv /\ Ordered /\ \A t \in Thread : CallFor(t)

RequestOf(p, l, n, a) ==
  CASE p = "insert" -> <<IF n = tail(l) THEN "append" ELSE "push", l, a>>
    [] p = "remove" -> IF a = {} THEN <<"remove", l, {n}>> ELSE <<"pop", l, {}>>
    [] p \in {"find", "count", "traverse"} -> <<p, l, a>>
    [] OTHER -> NULL

LEMMA RequestIs ==
  ASSUME NEW t \in Thread
  PROVE  /\ Request(t) = RequestOf(pc[t], plist[t], node[t], arg[t])
         /\ Request(t)' = RequestOf(pc'[t], plist'[t], node'[t], arg'[t])
<1>1. Request(t) = RequestOf(pc[t], plist[t], node[t], arg[t])
  BY DEF Request, RequestOf
<1>2. Request(t)' = RequestOf(pc'[t], plist'[t], node'[t], arg'[t])
  BY DEF Request, RequestOf, tail
<1> QED
  BY <1>1, <1>2

LEMMA IdleRequest == \A l, n, a : RequestOf("idle", l, n, a) = NULL
BY DEF RequestOf

(* The steps of Lists.                                                     *)
LEMMA AbstractCall ==
  ASSUME NEW t \in Thread, NEW r, requests[t] = NULL, r \in Abstract!Requests,
         requests' = [requests EXCEPT ![t] = r], result' = Answer(NULL), lists' = lists,
         Abstract!Legal(r)
  PROVE  Abstract!Call(t)
<1>1. requests'[t] = r
  BY DEF requests
<1> QED
  BY <1>1 DEF Abstract!Call, requests, lists, Abstract!Answer, Answer

LEMMA AbstractReturn ==
  ASSUME NEW t \in Thread, requests[t] # NULL,
         requests' = [requests EXCEPT ![t] = NULL],
         lists' = [lists EXCEPT ![requests[t][2]] = Abstract!After(lists[requests[t][2]], requests[t])],
         result' = Abstract!Result(lists[requests[t][2]], requests[t])
  PROVE  Abstract!Return(t)
BY DEF Abstract!Return, requests, lists

(* Links and elements that do not change leave the lists as they are.      *)
LEMMA OrderedKept ==
  ASSUME Ordered, UNCHANGED <<next, home>>
  PROVE  Ordered' /\ lists' = lists
<1>1. \A l \in List : Elements(l)' = Elements(l)
  BY ElementsReach
<1> QED
  BY <1>1 DEF Ordered, InOrder, NodeAt, lists, head, tail

(* A call that is entered is a call of Lists.                              *)
LEMMA EnterMaps ==
  ASSUME OrderInv, NEW t \in Thread, NEW l \in List, NEW n, NEW a,
         NEW to \in {"insert", "remove", "find", "count", "traverse"},
         Enter(t, l, n, a, to), CallForm(to, l, n, a),
         to \in {"find", "count", "traverse"} => n = next[head(l)],
         RequestOf(to, l, n, a) \in Abstract!Requests, Abstract!Legal(RequestOf(to, l, n, a))
  PROVE  Abstract!Call(t) /\ Ordered' /\ \A u \in Thread : CallFor(u)'
<1>1. /\ pc' = [pc EXCEPT ![t] = to] /\ plist' = [plist EXCEPT ![t] = l]
      /\ node' = [node EXCEPT ![t] = n] /\ arg' = [arg EXCEPT ![t] = a]
      /\ result' = Answer(NULL) /\ len' = len /\ next' = next /\ home' = home
      /\ \A u \in Thread : pc[u] = "idle"
  BY DEF Enter, At, Goto, MayRun, links
<1>2. /\ pc'[t] = to /\ plist'[t] = l /\ node'[t] = n /\ arg'[t] = a
      /\ \A u \in Thread \ {t} : pc'[u] = "idle"
  BY <1>1 DEF OrderInv, KListInv, ThreadTypes
<1>3. Ordered' /\ lists' = lists
  BY <1>1, OrderedKept DEF OrderInv
<1>4. \A u \in Thread : len[u] = 0
  BY <1>1 DEF OrderInv, CallFor
<1>5. ASSUME NEW u \in Thread PROVE CallFor(u)'
  <2>1. CASE u # t
    BY <1>1, <1>2, <1>4, <2>1 DEF CallFor
  <2>2. CASE u = t
    <3>1. CallForm(to, l, n, a)'
      BY <1>1 DEF CallForm, head, tail
    <3>2. ASSUME to \in {"find", "count", "traverse"}
          PROVE  LoopAt(l, Elements(l), n, a, 0)
      <4>1. PICK s : s = Elements(l)
        OBVIOUS
      <4>2. InOrder(next, home, l, s)
        BY <4>1 DEF OrderInv, Ordered
      <4>3. Len(s) \in Nat /\ NodeAt(l, s, 0) = head(l)
        <5>1. Different(home, l, s)
          BY <4>2, NodesDiffer
        <5> QED
          BY <5>1 DEF Different
      <4>4. NodeAt(l, s, 1) = next[head(l)]
        <5>1. 0 \in 0 .. Len(s) /\ 0 + 1 = 1
          BY <4>3
        <5> QED
          BY <4>2, <4>3, <5>1 DEF InOrder
      <4>5. 1 \in 1 .. Len(s) + 1 /\ 0 = 1 - 1 /\ \A j \in 1 .. 1 - 1 : s[j] \notin a
        BY <4>3
      <4> QED
        BY <3>2, <4>1, <4>4, <4>5 DEF LoopAt
    <3>3. Elements(l)' = Elements(l)
      BY <1>3 DEF lists
    <3>4. pc'[t] = "idle" => len'[t] = 0
      BY <1>1, <1>4
    <3>5. pc'[t] \in {"find", "count", "traverse"} =>
            LoopAt(plist'[t], Elements(plist[t])', node'[t], arg'[t], len'[t])
      <4>1. Elements(plist[t])' = Elements(l)
        BY <1>2, <3>3
      <4> QED
        BY <1>1, <1>2, <1>4, <3>2, <4>1
    <3> QED
      BY <2>2, <3>1, <3>4, <3>5, <1>2 DEF CallFor, CallForm, LoopAt, NodeAt, head, tail
  <2> QED
    BY <2>1, <2>2
<1>6. requests[t] = NULL /\ requests' = [requests EXCEPT ![t] = RequestOf(to, l, n, a)]
  <2>1. \A u \in Thread : Request(u) = NULL
    BY <1>1, RequestIs, IdleRequest
  <2>2. \A u \in Thread : Request(u)' = IF u = t THEN RequestOf(to, l, n, a) ELSE NULL
    BY <1>2, RequestIs, IdleRequest
  <2> QED
    BY <2>1, <2>2 DEF requests
<1>7. Abstract!Call(t)
  BY <1>1, <1>3, <1>6, AbstractCall
<1> QED
  BY <1>3, <1>5, <1>7

(* The elements of a list are those whose home it is.                      *)
LEMMA InList ==
  ASSUME Ordered, NEW l \in List
  PROVE  /\ lists[l] = Elements(l) /\ Elements(l) \in Seq(Elem)
         /\ \A e \in Elem : e \in Abstract!ToSet(lists[l]) <=> home[e] = l
         /\ Abstract!ToSet(lists[l]) \subseteq Elem
<1>1. PICK s : s = Elements(l)
  OBVIOUS
<1>2. lists[l] = s
  BY <1>1 DEF lists
<1>3. InOrder(next, home, l, s)
  BY <1>1 DEF Ordered
<1>4. s \in Seq(Elem) /\ DOMAIN s = 1 .. Len(s) /\ \A i \in 1 .. Len(s) : s[i] \in Elem
  BY <1>3, LenProperties, ElementOfSeq DEF InOrder
<1>5. \A e \in Elem : home[e] = l <=> \E i \in 1 .. Len(s) : s[i] = e
  BY <1>3 DEF InOrder
<1>6. Abstract!ToSet(s) = {s[i] : i \in 1 .. Len(s)}
  BY <1>4 DEF Abstract!ToSet
<1> QED
  BY <1>1, <1>2, <1>4, <1>5, <1>6

(* The first node of a list is its first element, or the tail.             *)
LEMMA FirstNode ==
  ASSUME Ordered, NEW l \in List
  PROVE  /\ list_empty(l) <=> Elements(l) = <<>>
         /\ Elements(l) # <<>> => next[head(l)] = Elements(l)[1]
<1>1. PICK s : s = Elements(l)
  OBVIOUS
<1>2. InOrder(next, home, l, s)
  BY <1>1 DEF Ordered
<1>3. Different(home, l, s)
  BY <1>2, NodesDiffer
<1>4. s \in Seq(Elem) /\ Len(s) \in Nat /\ (s = <<>> <=> Len(s) = 0)
  BY <1>2, EmptySeq, LenProperties DEF InOrder
<1>5. next[head(l)] = NodeAt(l, s, 1)
  <2>1. 0 \in 0 .. Len(s) /\ 0 + 1 = 1
    BY <1>4
  <2> QED
    BY <1>2, <1>3, <2>1 DEF InOrder, Different
<1>6. CASE s = <<>>
  BY <1>1, <1>4, <1>5, <1>6 DEF NodeAt, list_empty
<1>7. CASE s # <<>>
  <2>1. 1 \in 1 .. Len(s)
    BY <1>4, <1>7
  <2>2. NodeAt(l, s, 1) = s[1] /\ s[1] \in Elem
    BY <1>3, <2>1 DEF Different
  <2> QED
    BY <1>1, <1>5, <1>7, <2>2, Ends DEF list_empty
<1> QED
  BY <1>6, <1>7

(* Every call that list.c's callers may make is one that Lists allows.     *)
CalledAs(t) ==
  /\ Abstract!Call(t) \/ \E l \in List : Abstract!TraverseEmpty(t, l)
  /\ Ordered' /\ \A u \in Thread : CallFor(u)'

LEMMA InsertCalls ==
  ASSUME OrderInv, NEW t \in Thread, NEW l \in List, NEW e \in Elem,
         list_push(t, l, e) \/ list_append(t, l, e)
  PROVE  CalledAs(t)
<1>1. PICK n : /\ n \in {tail(l), next[head(l)]}
               /\ home[e] = NULL /\ Enter(t, l, n, {e}, "insert")
  BY DEF list_push, list_append
<1>2. PICK r : r = RequestOf("insert", l, n, {e})
  OBVIOUS
<1>3. r[1] \in {"push", "append"} /\ r = <<r[1], l, {e}>>
  BY <1>2 DEF RequestOf
<1>4. r \in Abstract!Requests
  BY <1>3 DEF Abstract!Requests
<1>5. \A m \in List : {e} \intersect Abstract!ToSet(lists[m]) = {}
  BY <1>1, InList, Ends DEF OrderInv
<1>6. Abstract!Legal(r)
  BY <1>3, <1>5 DEF Abstract!Legal, lists
<1>7. CallForm("insert", l, n, {e})
  BY <1>1 DEF CallForm
<1> QED
  BY <1>1, <1>2, <1>4, <1>6, <1>7, EnterMaps DEF CalledAs

LEMMA RemoveCalls ==
  ASSUME OrderInv, NEW t \in Thread, NEW e \in Elem, list_remove(t, e)
  PROVE  CalledAs(t)
<1>1. PICK l \in List : home[e] = l /\ Enter(t, l, e, {}, "remove")
  BY DEF list_remove, OrderInv, KListInv, LinkTypes
<1>2. PICK r : r = RequestOf("remove", l, e, {})
  OBVIOUS
<1>3. r = <<"remove", l, {e}>>
  BY <1>2 DEF RequestOf
<1>4. r \in Abstract!Requests
  BY <1>3 DEF Abstract!Requests
<1>5. {e} \subseteq Abstract!ToSet(lists[l])
  BY <1>1, InList DEF OrderInv
<1>6. Abstract!Legal(r)
  BY <1>3, <1>5 DEF Abstract!Legal, lists
<1>7. CallForm("remove", l, e, {})
  BY DEF CallForm
<1> QED
  BY <1>1, <1>2, <1>4, <1>6, <1>7, EnterMaps DEF CalledAs

LEMMA PopCalls ==
  ASSUME OrderInv, NEW t \in Thread, NEW l \in List, list_pop(t, l)
  PROVE  CalledAs(t)
<1>1. PICK n : n = next[head(l)] /\ ~list_empty(l) /\ Enter(t, l, n, {"pop"}, "remove")
  BY DEF list_pop
<1>2. PICK r : r = RequestOf("remove", l, n, {"pop"})
  OBVIOUS
<1>3. r = <<"pop", l, {}>>
  BY <1>2 DEF RequestOf
<1>4. r \in Abstract!Requests
  BY <1>3 DEF Abstract!Requests
<1>5. lists[l] # <<>>
  BY <1>1, InList, FirstNode DEF OrderInv
<1>6. Abstract!Legal(r)
  BY <1>3, <1>5 DEF Abstract!Legal, lists
<1>7. CallForm("remove", l, n, {"pop"})
  BY <1>1 DEF CallForm
<1> QED
  BY <1>1, <1>2, <1>4, <1>6, <1>7, EnterMaps DEF CalledAs

LEMMA SearchCalls ==
  ASSUME OrderInv, NEW t \in Thread, NEW l \in List, NEW a \in SUBSET Elem,
         NEW to \in {"find", "count", "traverse"},
         Enter(t, l, next[head(l)], a, to),
         to = "find" => \E e \in Elem : a = {e}, to = "count" => a = {}
  PROVE  CalledAs(t)
<1>1. PICK n : n = next[head(l)]
  OBVIOUS
<1>2. PICK r : r = RequestOf(to, l, n, a)
  OBVIOUS
<1>3. r = <<to, l, a>>
  BY <1>2 DEF RequestOf
<1>4. r \in Abstract!Requests
  BY <1>3 DEF Abstract!Requests
<1>5. Abstract!Legal(r)
  BY <1>3 DEF Abstract!Legal
<1>6. CallForm(to, l, n, a)
  BY DEF CallForm
<1> QED
  BY <1>1, <1>2, <1>4, <1>5, <1>6, EnterMaps DEF CalledAs

\* list_traversal of an empty list returns at once.
LEMMA EmptyTraversal ==
  ASSUME OrderInv, NEW t \in Thread, NEW l \in List, list_empty(l),
         At(t, "idle"), Return(t, Answer(NULL)), UNCHANGED <<links, home>>
  PROVE  CalledAs(t)
<1>1. \A u \in Thread : pc[u] = "idle" /\ pc'[u] = "idle" /\ len'[u] = 0
  BY DEF At, MayRun, Return, Goto, OrderInv, KListInv, ThreadTypes, CallFor
<1>2. Ordered' /\ lists' = lists
  BY OrderedKept DEF OrderInv, links
<1>3. \A u \in Thread : CallFor(u)'
  BY <1>1 DEF CallFor
<1>4. \A u \in Thread : Request(u) = NULL /\ Request(u)' = NULL
  BY <1>1, RequestIs, IdleRequest
<1>5. requests' = requests /\ requests[t] = NULL
  BY <1>4 DEF requests
<1>6. lists[l] = <<>>
  BY InList, FirstNode DEF OrderInv
<1>7. result' = Answer(NULL)
  BY DEF Return
<1>8. Abstract!TraverseEmpty(t, l)
  BY <1>2, <1>5, <1>6, <1>7 DEF Abstract!TraverseEmpty, lists, requests, Abstract!Answer, Answer
<1> QED
  BY <1>2, <1>3, <1>8 DEF CalledAs

LEMMA CallMaps == ASSUME OrderInv, NEW t \in Thread, Call(t) PROVE CalledAs(t)
<1>1. ASSUME NEW l \in List, NEW e \in Elem, elem_find(t, l, e) PROVE CalledAs(t)
  <2>1. Enter(t, l, next[head(l)], {e}, "find") /\ {e} \in SUBSET Elem
    BY <1>1 DEF elem_find
  <2> QED
    BY <2>1, SearchCalls
<1>2. ASSUME NEW l \in List, list_len(t, l) PROVE CalledAs(t)
  BY <1>2, SearchCalls DEF list_len
<1>3. ASSUME NEW l \in List, NEW func \in SUBSET Elem, list_traversal(t, l, func)
      PROVE  CalledAs(t)
  <2>1. CASE list_empty(l)
    BY <1>3, <2>1, EmptyTraversal DEF list_traversal
  <2>2. CASE ~list_empty(l)
    BY <1>3, <2>2, SearchCalls DEF list_traversal
  <2> QED
    BY <2>1, <2>2
<1> QED
  BY <1>1, <1>2, <1>3, InsertCalls, RemoveCalls, PopCalls DEF Call

(* What ends a call ends it in Lists too.                                  *)
Returned(t) ==
  Abstract!Return(t) /\ Ordered' /\ \A u \in Thread : CallFor(u)'

LEMMA RequestMade ==
  ASSUME OrderInv, NEW t \in Thread, pc[t] # "idle"
  PROVE  /\ plist[t] \in List /\ \A u \in Thread \ {t} : pc[u] = "idle"
         /\ requests[t] = RequestOf(pc[t], plist[t], node[t], arg[t])
         /\ requests[t] # NULL /\ requests[t][2] = plist[t]
<1>1. PICK p, l, n, a : p = pc[t] /\ l = plist[t] /\ n = node[t] /\ a = arg[t]
  OBVIOUS
<1>2. /\ l \in List /\ \A u \in Thread \ {t} : pc[u] = "idle"
      /\ p \in {"insert", "remove", "find", "count", "traverse"}
      /\ p = "remove" => n \in Elem
  BY <1>1 DEF OrderInv, KListInv, ThreadTypes, CallOK, Members
<1>3. CallForm(p, l, n, a)
  BY <1>1 DEF OrderInv, CallFor
<1>4. requests[t] = RequestOf(p, l, n, a)
  BY <1>1, RequestIs DEF requests
<1>5. PICK r : r = RequestOf(p, l, n, a)
  OBVIOUS
<1>6. r[2] = l /\ r \in Operation \X List \X SUBSET Elem
  <2>1. CASE p = "insert"
    <3>1. a \subseteq Elem
      BY <1>3, <2>1 DEF CallForm
    <3> QED
      BY <1>2, <1>5, <2>1, <3>1 DEF RequestOf, Operation
  <2>2. CASE p = "remove"
    BY <1>2, <1>5, <2>2 DEF RequestOf, Operation
  <2>3. CASE p \in {"find", "count", "traverse"}
    <3>1. a \subseteq Elem
      BY <1>3, <2>3 DEF CallForm
    <3>2. r = <<p, l, a>>
      BY <1>5, <2>3 DEF RequestOf
    <3> QED
      BY <1>2, <2>3, <3>1, <3>2 DEF Operation
  <2> QED
    BY <1>2, <2>1, <2>2, <2>3
<1> QED
  BY <1>1, <1>2, <1>4, <1>5, <1>6, KListAssumption

LEMMA ReturnMaps ==
  ASSUME OrderInv, NEW t \in Thread, NEW r, NEW q, NEW l, pc[t] # "idle", Return(t, r), Ordered',
         q = requests[t], l = plist[t],
         lists' = [lists EXCEPT ![l] = Abstract!After(lists[l], q)],
         r = Abstract!Result(lists[l], q)
  PROVE  Returned(t)
<1>1. /\ \A u \in Thread \ {t} : pc[u] = "idle" /\ len[u] = 0
      /\ q # NULL /\ q[2] = l
  BY RequestMade DEF OrderInv, CallFor
<1>2. \A u \in Thread : pc'[u] = "idle" /\ len'[u] = 0
  BY <1>1 DEF Return, Goto, OrderInv, KListInv, ThreadTypes
<1>3. \A u \in Thread : CallFor(u)'
  BY <1>2 DEF CallFor
<1>4. requests' = [requests EXCEPT ![t] = NULL]
  <2>1. \A u \in Thread : Request(u)' = NULL /\ (u # t => Request(u) = NULL)
    BY <1>1, <1>2, RequestIs, IdleRequest
  <2> QED
    BY <2>1 DEF requests
<1>5. result' = r
  BY DEF Return
<1>6. Abstract!Return(t)
  BY <1>1, <1>4, <1>5, AbstractReturn
<1> QED
  BY <1>3, <1>6 DEF Returned

(* One list changes and the others stay.                                   *)
LEMMA Relist ==
  ASSUME Ordered, NEW l \in List, NEW w, InOrder(next', home', l, w),
         \A m \in List \ {l} : InOrder(next', home', m, Elements(m))
  PROVE  Ordered' /\ lists' = [lists EXCEPT ![l] = w]
<1>1. \A m \in List : Elements(m)' = IF m = l THEN w ELSE Elements(m)
  BY ElementsReach, Reads
<1>2. Ordered'
  <2>1. \A m \in List : InOrder(next', home', m, Elements(m)')
    BY <1>1
  <2> QED
    BY <2>1 DEF Ordered, InOrder, NodeAt, head, tail
<1>3. lists' = [lists EXCEPT ![l] = w]
  BY <1>1 DEF lists
<1> QED
  BY <1>2, <1>3

(* The node before a node of a list is the one that prev leads to.         *)
LEMMA NodeBefore ==
  ASSUME KListInv, NEW l \in List, NEW s, InOrder(next, home, l, s), NEW k \in 0 .. Len(s)
  PROVE  /\ prev[NodeAt(l, s, k + 1)] = NodeAt(l, s, k)
         /\ NodeAt(l, s, k) \in Members(l) \union {head(l)}
<1>1. Different(home, l, s)
  BY NodesDiffer
<1>2. Len(s) \in Nat /\ (k = 0 \/ k \in 1 .. Len(s))
  BY <1>1 DEF Different
<1>3. NodeAt(l, s, k) \in Members(l) \union {head(l)}
  BY <1>1, <1>2 DEF Different, Members
<1>4. next[NodeAt(l, s, k)] = NodeAt(l, s, k + 1)
  BY DEF InOrder
<1>5. prev[next[NodeAt(l, s, k)]] = NodeAt(l, s, k)
  BY <1>3 DEF KListInv, LinksSound
<1> QED
  BY <1>3, <1>4, <1>5

LEMMA Single == \A e : Abstract!Only({e}) = e
BY DEF Abstract!Only

(* list_insert_before, as what list_push and list_append promise.          *)
LEMMA InsertMaps ==
  ASSUME OrderInv, NEW t \in Thread, InsertBefore(t)
  PROVE  Returned(t)
<1>1. PICK l, before, s : l = plist[t] /\ before = node[t] /\ s = Elements(l)
  OBVIOUS
<1>2. /\ pc[t] = "insert" /\ l \in List /\ before \in Members(l) \union {tail(l)}
      /\ arg[t] \subseteq {e \in Elem : home[e] = NULL}
  BY <1>1 DEF InsertBefore, At, OrderInv, KListInv, CallOK
<1>3. PICK e \in Elem : arg[t] = {e} /\ home[e] = NULL /\ before \in {tail(l), next[head(l)]}
  BY <1>1, <1>2 DEF OrderInv, CallFor, CallForm
<1>4. InOrder(next, home, l, s) /\ s \in Seq(Elem) /\ lists[l] = s
  BY <1>1, <1>2, InList DEF OrderInv, Ordered
<1>5. Different(home, l, s) /\ Len(s) \in Nat
  <2>1. Different(home, l, s)
    BY <1>2, <1>4, NodesDiffer
  <2> QED
    BY <2>1 DEF Different
<1>6. PICK k \in 0 .. Len(s) : /\ before = NodeAt(l, s, k + 1)
                               /\ k = IF before = tail(l) THEN Len(s) ELSE 0
  <2>1. CASE before = tail(l)
    <3>1. Len(s) \in 0 .. Len(s)
      BY <1>5
    <3> QED
      BY <1>5, <2>1, <3>1 DEF Different
  <2>2. CASE before # tail(l)
    <3>1. before = next[head(l)] /\ 0 \in 0 .. Len(s) /\ 0 + 1 = 1
      BY <1>3, <1>5, <2>2
    <3>2. NodeAt(l, s, 1) = next[head(l)]
      BY <1>4, <1>5, <3>1 DEF InOrder, Different
    <3> QED
      BY <2>2, <3>1, <3>2
  <2> QED
    BY <2>1, <2>2
<1>7. PICK old : old = NodeAt(l, s, k) /\ old = prev[before] /\ old \in Members(l) \union {head(l)}
  BY <1>2, <1>4, <1>6, NodeBefore DEF OrderInv
<1>8. before # NULL /\ prev[before] # NULL
  BY <1>2, <1>7, Ends DEF Members
<1>9. InsertNode(before, e) /\ home' = [home EXCEPT ![e] = l] /\ Return(t, Answer(NULL))
  BY <1>1, <1>3, <1>8 DEF InsertBefore
<1>10. next' = [next EXCEPT ![old] = e, ![e] = before]
  BY <1>7, <1>9 DEF InsertNode, InsertLinks
<1>11. LinkTypes
  BY DEF OrderInv, KListInv
<1>12. InOrder(next', home', l, With(s, k, e))
  <2>1. next' = [next EXCEPT ![NodeAt(l, s, k)] = e, ![e] = NodeAt(l, s, k + 1)]
    BY <1>6, <1>7, <1>10
  <2> QED
    BY <1>2, <1>3, <1>4, <1>9, <1>11, <2>1, InsertOrder DEF LinkTypes
<1>13. ASSUME NEW m \in List \ {l} PROVE InOrder(next', home', m, Elements(m))
  <2>1. InOrder(next, home, m, Elements(m))
    BY DEF OrderInv, Ordered
  <2>2. ASSUME NEW n \in Node, n = head(m) \/ (n \in Elem /\ home[n] = m) PROVE next'[n] = next[n]
    <3>1. n # old /\ n # e
      BY <1>2, <1>3, <1>7, <2>2, Ends DEF Members
    <3> QED
      BY <1>10, <1>11, <3>1 DEF LinkTypes
  <2>3. \A x \in Elem : home'[x] = m <=> home[x] = m
    BY <1>3, <1>9, <1>11, Ends DEF LinkTypes
  <2>4. PICK u, mx, im : u = Elements(m) /\ mx = next' /\ im = home'
    OBVIOUS
  <2>5. m \in List /\ InOrder(next, home, m, u) /\ Untouched(next, home, mx, im, m)
    BY <2>1, <2>2, <2>3, <2>4 DEF Untouched
  <2>6. InOrder(mx, im, m, u)
    BY <2>5, OtherOrder
  <2> QED
    BY <2>4, <2>6
<1>14. Ordered' /\ lists' = [lists EXCEPT ![l] = With(s, k, e)]
  BY <1>2, <1>12, <1>13, Relist DEF OrderInv
<1>15. PICK q : q = requests[t]
  OBVIOUS
<1>16. q = <<IF before = tail(l) THEN "append" ELSE "push", l, {e}>>
  BY <1>1, <1>2, <1>3, <1>15, RequestMade DEF RequestOf
<1>17. Abstract!After(s, q) = With(s, k, e)
  <2>1. With(s, 0, e) = <<e>> \o s /\ With(s, Len(s), e) = s \o <<e>>
    <3>1. e \in Elem /\ s \in Seq(Elem) /\ k \in 0 .. Len(s)
      BY <1>3, <1>4, <1>6
    <3> QED
      BY <3>1, WithElem
  <2>2. CASE before = tail(l)
    <3>1. q[1] = "append" /\ q[3] = {e}
      BY <1>16, <2>2
    <3>2. Abstract!After(s, q) = s \o <<Abstract!Only(q[3])>>
      BY <3>1 DEF Abstract!After
    <3> QED
      BY <1>6, <2>1, <2>2, <3>1, <3>2, Single
  <2>3. CASE before # tail(l)
    <3>1. q[1] = "push" /\ q[3] = {e}
      BY <1>16, <2>3
    <3>2. Abstract!After(s, q) = <<Abstract!Only(q[3])>> \o s
      BY <3>1 DEF Abstract!After
    <3> QED
      BY <1>6, <2>1, <2>3, <3>1, <3>2, Single
  <2> QED
    BY <2>2, <2>3
<1>18. Abstract!Result(s, q) = Answer(NULL)
  <2>1. q[1] \in {"append", "push"}
    BY <1>16
  <2> QED
    BY <2>1 DEF Abstract!Result, Abstract!Answer, Answer
<1> QED
  BY <1>1, <1>2, <1>4, <1>9, <1>14, <1>15, <1>17, <1>18, ReturnMaps

(* list_remove, as what it and list_pop promise.                           *)
LEMMA RemoveMaps ==
  ASSUME OrderInv, NEW t \in Thread, RemoveNode(t)
  PROVE  Returned(t)
<1>1. PICK l, e, s, a : l = plist[t] /\ e = node[t] /\ s = Elements(l) /\ a = arg[t]
  OBVIOUS
<1>2. /\ pc[t] = "remove" /\ l \in List /\ e \in Elem /\ home[e] = l
      /\ a = {} \/ (a = {"pop"} /\ e = next[head(l)])
  BY <1>1 DEF RemoveNode, At, OrderInv, KListInv, CallOK, CallFor, CallForm, Members
<1>3. InOrder(next, home, l, s) /\ s \in Seq(Elem) /\ lists[l] = s
  BY <1>1, <1>2, InList DEF OrderInv, Ordered
<1>4. Different(home, l, s) /\ Len(s) \in Nat
  <2>1. Different(home, l, s)
    BY <1>2, <1>3, NodesDiffer
  <2> QED
    BY <2>1 DEF Different
<1>5. PICK k \in 1 .. Len(s) : s[k] = e
  BY <1>2, <1>3 DEF InOrder
<1>6. /\ k \in 0 .. Len(s) /\ k - 1 \in 0 .. Len(s) /\ k - 1 + 1 = k /\ NodeAt(l, s, k) = e
      /\ \A i, j \in 1 .. Len(s) : s[i] = s[j] => i = j
  BY <1>3, <1>4, <1>5 DEF Different, InOrder
<1>7. PICK p, q : p = NodeAt(l, s, k - 1) /\ q = NodeAt(l, s, k + 1)
  OBVIOUS
<1>8. p = prev[e] /\ p \in Members(l) \union {head(l)} /\ q = next[e]
  <2>1. next[NodeAt(l, s, k)] = NodeAt(l, s, k + 1)
    BY <1>3, <1>6 DEF InOrder
  <2> QED
    BY <1>2, <1>3, <1>6, <1>7, <2>1, NodeBefore DEF OrderInv
<1>9. prev[e] # NULL /\ next[e] # NULL
  <2>1. next[e] \in Members(l) \union {tail(l)}
    BY <1>2 DEF OrderInv, KListInv, LinksSound, Members
  <2> QED
    BY <1>2, <1>8, <2>1, Ends DEF Members
<1>10. /\ next' = [next EXCEPT ![p] = q] /\ home' = [home EXCEPT ![e] = NULL]
       /\ Return(t, Answer(IF a = {} THEN NULL ELSE e))
  BY <1>1, <1>2, <1>8, <1>9 DEF RemoveNode, UnlinkBoth, Unlink
<1>11. LinkTypes
  BY DEF OrderInv, KListInv
<1>12. InOrder(next', home', l, Without(s, k))
  BY <1>2, <1>3, <1>5, <1>7, <1>10, <1>11, RemoveOrder DEF LinkTypes
<1>13. ASSUME NEW m \in List \ {l} PROVE InOrder(next', home', m, Elements(m))
  <2>1. InOrder(next, home, m, Elements(m))
    BY DEF OrderInv, Ordered
  <2>2. ASSUME NEW n \in Node, n = head(m) \/ (n \in Elem /\ home[n] = m) PROVE next'[n] = next[n]
    <3>1. n # p
      BY <1>2, <1>8, <2>2, Ends DEF Members
    <3> QED
      BY <1>10, <1>11, <3>1 DEF LinkTypes
  <2>3. \A x \in Elem : home'[x] = m <=> home[x] = m
    BY <1>2, <1>10, <1>11, Ends DEF LinkTypes
  <2>4. PICK u, mx, im : u = Elements(m) /\ mx = next' /\ im = home'
    OBVIOUS
  <2>5. m \in List /\ InOrder(next, home, m, u) /\ Untouched(next, home, mx, im, m)
    BY <2>1, <2>2, <2>3, <2>4 DEF Untouched
  <2>6. InOrder(mx, im, m, u)
    BY <2>5, OtherOrder
  <2> QED
    BY <2>4, <2>6
<1>14. Ordered' /\ lists' = [lists EXCEPT ![l] = Without(s, k)]
  BY <1>2, <1>12, <1>13, Relist DEF OrderInv
<1>15. PICK r : r = requests[t]
  OBVIOUS
<1>16. r = IF a = {} THEN <<"remove", l, {e}>> ELSE <<"pop", l, {}>>
  BY <1>1, <1>2, <1>15, RequestMade DEF RequestOf
<1>17. /\ Abstract!After(s, r) = Without(s, k)
       /\ Abstract!Result(s, r) = Answer(IF a = {} THEN NULL ELSE e)
  <2>1. CASE a = {}
    <3>1. r[1] = "remove" /\ r[3] = {e}
      BY <1>16, <2>1
    <3>2. (CHOOSE i \in 1 .. Len(s) : s[i] \in r[3]) = k
      BY <1>5, <1>6, <3>1
    <3>3. Abstract!After(s, r) = RemoveAt(s, CHOOSE i \in 1 .. Len(s) : s[i] \in r[3])
      BY <3>1 DEF Abstract!After, Abstract!RemoveAt, RemoveAt
    <3>4. Abstract!Result(s, r) = Answer(NULL)
      BY <3>1 DEF Abstract!Result, Abstract!Answer, Answer
    <3> QED
      BY <1>3, <2>1, <3>2, <3>3, <3>4, WithoutIs
  <2>2. CASE a # {}
    <3>1. r[1] = "pop" /\ e = next[head(l)]
      BY <1>2, <1>16, <2>2
    <3>2. s # <<>>
      BY <1>3, <1>5, EmptySeq
    <3>3. e = s[1] /\ 1 \in 1 .. Len(s)
      <4>1. e = s[1]
        BY <1>1, <1>2, <3>1, <3>2, FirstNode DEF OrderInv
      <4> QED
        BY <1>4, <1>5, <4>1
    <3>4. k = 1
      BY <1>5, <1>6, <3>3
    <3>5. Abstract!After(s, r) = Tail(s)
      BY <3>1 DEF Abstract!After
    <3>6. Abstract!Result(s, r) = Answer(Head(s))
      BY <3>1 DEF Abstract!Result, Abstract!Answer, Answer
    <3>7. Head(s) = s[1]
      BY <1>3, <3>2, HeadTailProperties
    <3> QED
      BY <1>3, <1>5, <2>2, <3>3, <3>4, <3>5, <3>6, <3>7, WithoutIs
  <2> QED
    BY <2>1, <2>2
<1> QED
  BY <1>1, <1>2, <1>3, <1>10, <1>14, <1>15, <1>17, ReturnMaps

(* A round of a loop either goes on, which no caller sees, or returns at   *)
(* the tail or at the first element it looks for.                          *)
Unseen(t) ==
  /\ requests' = requests /\ lists' = lists /\ result' = result
  /\ Ordered' /\ \A u \in Thread : CallFor(u)'

LoopEnds(t, s, a, r, atTail, atHit) ==
  \/ r = atTail /\ len[t] = Len(s) /\ \A j \in 1 .. Len(s) : s[j] \notin a
  \/ /\ r = atHit
     /\ \E i \in 1 .. Len(s) : /\ node[t] = s[i] /\ s[i] \in a
                               /\ \A j \in 1 .. i - 1 : s[j] \notin a

LEMMA LoopMaps ==
  ASSUME OrderInv, NEW t \in Thread, pc[t] \in {"find", "count", "traverse"},
         NEW l, NEW s, NEW a, l = plist[t], s = Elements(l), a = arg[t],
         NEW atTail, NEW atHit, Loop(t, tail(l), atTail, atHit)
  PROVE  \/ Unseen(t)
         \/ \E r : /\ Return(t, r) /\ Ordered' /\ lists' = lists
                   /\ LoopEnds(t, s, a, r, atTail, atHit)
<1>1. /\ l \in List /\ \A u \in Thread \ {t} : pc[u] = "idle"
      /\ node[t] \in Members(l) \union {tail(l)}
  BY DEF OrderInv, KListInv, CallOK
<1>2. InOrder(next, home, l, s) /\ s \in Seq(Elem)
  BY <1>1, InList DEF OrderInv, Ordered
<1>3. /\ Different(home, l, s) /\ Len(s) \in Nat
      /\ NodeAt(l, s, Len(s) + 1) = tail(l)
      /\ \A i \in 1 .. Len(s) : NodeAt(l, s, i) = s[i] /\ s[i] \in Elem
      /\ \A i, j \in 0 .. Len(s) + 1 : NodeAt(l, s, i) = NodeAt(l, s, j) => i = j
  <2>1. Different(home, l, s)
    BY <1>1, <1>2, NodesDiffer
  <2> QED
    BY <2>1 DEF Different
<1>4. PICK i \in 1 .. Len(s) + 1 :
        node[t] = NodeAt(l, s, i) /\ len[t] = i - 1 /\ \A j \in 1 .. i - 1 : s[j] \notin a
  BY DEF OrderInv, CallFor, LoopAt
<1>5. node[t] # NULL
  BY <1>1, Ends DEF Members
<1>6. CASE node[t] = tail(l)
  <2>1. i = Len(s) + 1
    <3>1. PICK m : m = Len(s) + 1
      OBVIOUS
    <3>2. i \in 0 .. m /\ m \in 0 .. m
      BY <1>3, <3>1
    <3>3. NodeAt(l, s, i) = NodeAt(l, s, m)
      BY <1>3, <1>4, <1>6, <3>1
    <3>4. \A x, y \in 0 .. m : NodeAt(l, s, x) = NodeAt(l, s, y) => x = y
      BY <1>3, <3>1
    <3> QED
      BY <3>1, <3>2, <3>3, <3>4
  <2>2. len[t] = Len(s) /\ \A j \in 1 .. Len(s) : s[j] \notin a
    <3>1. i - 1 = Len(s)
      BY <1>3, <2>1
    <3> QED
      BY <1>4, <3>1
  <2>3. Return(t, atTail) /\ UNCHANGED <<links, home>>
    BY <1>5, <1>6 DEF Loop
  <2>4. Ordered' /\ lists' = lists
    BY <2>3, OrderedKept DEF OrderInv, links
  <2> QED
    BY <2>2, <2>3, <2>4 DEF LoopEnds
<1>7. CASE node[t] # tail(l)
  <2>1. i \in 1 .. Len(s)
    BY <1>3, <1>4, <1>7
  <2>2. node[t] = s[i]
    BY <1>3, <1>4, <2>1
  <2>3. CASE node[t] \in a
    <3>1. Return(t, atHit) /\ UNCHANGED <<links, home>>
      BY <1>5, <1>7, <2>3 DEF Loop
    <3>2. Ordered' /\ lists' = lists
      BY <3>1, OrderedKept DEF OrderInv, links
    <3>3. LoopEnds(t, s, a, atHit, atTail, atHit)
      BY <1>4, <2>1, <2>2, <2>3 DEF LoopEnds
    <3> QED
      BY <3>1, <3>2, <3>3
  <2>4. CASE node[t] \notin a
    <3>1. /\ node' = [node EXCEPT ![t] = next[@]] /\ len' = [len EXCEPT ![t] = @ + 1]
          /\ UNCHANGED <<links, pc, plist, arg, home, result>>
      BY <1>5, <1>7, <2>4 DEF Loop
    <3>2. Ordered' /\ lists' = lists
      BY <3>1, OrderedKept DEF OrderInv, links
    <3>3. /\ node'[t] = next[node[t]] /\ len'[t] = len[t] + 1
          /\ \A u \in Thread \ {t} : node'[u] = node[u] /\ len'[u] = len[u]
      BY <3>1 DEF OrderInv, KListInv, ThreadTypes
    <3>4. LoopAt(l, s, node'[t], a, len'[t])
      <4>1. PICK j : j = i + 1
        OBVIOUS
      <4>2. j \in 1 .. Len(s) + 1 /\ i \in 0 .. Len(s) /\ j - 1 = i /\ i - 1 + 1 = i
        BY <1>3, <2>1, <4>1
      <4>3. node'[t] = NodeAt(l, s, j)
        BY <1>2, <1>4, <3>3, <4>1, <4>2 DEF InOrder
      <4>4. len'[t] = j - 1
        BY <1>4, <3>3, <4>2
      <4>5. ASSUME NEW x \in 1 .. j - 1 PROVE s[x] \notin a
        <5>1. x \in 1 .. i - 1 \/ x = i
          BY <1>3, <2>1, <4>2
        <5> QED
          BY <1>4, <2>2, <2>4, <5>1
      <4> QED
        BY <4>2, <4>3, <4>4, <4>5 DEF LoopAt
    <3>5. ASSUME NEW u \in Thread PROVE CallFor(u)'
      <4>1. CASE u = t
        <5>1. /\ pc'[t] = pc[t] /\ plist'[t] = l /\ arg'[t] = a /\ pc[t] # "insert"
              /\ pc[t] # "remove" /\ pc[t] # "idle"
          BY <3>1
        <5>2. Elements(l)' = s
          BY <1>1, <3>2 DEF lists
        <5>3. CallForm(pc[t], l, node[t], a)
          BY DEF OrderInv, CallFor
        <5>4. /\ pc[t] = "find" => \E e \in Elem : a = {e}
              /\ pc[t] = "count" => a = {}
              /\ pc[t] = "traverse" => a \subseteq Elem
          BY <5>3 DEF CallForm
        <5> QED
          BY <3>4, <4>1, <5>1, <5>2, <5>4 DEF CallFor, CallForm, LoopAt, NodeAt, head, tail
      <4>2. CASE u # t
        BY <1>1, <3>1, <3>3, <4>2 DEF CallFor, OrderInv
      <4> QED
        BY <4>1, <4>2
    <3>6. requests' = requests
      <4>1. \A u \in Thread : Request(u)' = Request(u)
        <5>1. ASSUME NEW u \in Thread PROVE Request(u)' = Request(u)
          <6>1. pc[u] = "idle" \/ pc[u] \in {"find", "count", "traverse"}
            BY <1>1
          <6> QED
            BY <3>1, <6>1, RequestIs DEF RequestOf
        <5> QED
          BY <5>1
      <4> QED
        BY <4>1 DEF requests
    <3> QED
      BY <3>1, <3>2, <3>5, <3>6 DEF Unseen
  <2> QED
    BY <2>3, <2>4
<1> QED
  BY <1>6, <1>7

(* A search that changes no list returns what is true of it.               *)
LEMMA AnswerMaps ==
  ASSUME OrderInv, NEW t \in Thread, pc[t] \in {"find", "count", "traverse"},
         NEW l, NEW s, NEW a, l = plist[t], s = Elements(l), a = arg[t],
         NEW r, Return(t, r), Ordered', lists' = lists,
         r = Abstract!Result(s, <<pc[t], l, a>>)
  PROVE  Returned(t)
<1>1. PICK q : q = <<pc[t], l, a>>
  OBVIOUS
<1>2. requests[t] = q /\ l \in List
  BY <1>1, RequestMade DEF RequestOf
<1>3. lists[l] = s
  BY <1>2 DEF lists
<1>4. Abstract!After(s, q) = s
  <2>1. q[1] \in {"find", "count", "traverse"}
    BY <1>1
  <2> QED
    BY <2>1 DEF Abstract!After
<1>5. lists' = [lists EXCEPT ![l] = Abstract!After(lists[l], q)]
  <2>1. lists = [lists EXCEPT ![l] = s]
    BY <1>2, <1>3 DEF lists
  <2> QED
    BY <1>3, <1>4, <2>1
<1> QED
  BY <1>1, <1>2, <1>3, <1>5, ReturnMaps

LEMMA FindMaps ==
  ASSUME OrderInv, NEW t \in Thread, Find(t)
  PROVE  Unseen(t) \/ Returned(t)
<1>1. PICK l, s, a : l = plist[t] /\ s = Elements(l) /\ a = arg[t]
  OBVIOUS
<1>2. pc[t] = "find" /\ Loop(t, tail(l), <<"find", FALSE>>, <<"find", TRUE>>)
  BY <1>1 DEF Find, At
<1>3. l \in List /\ lists[l] = s /\ s \in Seq(Elem)
  BY <1>1, <1>2, RequestMade, InList DEF OrderInv
<1>4. PICK e : a = {e}
  BY <1>1, <1>2 DEF OrderInv, CallFor, CallForm
<1>5. \A b \in BOOLEAN : (b <=> \E i \in 1 .. Len(s) : s[i] \in a) =>
        Abstract!Result(s, <<"find", l, a>>) = <<"find", b>>
  <2>1. PICK S : S = Abstract!ToSet(s)
    OBVIOUS
  <2>2. e \in S <=> \E i \in 1 .. Len(s) : s[i] \in a
    <3>1. DOMAIN s = 1 .. Len(s)
      BY <1>3, LenProperties
    <3> QED
      BY <1>4, <2>1, <3>1 DEF Abstract!ToSet
  <2>3. PICK q : q = <<"find", l, a>>
    OBVIOUS
  <2>4. q[1] = "find" /\ q[3] = {e}
    BY <1>4, <2>3
  <2>5. Abstract!Result(s, q) = <<"find", {e} \subseteq S>>
    BY <2>1, <2>4 DEF Abstract!Result
  <2>6. \A b \in BOOLEAN : (b <=> e \in S) => b = ({e} \subseteq S)
    OBVIOUS
  <2> QED
    BY <2>2, <2>3, <2>5, <2>6
<1>6. CASE Unseen(t)
  BY <1>6
<1>7. CASE \E r : /\ Return(t, r) /\ Ordered' /\ lists' = lists
                  /\ LoopEnds(t, s, a, r, <<"find", FALSE>>, <<"find", TRUE>>)
  <2>1. PICK r : /\ Return(t, r) /\ Ordered' /\ lists' = lists
                 /\ LoopEnds(t, s, a, r, <<"find", FALSE>>, <<"find", TRUE>>)
    BY <1>7
  <2>2. \/ r = <<"find", FALSE>> /\ ~ \E i \in 1 .. Len(s) : s[i] \in a
        \/ r = <<"find", TRUE>> /\ \E i \in 1 .. Len(s) : s[i] \in a
    BY <2>1 DEF LoopEnds
  <2>3. r = Abstract!Result(s, <<"find", l, a>>)
    <3>1. CASE r = <<"find", FALSE>> /\ ~ \E i \in 1 .. Len(s) : s[i] \in a
      BY <1>5, <3>1
    <3>2. CASE r = <<"find", TRUE>> /\ \E i \in 1 .. Len(s) : s[i] \in a
      BY <1>5, <3>2
    <3> QED
      BY <2>2, <3>1, <3>2
  <2> QED
    BY <1>1, <1>2, <2>1, <2>3, AnswerMaps
<1> QED
  BY <1>1, <1>2, <1>6, <1>7, LoopMaps

LEMMA CountMaps ==
  ASSUME OrderInv, NEW t \in Thread, Count(t)
  PROVE  Unseen(t) \/ Returned(t)
<1>1. PICK l, s, a, n : l = plist[t] /\ s = Elements(l) /\ a = arg[t] /\ n = <<"len", len[t]>>
  OBVIOUS
<1>2. pc[t] = "count" /\ Loop(t, tail(l), n, n)
  BY <1>1 DEF Count, At
<1>3. a = {}
  BY <1>1, <1>2 DEF OrderInv, CallFor, CallForm
<1>4. CASE Unseen(t)
  BY <1>4
<1>5. CASE \E r : Return(t, r) /\ Ordered' /\ lists' = lists /\ LoopEnds(t, s, a, r, n, n)
  <2>1. PICK r : Return(t, r) /\ Ordered' /\ lists' = lists /\ LoopEnds(t, s, a, r, n, n)
    BY <1>5
  <2>2. r = <<"len", Len(s)>>
    BY <1>1, <1>3, <2>1 DEF LoopEnds
  <2>3. PICK q : q = <<"count", l, a>>
    OBVIOUS
  <2>4. Abstract!Result(s, q) = <<"len", Len(s)>>
    <3>1. q[1] = "count"
      BY <2>3
    <3> QED
      BY <3>1 DEF Abstract!Result
  <2> QED
    BY <1>1, <1>2, <2>1, <2>2, <2>3, <2>4, AnswerMaps
<1> QED
  BY <1>1, <1>2, <1>4, <1>5, LoopMaps

LEMMA TraverseMaps ==
  ASSUME OrderInv, NEW t \in Thread, Traverse(t)
  PROVE  Unseen(t) \/ Returned(t)
<1>1. PICK l, s, a, n : l = plist[t] /\ s = Elements(l) /\ a = arg[t] /\ n = node[t]
  OBVIOUS
<1>2. pc[t] = "traverse" /\ Loop(t, tail(l), Answer(NULL), Answer(n))
  BY <1>1 DEF Traverse, At
<1>3. l \in List /\ s \in Seq(Elem) /\ Len(s) \in Nat
  BY <1>1, <1>2, RequestMade, InList, LenProperties DEF OrderInv
<1>4. CASE Unseen(t)
  BY <1>4
<1>5. CASE \E r : /\ Return(t, r) /\ Ordered' /\ lists' = lists
                  /\ LoopEnds(t, s, a, r, Answer(NULL), Answer(n))
  <2>1. PICK r : /\ Return(t, r) /\ Ordered' /\ lists' = lists
                 /\ LoopEnds(t, s, a, r, Answer(NULL), Answer(n))
    BY <1>5
  <2>2. PICK hits : hits = {i \in 1 .. Len(s) : s[i] \in a}
    OBVIOUS
  <2>3. Abstract!FirstOf(s, a) = IF hits = {} THEN NULL ELSE s[Min(hits)]
    BY <2>2 DEF Abstract!FirstOf, Abstract!Min, Min
  <2>4. r = Answer(Abstract!FirstOf(s, a))
    <3>1. CASE r = Answer(NULL) /\ \A j \in 1 .. Len(s) : s[j] \notin a
      BY <2>2, <2>3, <3>1
    <3>2. CASE /\ r = Answer(n)
               /\ \E i \in 1 .. Len(s) : /\ n = s[i] /\ s[i] \in a
                                         /\ \A j \in 1 .. i - 1 : s[j] \notin a
      <4>1. PICK i \in 1 .. Len(s) : /\ n = s[i] /\ s[i] \in a
                                     /\ \A j \in 1 .. i - 1 : s[j] \notin a
        BY <3>2
      <4>2. i \in hits /\ hits # {} /\ hits \in SUBSET Nat
        BY <2>2, <4>1
      <4>3. PICK m : m = Min(hits)
        OBVIOUS
      <4>4. m \in hits /\ m <= i
        BY <4>2, <4>3, LeastElement
      <4>5. m \in 1 .. Len(s) /\ s[m] \in a
        BY <2>2, <4>4
      <4>6. m = i
        <5>1. m \notin 1 .. i - 1
          BY <4>1, <4>5
        <5> QED
          BY <1>3, <4>4, <4>5, <5>1
      <4> QED
        BY <2>3, <3>2, <4>1, <4>2, <4>3, <4>6
    <3> QED
      BY <1>1, <2>1, <3>1, <3>2 DEF LoopEnds
  <2>5. PICK q : q = <<"traverse", l, a>>
    OBVIOUS
  <2>6. Abstract!Result(s, q) = Answer(Abstract!FirstOf(s, a))
    <3>1. q[1] = "traverse" /\ q[3] = a
      BY <2>5
    <3> QED
      BY <3>1 DEF Abstract!Result, Abstract!Answer, Answer
  <2> QED
    BY <1>1, <1>2, <2>1, <2>4, <2>5, <2>6, AnswerMaps
<1> QED
  BY <1>1, <1>2, <1>4, <1>5, LoopMaps

-----------------------------------------------------------------------------
LEMMA OrderInit == Init => OrderInv /\ Abstract!Init
<1>1. SUFFICES ASSUME Init PROVE OrderInv /\ Abstract!Init
  OBVIOUS
<1>2. KListInv
  BY <1>1, InitInv
<1>3. ASSUME NEW l \in List PROVE Elements(l) = <<>> /\ InOrder(next, home, l, <<>>)
  <2>1. next[head(l)] = tail(l) /\ \A e \in Elem : home[e] # l
    <3>1. head(l) \in Heads /\ head(l) \in Node /\ head(l)[2] = l
      BY Ends DEF Heads, head
    <3> QED
      BY <1>1, <3>1, Ends DEF Init
  <2>2. PICK s : s = <<>> /\ s \in Seq(Elem) /\ Len(s) = 0
    <3>1. <<>> \in Seq(Elem) /\ Len(<<>>) = 0
      OBVIOUS
    <3> QED
      BY <3>1, Zenon
  <2>3. NodeAt(l, s, 0) = head(l) /\ NodeAt(l, s, 1) = tail(l)
    BY <2>2 DEF NodeAt
  <2>4. InOrder(next, home, l, s)
    BY <2>1, <2>2, <2>3 DEF InOrder
  <2> QED
    BY <2>2, <2>4, ElementsReach, Reads
<1>4. Ordered
  BY <1>3 DEF Ordered
<1>5. \A t \in Thread : CallFor(t)
  BY <1>1 DEF Init, CallFor
<1>6. \A t \in Thread : Request(t) = NULL
  BY <1>1, RequestIs, IdleRequest DEF Init
<1>7. Abstract!Init
  BY <1>1, <1>3, <1>6 DEF Init, Abstract!Init, Abstract!Answer, Answer
<1> QED
  BY <1>2, <1>4, <1>5, <1>7 DEF OrderInv

LEMMA OrderNext ==
  OrderInv /\ [Next]_vars => OrderInv' /\ [Abstract!Next]_(Abstract!vars)
<1>1. SUFFICES ASSUME OrderInv, [Next]_vars
               PROVE  OrderInv' /\ [Abstract!Next]_(Abstract!vars)
  OBVIOUS
<1>2. KListInv'
  BY <1>1, NextInv DEF OrderInv
<1>3. ASSUME NEW t \in Thread, Call(t) PROVE OrderInv' /\ Abstract!Next
  <2>1. CalledAs(t)
    BY <1>1, <1>3, CallMaps
  <2> QED
    BY <1>2, <2>1 DEF CalledAs, OrderInv, Abstract!Next
<1>4. ASSUME NEW t \in Thread, Step(t) PROVE OrderInv' /\ [Abstract!Next]_(Abstract!vars)
  <2>1. Unseen(t) \/ Returned(t)
    BY <1>1, <1>4, InsertMaps, RemoveMaps, FindMaps, CountMaps, TraverseMaps DEF Step
  <2>2. CASE Unseen(t)
    BY <1>2, <2>2 DEF Unseen, OrderInv, Abstract!vars, lists, requests
  <2>3. CASE Returned(t)
    BY <1>2, <2>3 DEF Returned, OrderInv, Abstract!Next
  <2> QED
    BY <2>1, <2>2, <2>3
<1>5. CASE UNCHANGED vars
  <2>1. /\ next' = next /\ home' = home /\ pc' = pc /\ plist' = plist /\ node' = node
        /\ arg' = arg /\ len' = len /\ result' = result
    BY <1>5 DEF vars, links, call
  <2>2. Ordered' /\ lists' = lists
    BY <1>1, <2>1, OrderedKept DEF OrderInv
  <2>3. \A t \in Thread : Request(t)' = Request(t)
    BY <2>1, RequestIs
  <2>4. ASSUME NEW t \in Thread PROVE CallFor(t)'
    <3>1. pc[t] \in {"find", "count", "traverse"} => Elements(plist[t])' = Elements(plist[t])
      <4>1. pc[t] \in {"find", "count", "traverse"} => plist[t] \in List
        BY <1>1, RequestMade
      <4>2. \A l \in List : Elements(l)' = Elements(l)
        BY <2>1, ElementsReach
      <4> QED
        BY <2>1, <4>1, <4>2 DEF Elements, head
    <3>2. CallFor(t)
      BY <1>1 DEF OrderInv
    <3> QED
      BY <2>1, <3>1, <3>2 DEF CallFor, CallForm, LoopAt, NodeAt, head, tail
  <2> QED
    BY <1>2, <2>1, <2>2, <2>3, <2>4 DEF OrderInv, Abstract!vars, lists, requests
<1> QED
  BY <1>1, <1>3, <1>4, <1>5 DEF Next

(* The lists of list.c behave as sequences, whatever lists, elements and   *)
(* threads there are: each call takes effect at once and returns what is   *)
(* true of the sequence then, though it reads and changes links one after  *)
(* the other (list.c:17-139).                                              *)
THEOREM ListsAreSequences == Spec => ImplementsLists
<1>1. Init => OrderInv /\ Abstract!Init
  BY OrderInit
<1>2. OrderInv /\ [Next]_vars => OrderInv' /\ [Abstract!Next]_(Abstract!vars)
  BY OrderNext
<1> QED
  BY <1>1, <1>2, PTL DEF Spec, ImplementsLists, Abstract!Spec

=============================================================================

---------------------------- MODULE PriorityQueue ----------------------------
(***************************************************************************)
(* A client of SmartlistHeap that adds, pops and removes items as the       *)
(* circuitmux and the scheduler do.  The keys of the items in the heap do   *)
(* not change (the circuitmux changes all of them by the same factor).      *)
(***************************************************************************)
EXTENDS SmartlistHeap

CONSTANTS
  Elements,   \* what the heap holds
  Keys        \* numbers they are ordered by

VARIABLES
  heap,       \* sl
  key         \* the key of each element, 0 when it is not in the heap

vars == <<heap, key>>

NewHeap == heap = <<>> /\ key = [x \in Elements |-> 0]

Add(x, k) ==
  /\ x \notin Items(heap)
  /\ key' = [key EXCEPT ![x] = k]
  /\ heap' = smartlist_pqueue_add(heap, key', x)

Pop ==
  /\ heap # <<>>
  /\ heap' = smartlist_pqueue_pop(heap, key)
  /\ key' = [key EXCEPT ![Head(heap)] = 0]

Remove(x) ==
  /\ x \in Items(heap)
  /\ heap' = smartlist_pqueue_remove(heap, key, x)
  /\ key' = [key EXCEPT ![x] = 0]

Next ==
  \/ Pop
  \/ \E x \in Elements : Remove(x) \/ \E k \in Keys : Add(x, k)

Spec == NewHeap /\ [][Next]_vars

\* "Assert that the heap property is correctly maintained": what
\* smartlist_pqueue_assert_ok asserts of the list holds after every call.
HeapIsOk == HeapOk(heap, key)
=============================================================================

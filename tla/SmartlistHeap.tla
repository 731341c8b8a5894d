---------------------------- MODULE SmartlistHeap ----------------------------
(***************************************************************************)
(* The binary heap of src/tor/src/lib/container/smartlist.c, which keeps    *)
(* the active circuits of a circuitmux, the pending channels of the         *)
(* scheduler and the cached answers of the resolver.                        *)
(*                                                                         *)
(* A heap is a sequence of distinct items; the code's index i is place      *)
(* i + 1 here.  The index an item stores for itself (heap_index) is its     *)
(* place, and -1 when it is not in the sequence.  key maps an item to the   *)
(* number its compare function looks at; least first.                       *)
(***************************************************************************)
EXTENDS Integers, Sequences

Items(h) == {h[i] : i \in 1..Len(h)}

heap_index(h, x) == CHOOSE i \in 1..Len(h) : h[i] = x

Parent(i) == i \div 2
LeftChild(i) == 2 * i

swap(h, i, j) == [h EXCEPT ![i] = h[j], ![j] = h[i]]

\* smartlist_pqueue_assert_ok: no item is before its parent.
HeapOk(h, key) == \A i \in 2..Len(h) : key[h[Parent(i)]] <= key[h[i]]

-----------------------------------------------------------------------------
\* The child smartlist_heapify exchanges idx with, or idx: an equal left child
\* is exchanged, an equal right child is not.
best_idx(h, key, idx) ==
  LET left   == LeftChild(idx)
      better == IF key[h[idx]] < key[h[left]] THEN idx ELSE left
  IN  CASE left > Len(h) -> idx
        [] left < Len(h) /\ key[h[left + 1]] < key[h[better]] -> left + 1
        [] OTHER -> better

\* One turn of the loop of smartlist_heapify: idx moves down, or stays.
down(s, key) ==
  LET best == best_idx(s.heap, key, s.idx)
  IN  [heap |-> swap(s.heap, s.idx, best), idx |-> best]

\* The loop ends when idx stays; there are no more turns than items.
smartlist_heapify(h, key, idx) ==
  LET after[n \in Nat] == IF n = 0 THEN [heap |-> h, idx |-> idx]
                          ELSE down(after[n - 1], key)
  IN  after[Len(h)].heap

\* One turn of the loop of smartlist_pqueue_add: exchange with a larger parent.
up(s, key) ==
  LET parent == Parent(s.idx)
  IN  IF s.idx > 1 /\ key[s.heap[s.idx]] < key[s.heap[parent]]
      THEN [heap |-> swap(s.heap, s.idx, parent), idx |-> parent]
      ELSE s

\* smartlist_pqueue_add: append, then move up.
smartlist_pqueue_add(h, key, x) ==
  LET grown == Append(h, x)
      after[n \in Nat] == IF n = 0 THEN [heap |-> grown, idx |-> Len(grown)]
                          ELSE up(after[n - 1], key)
  IN  after[Len(grown)].heap

\* The last item takes place i, the list is one shorter.
last_to(h, i) == SubSeq([h EXCEPT ![i] = h[Len(h)]], 1, Len(h) - 1)

\* smartlist_pqueue_remove: the item that comes to the place of x may only
\* move down from there.
smartlist_pqueue_remove(h, key, x) ==
  LET idx == heap_index(h, x)
  IN  IF idx = Len(h) THEN last_to(h, idx)
      ELSE smartlist_heapify(last_to(h, idx), key, idx)

\* smartlist_pqueue_pop returns Head(h) and leaves this.
smartlist_pqueue_pop(h, key) == smartlist_pqueue_remove(h, key, Head(h))
=============================================================================

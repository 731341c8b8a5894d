-------------------------- MODULE CircuitMuxProofs --------------------------
(***************************************************************************)
(* The heap of smartlist.c for any items and keys; then the circuits of a    *)
(* channel for any number of circuits and ids: who owns an id, the turns of  *)
(* the DESTROY cells, the counters and the heap of the mux, and which        *)
(* circuit is served.                                                        *)
(***************************************************************************)
EXTENDS CircuitMux, TLAPS, SequenceTheorems, WellFoundedInduction, FiniteSetTheorems

-----------------------------------------------------------------------------
(* Induction on numbers, and loops: the order < of Nat is well-founded, so  *)
(* a set of numbers that is closed under successors is everything.          *)

LEMMA NatSetInduction ==
  ASSUME NEW T, 0 \in T, \A n \in Nat : n \in T => n + 1 \in T
  PROVE  \A n \in Nat : n \in T
<1>. DEFINE U == Nat \ T
            Less == {ss \in Nat \X Nat : ss[1] < ss[2]}
<1>. SUFFICES ASSUME U # {} PROVE FALSE
  OBVIOUS
<1>1. IsWellFoundedOn(Less, Nat)
  BY NatLessThanWellFounded DEF OpToRel
<1>2. PICK x \in U : \A y \in U : ~ (<<y, x>> \in Less)
  <2>. HIDE DEF Less
  <2>. QED BY <1>1, WFMin
<1>3. x # 0 /\ x - 1 \in Nat
  OBVIOUS
<1>4. <<x - 1, x>> \in Less
  BY <1>3
<1>. QED BY <1>2, <1>3, <1>4

\* The states of a loop, before each of the first m turns and after them.
Turns(a, m, first, step) ==
  a[0] = first /\ \A n \in 0..(m - 1) : a[n + 1] = step[a[n]]

\* A loop that stays in T has states after every number of turns.
Runs(T, first, step) ==
  \E g \in [Nat -> T] : g[0] = first /\ \A n \in Nat : g[n + 1] = step[g[n]]

LEMMA LoopsRun ==
  ASSUME NEW T, NEW first \in T, NEW step \in [T -> T]
  PROVE  Runs(T, first, step)
<1>. DEFINE Run(m) == {a \in [0..m -> T] : Turns(a, m, first, step)}
<1>1. ASSUME NEW m \in Nat, NEW a \in Run(m), NEW k \in Nat, NEW b \in Run(k),
             NEW n \in Nat, n <= m, n <= k
      PROVE  a[n] = b[n]
  <2>. DEFINE same == {i \in Nat : i <= m /\ i <= k => a[i] = b[i]}
  <2>1. 0 \in same
    BY DEF Turns
  <2>2. ASSUME NEW i \in Nat, i \in same PROVE i + 1 \in same
    <3>. SUFFICES ASSUME i + 1 <= m, i + 1 <= k PROVE a[i + 1] = b[i + 1]
      OBVIOUS
    <3>1. a[i] = b[i]
      BY <2>2
    <3>. QED BY <3>1 DEF Turns
  <2>. HIDE DEF same, Run
  <2>3. n \in same
    BY <2>1, <2>2, NatSetInduction
  <2>. QED BY <1>1, <2>3 DEF same
<1>2. \A m \in Nat : Run(m) # {}
  <2>. DEFINE some == {m \in Nat : Run(m) # {}}
  <2>1. 0 \in some
    <3>1. [i \in 0..0 |-> first] \in Run(0)
      BY DEF Turns
    <3>. QED BY <3>1
  <2>2. ASSUME NEW m \in Nat, m \in some PROVE m + 1 \in some
    <3>1. PICK a : a \in Run(m)
      BY <2>2
    <3>. DEFINE b == [i \in 0..(m + 1) |-> IF i = m + 1 THEN step[a[m]] ELSE a[i]]
    <3>2. b \in [0..(m + 1) -> T]
      BY <3>1
    <3>3. Turns(b, m + 1, first, step)
      BY <3>1 DEF Turns
    <3>4. b \in Run(m + 1)
      BY <3>2, <3>3
    <3>. QED BY <3>4
  <2>. HIDE DEF some
  <2>3. \A m \in Nat : m \in some
    BY <2>1, <2>2, NatSetInduction
  <2>. QED BY <2>3 DEF some
<1>. DEFINE run == [m \in Nat |-> CHOOSE a : a \in Run(m)]
            g == [m \in Nat |-> run[m][m]]
<1>3. \A m \in Nat : run[m] \in Run(m)
  BY <1>2
<1>. HIDE DEF run
<1>4. g \in [Nat -> T]
  BY <1>3
<1>5. g[0] = first
  BY <1>3 DEF Turns
<1>6. ASSUME NEW n \in Nat PROVE g[n + 1] = step[g[n]]
  <2>1. run[n + 1][n] = run[n][n]
    BY <1>1, <1>3
  <2>2. run[n + 1][n + 1] = step[run[n + 1][n]]
    BY <1>3 DEF Turns
  <2>. QED BY <2>1, <2>2
<1>. QED BY <1>4, <1>5, <1>6 DEF Runs

-----------------------------------------------------------------------------
(* What a heap holds                                                        *)

Distinct(q) == \A a, b \in 1..Len(q) : q[a] = q[b] => a = b

\* The items of h in another order.
SameItems(q, h) ==
  /\ Len(q) = Len(h)
  /\ Items(q) = Items(h)
  /\ Distinct(h) => Distinct(q)

\* The states of the two loops.
Places(S, h) ==
  {s \in [heap : Seq(S), idx : Nat] : s.idx \in 1..Len(h) /\ SameItems(s.heap, h)}

LEMMA SwapPlaces ==
  ASSUME NEW S, NEW h \in Seq(S), NEW i \in 1..Len(h), NEW j \in 1..Len(h)
  PROVE  /\ swap(h, i, j) \in Seq(S)
         /\ Len(swap(h, i, j)) = Len(h)
         /\ \A k \in 1..Len(h) :
              swap(h, i, j)[k] = IF k = j THEN h[i] ELSE IF k = i THEN h[j] ELSE h[k]
<1>. DEFINE f == [h EXCEPT ![i] = h[j]]
            g == [f EXCEPT ![j] = h[i]]
<1>1. h[i] \in S /\ h[j] \in S
  BY ElementOfSeq
<1>2. f \in Seq(S) /\ Len(f) = Len(h)
  BY <1>1, ExceptSeq
<1>3. g \in Seq(S) /\ Len(g) = Len(h)
  <2>. HIDE DEF f
  <2>. QED BY <1>1, <1>2, ExceptSeq
<1>4. \A k \in 1..Len(h) : g[k] = IF k = j THEN h[i] ELSE IF k = i THEN h[j] ELSE h[k]
  BY <1>2
<1>5. swap(h, i, j) = g
  BY DEF swap
<1>. QED BY <1>3, <1>4, <1>5

LEMMA SwapKeepsItems ==
  ASSUME NEW S, NEW h \in Seq(S), NEW i \in 1..Len(h), NEW j \in 1..Len(h)
  PROVE  SameItems(swap(h, i, j), h)
<1>. DEFINE g == swap(h, i, j)
            other(k) == IF k = j THEN i ELSE IF k = i THEN j ELSE k
<1>1. Len(g) = Len(h) /\ Len(h) \in Nat /\ \A k \in 1..Len(h) : g[k] = h[other(k)]
  <2>1. /\ Len(g) = Len(h)
        /\ \A k \in 1..Len(h) : g[k] = IF k = j THEN h[i] ELSE IF k = i THEN h[j] ELSE h[k]
    BY SwapPlaces
  <2>. HIDE DEF g
  <2>. QED BY <2>1
<1>2. \A k \in 1..Len(h) : other(k) \in 1..Len(h) /\ other(other(k)) = k
  OBVIOUS
<1>. HIDE DEF g, other
<1>3. Items(g) = Items(h)
  <2>1. ASSUME NEW k \in 1..Len(h) PROVE g[k] \in Items(h) /\ h[k] \in Items(g)
    <3>1. g[other(k)] = h[k]
      BY <1>1, <1>2
    <3>. QED BY <1>1, <1>2, <3>1 DEF Items
  <2>. QED BY <1>1, <2>1 DEF Items
<1>4. ASSUME Distinct(h) PROVE Distinct(g)
  <2>. SUFFICES ASSUME NEW a \in 1..Len(h), NEW b \in 1..Len(h), g[a] = g[b]
                PROVE  a = b
    BY <1>1 DEF Distinct
  <2>1. other(a) = other(b)
    BY <1>1, <1>2, <1>4 DEF Distinct
  <2>. QED BY <1>2, <2>1
<1>. QED BY <1>1, <1>3, <1>4 DEF SameItems, g

LEMMA SameItemsTransitive ==
  ASSUME NEW q, NEW r, NEW h, SameItems(q, r), SameItems(r, h)
  PROVE  SameItems(q, h)
BY DEF SameItems

\* Parents and children.
LEMMA Parents ==
  ASSUME NEW k \in Nat, k >= 2
  PROVE  Parent(k) \in 1..(k - 1)
BY DEF Parent

LEMMA Children ==
  ASSUME NEW i \in Nat \ {0}, NEW k \in Nat
  PROVE  Parent(k) = i <=> k = 2 * i \/ k = 2 * i + 1
BY DEF Parent

\* best_idx is the place of the least of an item and its children.
LEMMA BestIdx ==
  ASSUME NEW S, NEW h \in Seq(S), NEW key \in [S -> Int], NEW i \in 1..Len(h)
  PROVE  LET b == best_idx(h, key, i)
         IN  /\ b \in 1..Len(h)
             /\ b = i \/ Parent(b) = i
             /\ key[h[b]] <= key[h[i]]
             /\ \A k \in 2..Len(h) : Parent(k) = i => key[h[b]] <= key[h[k]]
<1>. DEFINE left == 2 * i
            val(k) == key[h[k]]
            better == IF val(i) < val(left) THEN i ELSE left
            b == best_idx(h, key, i)
<1>1. Len(h) \in Nat /\ \A k \in 1..Len(h) : val(k) \in Int
  BY ElementOfSeq
<1>2. b = CASE left > Len(h) -> i
            [] left < Len(h) /\ val(left + 1) < val(better) -> left + 1
            [] OTHER -> better
  BY DEF best_idx, LeftChild
<1>3. \A k \in 2..Len(h) : Parent(k) = i <=> k = left \/ k = left + 1
  BY Children
<1>4. left \in Nat /\ left >= 2 /\ left # i
  OBVIOUS
<1>5. left <= Len(h) => /\ better \in 1..Len(h)
                        /\ better \in {i, left}
                        /\ val(better) <= val(i)
                        /\ val(better) <= val(left)
  BY <1>1
<1>. SUFFICES /\ b \in 1..Len(h)
              /\ b = i \/ (b \in 2..Len(h) /\ (b = left \/ b = left + 1))
              /\ val(b) <= val(i)
              /\ left <= Len(h) => val(b) <= val(left)
              /\ left + 1 <= Len(h) => val(b) <= val(left + 1)
  <2>. HIDE DEF left, better
  <2>. QED BY <1>1, <1>3
<1>. HIDE DEF b, val, better, left
<1>6. CASE left > Len(h)
  <2>1. b = i
    BY <1>1, <1>2, <1>4, <1>6
  <2>. QED BY <1>1, <1>4, <1>6, <2>1
<1>7. CASE left < Len(h) /\ val(left + 1) < val(better)
  <2>1. b = left + 1 /\ b \in 2..Len(h)
    BY <1>1, <1>2, <1>4, <1>7
  <2>2. /\ val(left + 1) \in Int /\ val(better) \in Int
        /\ val(i) \in Int /\ val(left) \in Int
    BY <1>1, <1>4, <1>5, <1>7
  <2>. QED BY <1>1, <1>4, <1>5, <1>7, <2>1, <2>2
<1>8. CASE left <= Len(h) /\ ~(left < Len(h) /\ val(left + 1) < val(better))
  <2>1. b = better
    BY <1>1, <1>2, <1>4, <1>8
  <2>2. /\ left + 1 <= Len(h) => val(left + 1) \in Int
        /\ val(better) \in Int
    BY <1>1, <1>4, <1>5, <1>8
  <2>. QED BY <1>1, <1>4, <1>5, <1>8, <2>1, <2>2
<1>. QED BY <1>1, <1>4, <1>6, <1>7, <1>8

\* Whatever the keys are, it is a place of the heap.
LEMMA BestIdxInside ==
  ASSUME NEW S, NEW h \in Seq(S), NEW key, NEW i \in 1..Len(h)
  PROVE  best_idx(h, key, i) \in 1..Len(h)
<1>. DEFINE left == 2 * i
            n == Len(h)
            lower == key[h[i]] < key[h[left]]
            better == IF lower THEN i ELSE left
            right == left < n /\ key[h[left + 1]] < key[h[better]]
            b == best_idx(h, key, i)
<1>1. n \in Nat /\ i \in 1..n /\ left \in Nat /\ left >= 1
  BY LenProperties
<1>2. b = CASE left > n -> i [] right -> left + 1 [] OTHER -> better
  BY DEF best_idx, LeftChild
<1>3. better \in {i, left}
  <2>. HIDE DEF lower
  <2>. QED OBVIOUS
<1>4. right => left < n
  OBVIOUS
<1>. HIDE DEF b, right, better, left, n
<1>5. CASE left > n
  BY <1>1, <1>2, <1>4, <1>5 DEF b, n
<1>6. CASE right
  BY <1>1, <1>2, <1>4, <1>6 DEF b, n
<1>7. CASE ~(left > n) /\ ~right
  <2>1. b = better
    BY <1>2, <1>7
  <2>. QED BY <1>1, <1>3, <1>7, <2>1 DEF b, n
<1>. QED BY <1>5, <1>6, <1>7

LEMMA DownStays ==
  ASSUME NEW S, NEW h \in Seq(S), NEW key, NEW s \in Places(S, h)
  PROVE  down(s, key) \in Places(S, h)
<1>. DEFINE b == best_idx(s.heap, key, s.idx)
            g == swap(s.heap, s.idx, b)
<1>1. s.heap \in Seq(S) /\ s.idx \in 1..Len(s.heap) /\ SameItems(s.heap, h)
      /\ Len(s.heap) = Len(h)
  BY DEF Places, SameItems
<1>2. b \in 1..Len(s.heap)
  BY <1>1, BestIdxInside
<1>. HIDE DEF b
<1>3. g \in Seq(S) /\ SameItems(g, s.heap)
  BY <1>1, <1>2, SwapPlaces, SwapKeepsItems
<1>4. down(s, key) = [heap |-> g, idx |-> b]
  BY DEF down, b
<1>. HIDE DEF g
<1>5. SameItems(g, h)
  BY <1>1, <1>3, SameItemsTransitive
<1>. QED BY <1>1, <1>2, <1>3, <1>4, <1>5 DEF Places

LEMMA UpStays ==
  ASSUME NEW S, NEW h \in Seq(S), NEW key, NEW s \in Places(S, h)
  PROVE  up(s, key) \in Places(S, h)
<1>. DEFINE p == Parent(s.idx)
            g == swap(s.heap, s.idx, p)
<1>1. s.heap \in Seq(S) /\ s.idx \in 1..Len(s.heap) /\ SameItems(s.heap, h)
      /\ Len(s.heap) = Len(h)
  BY DEF Places, SameItems
<1>2. CASE s.idx > 1 /\ key[s.heap[s.idx]] < key[s.heap[p]]
  <2>1. p \in 1..Len(s.heap)
    <3>1. s.idx \in Nat /\ s.idx >= 2
      BY <1>1, <1>2
    <3>2. Parent(s.idx) \in 1..(s.idx - 1)
      BY <3>1, Parents
    <3>. QED BY <1>1, <3>1, <3>2
  <2>. HIDE DEF p
  <2>2. g \in Seq(S) /\ SameItems(g, s.heap)
    BY <1>1, <2>1, SwapPlaces, SwapKeepsItems
  <2>3. up(s, key) = [heap |-> g, idx |-> p]
    BY <1>2 DEF up, p
  <2>. HIDE DEF g
  <2>4. SameItems(g, h)
    BY <1>1, <2>2, SameItemsTransitive
  <2>. QED BY <1>1, <2>1, <2>2, <2>3, <2>4 DEF Places
<1>3. CASE ~(s.idx > 1 /\ key[s.heap[s.idx]] < key[s.heap[p]])
  BY <1>3 DEF up
<1>. QED BY <1>2, <1>3

\* The loop of smartlist_heapify, turn by turn.
DownRun(S, h, key, i, a) ==
  /\ a \in [Nat -> Places(S, h)]
  /\ a[0] = [heap |-> h, idx |-> i]
  /\ \A n \in Nat : a[n + 1] = down(a[n], key)
  /\ smartlist_heapify(h, key, i) = a[Len(h)].heap

LEMMA DownLoop ==
  ASSUME NEW S, NEW h \in Seq(S), NEW key, NEW i \in 1..Len(h)
  PROVE  \E a : DownRun(S, h, key, i, a)
<1>. DEFINE T == Places(S, h)
            first == [heap |-> h, idx |-> i]
            step == [s \in T |-> down(s, key)]
            Loops(g) == g = [n \in Nat |-> IF n = 0 THEN first ELSE down(g[n - 1], key)]
            a == CHOOSE g : Loops(g)
<1>1. first \in T
  BY DEF Places, SameItems
<1>2. step \in [T -> T]
  BY DownStays
<1>3. \E g : Loops(g)
  <2>1. PICK g \in [Nat -> T] : g[0] = first /\ \A n \in Nat : g[n + 1] = step[g[n]]
    <3>. HIDE DEF T, first, step
    <3>1. Runs(T, first, step)
      BY <1>1, <1>2, LoopsRun
    <3>. QED BY <3>1 DEF Runs
  <2>2. ASSUME NEW n \in Nat
        PROVE  g[n] = IF n = 0 THEN first ELSE down(g[n - 1], key)
    <3>1. CASE n = 0
      BY <2>1, <3>1
    <3>2. CASE n # 0
      <4>1. n - 1 \in Nat /\ (n - 1) + 1 = n
        BY <3>2
      <4>2. g[n - 1] \in T /\ g[n] = step[g[n - 1]]
        BY <2>1, <4>1
      <4>. HIDE DEF T, first
      <4>. QED BY <3>2, <4>2
    <3>. QED BY <3>1, <3>2
  <2>. HIDE DEF step, first, T
  <2>3. Loops(g)
    BY <2>1, <2>2
  <2>. QED BY <2>3
<1>4. Loops(a)
  <2>. HIDE DEF Loops
  <2>. QED BY <1>3
<1>5. smartlist_heapify(h, key, i) = a[Len(h)].heap
  BY DEF smartlist_heapify
<1>. HIDE DEF a
<1>6. a[0] = first /\ \A n \in Nat : a[n + 1] = down(a[n], key)
  <2>1. a[0] = first
    BY <1>4
  <2>2. ASSUME NEW n \in Nat PROVE a[n + 1] = down(a[n], key)
    <3>1. n + 1 \in Nat /\ n + 1 # 0 /\ (n + 1) - 1 = n
      OBVIOUS
    <3>. QED BY <1>4, <3>1
  <2>. QED BY <2>1, <2>2
<1>7. a \in [Nat -> T]
  <2>. DEFINE inside == {n \in Nat : a[n] \in T}
  <2>1. 0 \in inside
    BY <1>1, <1>6
  <2>2. ASSUME NEW n \in Nat, n \in inside PROVE n + 1 \in inside
    <3>1. a[n] \in T /\ a[n + 1] = down(a[n], key) /\ n + 1 \in Nat
      BY <1>6, <2>2
    <3>2. a[n + 1] \in T
      BY <3>1, DownStays
    <3>. QED BY <3>1, <3>2
  <2>. HIDE DEF inside
  <2>3. \A n \in Nat : n \in inside
    BY <2>1, <2>2, NatSetInduction
  <2>. QED BY <1>4, <2>3 DEF inside
<1>. QED BY <1>5, <1>6, <1>7 DEF DownRun

\* The loop of smartlist_pqueue_add, turn by turn.
UpRun(S, h, key, x, a) ==
  /\ a \in [Nat -> Places(S, Append(h, x))]
  /\ a[0] = [heap |-> Append(h, x), idx |-> Len(Append(h, x))]
  /\ \A n \in Nat : a[n + 1] = up(a[n], key)
  /\ smartlist_pqueue_add(h, key, x) = a[Len(Append(h, x))].heap

LEMMA UpLoop ==
  ASSUME NEW S, NEW h \in Seq(S), NEW key, NEW x \in S
  PROVE  \E a : UpRun(S, h, key, x, a)
<1>. DEFINE grown == Append(h, x)
            T == Places(S, grown)
            first == [heap |-> grown, idx |-> Len(grown)]
            step == [s \in T |-> up(s, key)]
            Loops(g) == g = [n \in Nat |-> IF n = 0 THEN first ELSE up(g[n - 1], key)]
            a == CHOOSE g : Loops(g)
<1>0. grown \in Seq(S) /\ Len(grown) \in 1..Len(grown)
  BY AppendProperties, LenProperties
<1>1. first \in T
  <2>. HIDE DEF grown
  <2>. QED BY <1>0 DEF Places, SameItems
<1>2. step \in [T -> T]
  <2>. HIDE DEF grown
  <2>. QED BY <1>0, UpStays
<1>3. \E g : Loops(g)
  <2>1. PICK g \in [Nat -> T] : g[0] = first /\ \A n \in Nat : g[n + 1] = step[g[n]]
    <3>. HIDE DEF T, first, step
    <3>1. Runs(T, first, step)
      BY <1>1, <1>2, LoopsRun
    <3>. QED BY <3>1 DEF Runs
  <2>2. ASSUME NEW n \in Nat
        PROVE  g[n] = IF n = 0 THEN first ELSE up(g[n - 1], key)
    <3>1. CASE n = 0
      BY <2>1, <3>1
    <3>2. CASE n # 0
      <4>1. n - 1 \in Nat /\ (n - 1) + 1 = n
        BY <3>2
      <4>2. g[n - 1] \in T /\ g[n] = step[g[n - 1]]
        BY <2>1, <4>1
      <4>. HIDE DEF T, first
      <4>. QED BY <3>2, <4>2
    <3>. QED BY <3>1, <3>2
  <2>. HIDE DEF step, first, T
  <2>3. Loops(g)
    BY <2>1, <2>2
  <2>. QED BY <2>3
<1>4. Loops(a)
  <2>. HIDE DEF Loops
  <2>. QED BY <1>3
<1>5. smartlist_pqueue_add(h, key, x) = a[Len(Append(h, x))].heap
  BY DEF smartlist_pqueue_add
<1>. HIDE DEF a
<1>6. a[0] = first /\ \A n \in Nat : a[n + 1] = up(a[n], key)
  <2>1. a[0] = first
    BY <1>4
  <2>2. ASSUME NEW n \in Nat PROVE a[n + 1] = up(a[n], key)
    <3>1. n + 1 \in Nat /\ n + 1 # 0 /\ (n + 1) - 1 = n
      OBVIOUS
    <3>. QED BY <1>4, <3>1
  <2>. QED BY <2>1, <2>2
<1>7. a \in [Nat -> T]
  <2>. DEFINE inside == {n \in Nat : a[n] \in T}
  <2>1. 0 \in inside
    BY <1>1, <1>6
  <2>2. ASSUME NEW n \in Nat, n \in inside PROVE n + 1 \in inside
    <3>1. a[n] \in T /\ a[n + 1] = up(a[n], key) /\ n + 1 \in Nat
      BY <1>6, <2>2
    <3>2. a[n + 1] \in T
      <4>. HIDE DEF grown
      <4>. QED BY <1>0, <3>1, UpStays
    <3>. QED BY <3>1, <3>2
  <2>. HIDE DEF inside
  <2>3. \A n \in Nat : n \in inside
    BY <2>1, <2>2, NatSetInduction
  <2>. QED BY <1>4, <2>3 DEF inside
<1>. QED BY <1>5, <1>6, <1>7 DEF UpRun

\* smartlist_heapify moves items, and nothing else.
LEMMA HeapifyHolds ==
  ASSUME NEW S, NEW h \in Seq(S), NEW key, NEW i \in 1..Len(h)
  PROVE  /\ smartlist_heapify(h, key, i) \in Seq(S)
         /\ SameItems(smartlist_heapify(h, key, i), h)
<1>1. PICK a : DownRun(S, h, key, i, a)
  BY DownLoop
<1>2. /\ a[Len(h)] \in Places(S, h)
      /\ smartlist_heapify(h, key, i) = a[Len(h)].heap
  BY <1>1, LenProperties DEF DownRun
<1>. QED BY <1>2 DEF Places

LEMMA AppendHolds ==
  ASSUME NEW S, NEW h \in Seq(S), NEW x \in S
  PROVE  LET g == Append(h, x)
         IN  /\ g \in Seq(S)
             /\ Len(g) = Len(h) + 1
             /\ Items(g) = Items(h) \cup {x}
             /\ Distinct(h) /\ x \notin Items(h) => Distinct(g)
<1>. DEFINE n == Len(h)
            g == Append(h, x)
<1>1. g \in Seq(S) /\ n \in Nat /\ Len(g) = n + 1 /\ g[n + 1] = x
      /\ \A k \in 1..n : g[k] = h[k]
  BY AppendProperties, LenProperties
<1>. HIDE DEF g
<1>2. Items(g) = Items(h) \cup {x}
  <2>1. ASSUME NEW k \in 1..(n + 1) PROVE g[k] \in Items(h) \cup {x}
    <3>1. CASE k \in 1..n
      BY <1>1, <3>1 DEF Items
    <3>2. CASE k = n + 1
      BY <1>1, <3>2
    <3>. QED BY <1>1, <3>1, <3>2
  <2>2. ASSUME NEW k \in 1..n PROVE h[k] \in Items(g)
    <3>1. k \in 1..Len(g) /\ g[k] = h[k]
      BY <1>1
    <3>. QED BY <3>1 DEF Items
  <2>3. x \in Items(g)
    BY <1>1 DEF Items
  <2>. QED BY <1>1, <2>1, <2>2, <2>3 DEF Items
<1>3. ASSUME Distinct(h), x \notin Items(h) PROVE Distinct(g)
  <2>. SUFFICES ASSUME NEW a \in 1..(n + 1), NEW b \in 1..(n + 1), g[a] = g[b]
                PROVE  a = b
    BY <1>1 DEF Distinct
  <2>1. CASE a \in 1..n /\ b \in 1..n
    BY <1>1, <1>3, <2>1 DEF Distinct
  <2>2. \A k \in 1..n : h[k] # x
    BY <1>3 DEF Items
  <2>. QED BY <1>1, <2>1, <2>2
<1>. QED BY <1>1, <1>2, <1>3 DEF g

\* smartlist_pqueue_add: the heap holds one item more.
THEOREM AddHolds ==
  ASSUME NEW S, NEW h \in Seq(S), NEW key, NEW x \in S
  PROVE  LET g == smartlist_pqueue_add(h, key, x)
         IN  /\ g \in Seq(S)
             /\ Len(g) = Len(h) + 1
             /\ Items(g) = Items(h) \cup {x}
             /\ Distinct(h) /\ x \notin Items(h) => Distinct(g)
<1>. DEFINE grown == Append(h, x)
            g == smartlist_pqueue_add(h, key, x)
<1>1. /\ grown \in Seq(S) /\ Len(grown) = Len(h) + 1
      /\ Items(grown) = Items(h) \cup {x}
      /\ Distinct(h) /\ x \notin Items(h) => Distinct(grown)
  BY AppendHolds
<1>2. PICK a : UpRun(S, h, key, x, a)
  BY UpLoop
<1>3. a[Len(grown)] \in Places(S, grown) /\ g = a[Len(grown)].heap
  <2>1. Len(grown) \in Nat
    BY <1>1, LenProperties
  <2>. QED BY <1>2, <2>1 DEF UpRun
<1>. HIDE DEF grown, g
<1>4. g \in Seq(S) /\ SameItems(g, grown)
  BY <1>3 DEF Places
<1>. QED BY <1>1, <1>4 DEF SameItems, g

\* The last item takes the place of another one, or goes.
LEMMA LastToHolds ==
  ASSUME NEW S, NEW h \in Seq(S), Distinct(h), NEW i \in 1..Len(h)
  PROVE  LET g == last_to(h, i)
         IN  /\ g \in Seq(S)
             /\ Len(g) = Len(h) - 1
             /\ \A k \in 1..(Len(h) - 1) : g[k] = IF k = i THEN h[Len(h)] ELSE h[k]
             /\ Items(g) = Items(h) \ {h[i]}
             /\ Distinct(g)
<1>. DEFINE n == Len(h)
            f == [h EXCEPT ![i] = h[n]]
            g == last_to(h, i)
<1>1. n \in Nat /\ n \in 1..n /\ h[n] \in S
  BY LenProperties, ElementOfSeq
<1>2. f \in Seq(S) /\ Len(f) = n /\ \A k \in 1..n : f[k] = IF k = i THEN h[n] ELSE h[k]
  BY <1>1, ExceptSeq
<1>3. g = SubSeq(f, 1, n - 1)
  BY DEF last_to
<1>. HIDE DEF f, g
<1>4. g \in Seq(S) /\ Len(g) = n - 1 /\ \A k \in 1..(n - 1) : g[k] = f[k]
  BY <1>1, <1>2, <1>3, SubSeqProperties
<1>5. \A k \in 1..(n - 1) : g[k] = IF k = i THEN h[n] ELSE h[k]
  BY <1>1, <1>2, <1>4
<1>6. Distinct(g)
  <2>. SUFFICES ASSUME NEW a \in 1..(n - 1), NEW b \in 1..(n - 1), g[a] = g[b]
                PROVE  a = b
    BY <1>4 DEF Distinct
  <2>. QED BY <1>1, <1>5 DEF Distinct
<1>7. Items(g) = Items(h) \ {h[i]}
  <2>1. ASSUME NEW k \in 1..(n - 1) PROVE g[k] \in Items(h) /\ g[k] # h[i]
    BY <1>1, <1>5 DEF Items, Distinct
  <2>2. ASSUME NEW k \in 1..n, h[k] # h[i] PROVE h[k] \in Items(g)
    <3>1. CASE k \in 1..(n - 1)
      BY <1>4, <1>5, <2>2, <3>1 DEF Items
    <3>2. CASE k = n
      <4>1. i \in 1..(n - 1) /\ g[i] = h[k]
        BY <1>1, <1>5, <2>2, <3>2
      <4>. QED BY <1>4, <4>1 DEF Items
    <3>. QED BY <1>1, <3>1, <3>2
  <2>. QED BY <1>4, <2>1, <2>2 DEF Items
<1>. QED BY <1>4, <1>5, <1>6, <1>7 DEF g

\* heap_index finds an item.
LEMMA IndexFinds ==
  ASSUME NEW h, NEW x \in Items(h)
  PROVE  heap_index(h, x) \in 1..Len(h) /\ h[heap_index(h, x)] = x
BY DEF heap_index, Items

\* smartlist_pqueue_remove: the heap holds this item no more.
THEOREM RemoveHolds ==
  ASSUME NEW S, NEW h \in Seq(S), Distinct(h), NEW key,
         NEW x \in Items(h)
  PROVE  LET g == smartlist_pqueue_remove(h, key, x)
         IN  /\ g \in Seq(S)
             /\ Len(g) = Len(h) - 1
             /\ Items(g) = Items(h) \ {x}
             /\ Distinct(g)
<1>. DEFINE i == heap_index(h, x)
            r == last_to(h, i)
            g == smartlist_pqueue_remove(h, key, x)
<1>1. i \in 1..Len(h) /\ h[i] = x
  BY IndexFinds
<1>. HIDE DEF i
<1>2. r \in Seq(S) /\ Len(r) = Len(h) - 1 /\ Items(r) = Items(h) \ {x} /\ Distinct(r)
  <2>1. /\ r \in Seq(S) /\ Len(r) = Len(h) - 1
        /\ Items(r) = Items(h) \ {h[i]} /\ Distinct(r)
    BY <1>1, LastToHolds
  <2>. HIDE DEF r
  <2>. QED BY <1>1, <2>1
<1>3. g = IF i = Len(h) THEN r ELSE smartlist_heapify(r, key, i)
  BY DEF smartlist_pqueue_remove, i
<1>. HIDE DEF g, r
<1>4. CASE i = Len(h)
  BY <1>2, <1>3, <1>4 DEF g
<1>5. CASE i # Len(h)
  <2>1. i \in 1..Len(r)
    BY <1>1, <1>2, <1>5, LenProperties
  <2>2. g \in Seq(S) /\ SameItems(g, r)
    BY <1>2, <1>3, <1>5, <2>1, HeapifyHolds
  <2>. QED BY <1>2, <2>2 DEF SameItems, g
<1>. QED BY <1>4, <1>5

\* smartlist_pqueue_pop: the heap holds its first item no more.
THEOREM PopHolds ==
  ASSUME NEW S, NEW h \in Seq(S), h # <<>>, Distinct(h), NEW key
  PROVE  LET g == smartlist_pqueue_pop(h, key)
         IN  /\ g \in Seq(S)
             /\ Len(g) = Len(h) - 1
             /\ Items(g) = Items(h) \ {Head(h)}
             /\ Distinct(g)
<1>1. Head(h) \in Items(h)
  <2>1. 1 \in 1..Len(h) /\ Head(h) = h[1]
    OBVIOUS
  <2>. QED BY <2>1 DEF Items
<1>2. smartlist_pqueue_pop(h, key) = smartlist_pqueue_remove(h, key, Head(h))
  BY DEF smartlist_pqueue_pop
<1>. QED BY <1>1, <1>2, RemoveHolds

-----------------------------------------------------------------------------
(* When it is still a heap                                                  *)

\* A heap but for the item at place i, which may belong further down.
HeapAbove(q, key, i) ==
  \A k \in 2..Len(q) :
    /\ Parent(k) # i => key[q[Parent(k)]] <= key[q[k]]
    /\ Parent(k) = i /\ i > 1 => key[q[Parent(i)]] <= key[q[k]]

\* A heap but for the item at place i, which may belong further up.
HeapBelow(q, key, i) ==
  \A k \in 2..Len(q) :
    /\ k # i => key[q[Parent(k)]] <= key[q[k]]
    /\ Parent(k) = i /\ i > 1 => key[q[Parent(i)]] <= key[q[k]]

\* The loops stop here.
LowEnough(s, key) == best_idx(s.heap, key, s.idx) = s.idx

HighEnough(s, key) ==
  ~(s.idx > 1 /\ key[s.heap[s.idx]] < key[s.heap[Parent(s.idx)]])

\* The keys of the items after an exchange.
KeysSwapped(g, h, key, i, j) ==
  \A k \in 1..Len(h) :
    /\ key[h[k]] \in Int
    /\ key[g[k]] = IF k = j THEN key[h[i]] ELSE IF k = i THEN key[h[j]] ELSE key[h[k]]

LEMMA SwapKeys ==
  ASSUME NEW S, NEW h \in Seq(S), NEW key \in [S -> Int],
         NEW i \in 1..Len(h), NEW j \in 1..Len(h)
  PROVE  KeysSwapped(swap(h, i, j), h, key, i, j)
<1>. DEFINE g == swap(h, i, j)
<1>1. \A k \in 1..Len(h) :
        g[k] = IF k = j THEN h[i] ELSE IF k = i THEN h[j] ELSE h[k]
  <2>1. /\ swap(h, i, j) \in Seq(S) /\ Len(swap(h, i, j)) = Len(h)
        /\ \A k \in 1..Len(h) :
             swap(h, i, j)[k] = IF k = j THEN h[i] ELSE IF k = i THEN h[j] ELSE h[k]
    BY SwapPlaces
  <2>. QED BY <2>1
<1>2. \A k \in 1..Len(h) : h[k] \in S
  BY ElementOfSeq
<1>. HIDE DEF g
<1>3. ASSUME NEW k \in 1..Len(h)
      PROVE  /\ key[h[k]] \in Int
             /\ key[g[k]] = IF k = j THEN key[h[i]]
                            ELSE IF k = i THEN key[h[j]] ELSE key[h[k]]
  BY <1>1, <1>2
<1>. QED BY <1>3 DEF g, KeysSwapped

\* A turn down: the item is in its place, or the same holds one level below.
LEMMA TurnDown ==
  ASSUME NEW S, NEW h \in Seq(S), NEW key \in [S -> Int], NEW i \in 1..Len(h),
         HeapAbove(h, key, i)
  PROVE  LET b == best_idx(h, key, i)
         IN  /\ b = i => HeapOk(h, key)
             /\ b # i => b > i /\ HeapAbove(swap(h, i, b), key, b)
<1>. DEFINE b == best_idx(h, key, i)
            g == swap(h, i, b)
            v(k) == key[h[k]]
            w(k) == key[g[k]]
<1>1. /\ Len(h) \in Nat /\ b \in 1..Len(h)
      /\ b = i \/ Parent(b) = i
      /\ v(b) <= v(i)
      /\ \A k \in 2..Len(h) : Parent(k) = i => v(b) <= v(k)
  <2>1. /\ b \in 1..Len(h)
        /\ b = i \/ Parent(b) = i
        /\ key[h[b]] <= key[h[i]]
        /\ \A k \in 2..Len(h) : Parent(k) = i => key[h[b]] <= key[h[k]]
    BY BestIdx
  <2>2. Len(h) \in Nat
    BY LenProperties
  <2>. HIDE DEF b
  <2>. QED BY <2>1, <2>2
<1>. HIDE DEF b
<1>2. /\ Len(g) = Len(h)
      /\ \A k \in 1..Len(h) :
           v(k) \in Int /\ w(k) = IF k = b THEN v(i) ELSE IF k = i THEN v(b) ELSE v(k)
  <2>1. Len(g) = Len(h)
    BY <1>1, SwapPlaces
  <2>2. KeysSwapped(g, h, key, i, b)
    BY <1>1, SwapKeys
  <2>. HIDE DEF g
  <2>. QED BY <2>1, <2>2 DEF KeysSwapped
<1>3. \A k \in 2..Len(h) : Parent(k) \in 1..(k - 1) /\ Parent(k) \in 1..Len(h)
  BY <1>1, Parents
<1>4. \A k \in 2..Len(h) : /\ Parent(k) # i => v(Parent(k)) <= v(k)
                           /\ Parent(k) = i /\ i > 1 => v(Parent(i)) <= v(k)
  BY DEF HeapAbove
<1>. HIDE DEF g
<1>5. CASE b = i
  <2>1. \A k \in 2..Len(h) : v(Parent(k)) <= v(k)
    BY <1>1, <1>4, <1>5
  <2>. QED BY <1>5, <2>1 DEF HeapOk, b
<1>6. CASE b # i
  <2>1. b > i /\ b \in 2..Len(h) /\ Parent(b) = i
    <3>1. (Parent(b) = i /\ b >= 2) \/ b = 1
      BY <1>1, <1>6
    <3>2. b # 1
      BY <1>1, <1>6 DEF Parent
    <3>3. b \in 2..Len(h)
      BY <1>1, <3>2
    <3>. QED BY <1>1, <1>3, <1>6, <3>3
  <2>2. ASSUME NEW k \in 2..Len(h)
        PROVE  /\ Parent(k) # b => w(Parent(k)) <= w(k)
               /\ Parent(k) = b /\ b > 1 => w(Parent(b)) <= w(k)
    <3>1. /\ Parent(k) \in 1..Len(h) /\ k \in 1..Len(h) /\ Parent(k) < k
          /\ v(k) \in Int /\ v(Parent(k)) \in Int /\ v(i) \in Int /\ v(b) \in Int
      BY <1>1, <1>2, <1>3
    <3>2. /\ w(k) = IF k = b THEN v(i) ELSE IF k = i THEN v(b) ELSE v(k)
          /\ w(Parent(k)) = IF Parent(k) = b THEN v(i)
                            ELSE IF Parent(k) = i THEN v(b) ELSE v(Parent(k))
          /\ w(i) = v(b) /\ w(b) = v(i)
      <4>. HIDE DEF v, w
      <4>. QED BY <1>2, <1>6, <2>1, <3>1
    <3>. HIDE DEF v, w
    <3>3. ASSUME Parent(k) # b PROVE w(Parent(k)) <= w(k)
      <4>1. CASE Parent(k) = i
        BY <1>1, <1>6, <2>1, <3>1, <3>2, <3>3, <4>1
      <4>2. CASE Parent(k) # i /\ k = i
        <5>1. i > 1 /\ v(Parent(i)) <= v(b)
          BY <1>4, <2>1, <4>2
        <5>. QED BY <1>6, <3>1, <3>2, <3>3, <4>2, <5>1
      <4>3. CASE Parent(k) # i /\ k # i
        <5>1. k # b
          BY <2>1, <4>3
        <5>. QED BY <1>4, <3>1, <3>2, <3>3, <4>3, <5>1
      <4>. QED BY <4>1, <4>2, <4>3
    <3>4. ASSUME Parent(k) = b PROVE w(Parent(b)) <= w(k)
      <4>1. k # b /\ k # i /\ v(b) <= v(k)
        BY <1>4, <1>6, <2>1, <3>1, <3>4
      <4>. QED BY <2>1, <3>2, <4>1
    <3>. QED BY <3>3, <3>4
  <2>3. HeapAbove(g, key, b)
    BY <1>2, <2>2 DEF HeapAbove
  <2>. QED BY <1>6, <2>1, <2>3 DEF b, g
<1>. QED BY <1>5, <1>6

\* A turn up: the item is in its place, or the same holds one level above.
LEMMA TurnUp ==
  ASSUME NEW S, NEW h \in Seq(S), NEW key \in [S -> Int], NEW i \in 1..Len(h),
         HeapBelow(h, key, i)
  PROVE  LET p == Parent(i)
         IN  IF i > 1 /\ key[h[i]] < key[h[p]]
             THEN p \in 1..(i - 1) /\ HeapBelow(swap(h, i, p), key, p)
             ELSE HeapOk(h, key)
<1>. DEFINE p == Parent(i)
            g == swap(h, i, p)
            v(k) == key[h[k]]
            w(k) == key[g[k]]
<1>0. Len(h) \in Nat /\ \A k \in 1..Len(h) : v(k) \in Int
  BY ElementOfSeq, LenProperties
<1>3. \A k \in 2..Len(h) : Parent(k) \in 1..(k - 1) /\ Parent(k) \in 1..Len(h)
  BY <1>0, Parents
<1>4. \A k \in 2..Len(h) : /\ k # i => v(Parent(k)) <= v(k)
                           /\ Parent(k) = i /\ i > 1 => v(Parent(i)) <= v(k)
  BY DEF HeapBelow
<1>5. CASE ~(i > 1 /\ v(i) < v(p))
  <2>1. ASSUME NEW k \in 2..Len(h) PROVE v(Parent(k)) <= v(k)
    <3>1. CASE k # i
      BY <1>4, <3>1
    <3>2. CASE k = i
      BY <1>0, <1>3, <1>5, <3>2
    <3>. QED BY <3>1, <3>2
  <2>. QED BY <1>5, <2>1 DEF HeapOk
<1>6. CASE i > 1 /\ v(i) < v(p)
  <2>1. p \in 1..(i - 1) /\ p \in 1..Len(h) /\ i \in 2..Len(h)
    BY <1>0, <1>3, <1>6
  <2>2. /\ Len(g) = Len(h)
        /\ \A k \in 1..Len(h) :
             v(k) \in Int /\ w(k) = IF k = p THEN v(i) ELSE IF k = i THEN v(p) ELSE v(k)
    <3>. HIDE DEF p
    <3>1. Len(g) = Len(h)
      BY <2>1, SwapPlaces
    <3>2. KeysSwapped(g, h, key, i, p)
      BY <2>1, SwapKeys
    <3>. HIDE DEF g
    <3>. QED BY <3>1, <3>2 DEF KeysSwapped
  <2>. HIDE DEF g
  <2>3. ASSUME NEW k \in 2..Len(h)
        PROVE  /\ k # p => w(Parent(k)) <= w(k)
               /\ Parent(k) = p /\ p > 1 => w(Parent(p)) <= w(k)
    <3>1. /\ Parent(k) \in 1..Len(h) /\ k \in 1..Len(h) /\ Parent(k) < k
          /\ v(k) \in Int /\ v(Parent(k)) \in Int /\ v(i) \in Int /\ v(p) \in Int
      <4>. HIDE DEF v, p
      <4>1. Parent(k) \in 1..Len(h) /\ k \in 1..Len(h) /\ Parent(k) < k
        BY <1>0, <1>3
      <4>. QED BY <1>0, <2>1, <4>1
    <3>2. /\ w(k) = IF k = p THEN v(i) ELSE IF k = i THEN v(p) ELSE v(k)
          /\ w(Parent(k)) = IF Parent(k) = p THEN v(i)
                            ELSE IF Parent(k) = i THEN v(p) ELSE v(Parent(k))
          /\ w(i) = v(p) /\ w(p) = v(i)
      <4>. HIDE DEF v, w, p
      <4>. QED BY <2>1, <2>2, <3>1
    <3>3. ASSUME k # p PROVE w(Parent(k)) <= w(k)
      <4>. HIDE DEF v, w
      <4>1. CASE k = i
        BY <1>6, <3>1, <3>2, <4>1 DEF p
      <4>2. CASE k # i /\ Parent(k) = p
        BY <1>4, <1>6, <3>1, <3>2, <3>3, <4>2
      <4>3. CASE k # i /\ Parent(k) = i
        BY <1>4, <1>6, <2>1, <3>1, <3>2, <3>3, <4>3
      <4>4. CASE k # i /\ Parent(k) # p /\ Parent(k) # i
        BY <1>4, <3>1, <3>2, <3>3, <4>4
      <4>. QED BY <4>1, <4>2, <4>3, <4>4
    <3>4. ASSUME Parent(k) = p, p > 1 PROVE w(Parent(p)) <= w(k)
      <4>1. /\ p \in 2..Len(h) /\ Parent(p) \in 1..(p - 1) /\ Parent(p) \in 1..Len(h)
            /\ p # i
        BY <1>3, <2>1, <3>4
      <4>2. w(Parent(p)) = v(Parent(p)) /\ v(Parent(p)) \in Int
        <5>. HIDE DEF v, w, p
        <5>. QED BY <1>0, <2>1, <2>2, <4>1
      <4>. HIDE DEF v, w
      <4>3. v(Parent(p)) <= v(p)
        BY <1>4, <4>1
      <4>4. CASE k = i
        BY <2>1, <3>2, <4>1, <4>2, <4>3, <4>4
      <4>5. CASE k # i
        <5>1. v(p) <= v(k) /\ k # p
          BY <1>4, <3>1, <3>4, <4>5
        <5>. QED BY <3>1, <3>2, <4>2, <4>3, <4>5, <5>1
      <4>. QED BY <4>4, <4>5
    <3>. QED BY <3>3, <3>4
  <2>4. HeapBelow(g, key, p)
    BY <2>2, <2>3 DEF HeapBelow
  <2>. QED BY <1>6, <2>1, <2>4 DEF g
<1>. QED BY <1>5, <1>6

LEMMA SwapSelf ==
  ASSUME NEW S, NEW h \in Seq(S), NEW i \in 1..Len(h)
  PROVE  swap(h, i, i) = h
<1>1. /\ swap(h, i, i) \in Seq(S) /\ Len(swap(h, i, i)) = Len(h)
      /\ \A k \in 1..Len(h) : swap(h, i, i)[k] = h[k]
  BY SwapPlaces
<1>. QED BY <1>1, SeqEqual

\* smartlist_heapify repairs a heap whose item at place i is too large.
LEMMA HeapifyOrders ==
  ASSUME NEW S, NEW h \in Seq(S), NEW key \in [S -> Int], NEW i \in 1..Len(h),
         HeapAbove(h, key, i)
  PROVE  HeapOk(smartlist_heapify(h, key, i), key)
<1>1. PICK a : DownRun(S, h, key, i, a)
  BY DownLoop
<1>. DEFINE Q(n) == /\ HeapAbove(a[n].heap, key, a[n].idx)
                    /\ LowEnough(a[n], key) \/ a[n].idx >= n + 1
            good == {n \in Nat : Q(n)}
<1>2. Len(h) \in Nat
  BY LenProperties
<1>3. ASSUME NEW n \in Nat
      PROVE  /\ a[n] \in Places(S, h)
             /\ a[n].heap \in Seq(S) /\ Len(a[n].heap) = Len(h)
             /\ a[n].idx \in 1..Len(a[n].heap)
             /\ a[n + 1] = down(a[n], key)
  BY <1>1 DEF DownRun, Places, SameItems
<1>4. Q(0)
  <2>1. a[0] = [heap |-> h, idx |-> i]
    BY <1>1 DEF DownRun
  <2>. QED BY <2>1
<1>5. ASSUME NEW n \in Nat, Q(n) PROVE Q(n + 1)
  <2>. DEFINE s == a[n]
              b == best_idx(s.heap, key, s.idx)
  <2>1. a[n + 1] = [heap |-> swap(s.heap, s.idx, b), idx |-> b]
    BY <1>3 DEF down
  <2>2. CASE b = s.idx
    <3>1. swap(s.heap, s.idx, b) = s.heap
      BY <1>3, <2>2, SwapSelf
    <3>2. s = [heap |-> s.heap, idx |-> s.idx]
      BY <1>3 DEF Places
    <3>3. a[n + 1] = s
      BY <2>1, <2>2, <3>1, <3>2
    <3>4. LowEnough(s, key)
      BY <2>2 DEF LowEnough
    <3>. HIDE DEF s
    <3>. QED BY <1>5, <3>3, <3>4 DEF s
  <2>3. CASE b # s.idx
    <3>1. b > s.idx /\ HeapAbove(swap(s.heap, s.idx, b), key, b)
      BY <1>3, <1>5, <2>3, TurnDown
    <3>2. ~LowEnough(s, key)
      BY <2>3 DEF LowEnough
    <3>6. s.heap \in Seq(S) /\ s.idx \in 1..Len(s.heap) /\ Len(s.heap) = Len(h)
      BY <1>3
    <3>7. LowEnough(s, key) \/ s.idx >= n + 1
      BY <1>5
    <3>4. b \in Nat
      <4>. HIDE DEF s
      <4>1. best_idx(s.heap, key, s.idx) \in 1..Len(s.heap)
        BY <3>6, BestIdx
      <4>. QED BY <1>2, <3>6, <4>1
    <3>3. s.idx >= n + 1 /\ s.idx \in Nat
      <4>. HIDE DEF s
      <4>. QED BY <1>2, <3>2, <3>6, <3>7
    <3>5. a[n + 1].heap = swap(s.heap, s.idx, b) /\ a[n + 1].idx = b
      BY <2>1
    <3>. HIDE DEF s, b
    <3>. QED BY <3>1, <3>3, <3>4, <3>5
  <2>. QED BY <2>2, <2>3
<1>6. Len(h) \in good
  <2>1. 0 \in good
    BY <1>4
  <2>2. ASSUME NEW n \in Nat, n \in good PROVE n + 1 \in good
    <3>1. Q(n) /\ n + 1 \in Nat
      BY <2>2
    <3>2. Q(n + 1)
      BY <1>5, <3>1
    <3>. HIDE DEF Q
    <3>. QED BY <3>1, <3>2
  <2>. HIDE DEF good
  <2>. QED BY <1>2, <2>1, <2>2, NatSetInduction
<1>. DEFINE s == a[Len(h)]
<1>7. HeapAbove(s.heap, key, s.idx) /\ best_idx(s.heap, key, s.idx) = s.idx
  <2>1. HeapAbove(s.heap, key, s.idx) /\ (LowEnough(s, key) \/ s.idx >= Len(h) + 1)
    BY <1>6
  <2>2. s.idx \in 1..Len(h)
    BY <1>2, <1>3
  <2>. HIDE DEF s
  <2>. QED BY <1>2, <2>1, <2>2 DEF LowEnough
<1>8. HeapOk(s.heap, key)
  BY <1>2, <1>3, <1>7, TurnDown
<1>. QED BY <1>1, <1>8 DEF DownRun

\* smartlist_pqueue_add: a heap stays a heap.
THEOREM AddOrders ==
  ASSUME NEW S, NEW h \in Seq(S), NEW key \in [S -> Int], NEW x \in S,
         HeapOk(h, key)
  PROVE  HeapOk(smartlist_pqueue_add(h, key, x), key)
<1>. DEFINE grown == Append(h, x)
<1>1. PICK a : UpRun(S, h, key, x, a)
  BY UpLoop
<1>2. /\ Len(h) \in Nat /\ grown \in Seq(S) /\ Len(grown) = Len(h) + 1
      /\ \A k \in 1..Len(h) : grown[k] = h[k]
  BY AppendProperties, LenProperties
<1>3. a[0] = [heap |-> grown, idx |-> Len(grown)]
  BY <1>1 DEF UpRun
<1>4. ASSUME NEW n \in Nat
      PROVE  /\ a[n].heap \in Seq(S) /\ Len(a[n].heap) = Len(grown)
             /\ a[n].idx \in 1..Len(a[n].heap)
             /\ a[n + 1] = up(a[n], key)
  BY <1>1 DEF UpRun, Places, SameItems
<1>5. smartlist_pqueue_add(h, key, x) = a[Len(grown)].heap
  BY <1>1 DEF UpRun
<1>. DEFINE Q(n) == /\ HeapBelow(a[n].heap, key, a[n].idx)
                    /\ HighEnough(a[n], key) \/ a[n].idx <= Len(grown) - n
            good == {n \in Nat : Q(n)}
<1>. HIDE DEF grown
<1>6. Q(0)
  <2>1. ASSUME NEW k \in 2..Len(grown)
        PROVE  /\ k # Len(grown) => key[grown[Parent(k)]] <= key[grown[k]]
               /\ Parent(k) # Len(grown)
    <3>1. Parent(k) \in 1..(k - 1)
      BY <1>2, Parents
    <3>2. Parent(k) # Len(grown)
      BY <1>2, <3>1
    <3>3. ASSUME k # Len(grown) PROVE key[grown[Parent(k)]] <= key[grown[k]]
      <4>1. k \in 2..Len(h) /\ Parent(k) \in 1..Len(h) /\ k \in 1..Len(h)
        <5>1. k \in 2..(Len(h) + 1) /\ k # Len(h) + 1
          BY <1>2, <3>3
        <5>2. k \in 2..Len(h)
          BY <1>2, <5>1
        <5>. QED BY <1>2, <3>1, <5>2
      <4>2. key[h[Parent(k)]] <= key[h[k]]
        BY <4>1 DEF HeapOk
      <4>. QED BY <1>2, <4>1, <4>2
    <3>. QED BY <3>2, <3>3
  <2>2. HeapBelow(grown, key, Len(grown))
    BY <2>1 DEF HeapBelow
  <2>. QED BY <1>2, <1>3, <2>2
<1>7. ASSUME NEW n \in Nat, Q(n) PROVE Q(n + 1)
  <2>. DEFINE s == a[n]
              p == Parent(s.idx)
  <2>1. CASE HighEnough(s, key)
    <3>1. a[n + 1] = s
      BY <1>4, <2>1 DEF up, HighEnough
    <3>. HIDE DEF s
    <3>. QED BY <1>7, <2>1, <3>1 DEF s
  <2>2. CASE ~HighEnough(s, key)
    <3>1. s.idx > 1 /\ key[s.heap[s.idx]] < key[s.heap[p]]
      BY <2>2 DEF HighEnough
    <3>2. p \in 1..(s.idx - 1) /\ HeapBelow(swap(s.heap, s.idx, p), key, p)
      BY <1>4, <1>7, <3>1, TurnUp
    <3>3. a[n + 1] = [heap |-> swap(s.heap, s.idx, p), idx |-> p]
      BY <1>4, <3>1 DEF up
    <3>4. a[n + 1].heap = swap(s.heap, s.idx, p) /\ a[n + 1].idx = p
      BY <3>3
    <3>6. s.idx \in 1..Len(grown) /\ (HighEnough(s, key) \/ s.idx <= Len(grown) - n)
      BY <1>4, <1>7
    <3>5. s.idx <= Len(grown) - n /\ s.idx \in Nat
      <4>. HIDE DEF s
      <4>. QED BY <1>2, <2>2, <3>6
    <3>. HIDE DEF s, p
    <3>. QED BY <1>2, <3>2, <3>4, <3>5
  <2>. QED BY <2>1, <2>2
<1>8. Len(grown) \in good
  <2>1. 0 \in good
    BY <1>6
  <2>2. ASSUME NEW n \in Nat, n \in good PROVE n + 1 \in good
    <3>1. Q(n) /\ n + 1 \in Nat
      BY <2>2
    <3>2. Q(n + 1)
      BY <1>7, <3>1
    <3>. HIDE DEF Q
    <3>. QED BY <3>1, <3>2
  <2>3. Len(grown) \in Nat
    BY <1>2
  <2>. HIDE DEF good
  <2>. QED BY <2>1, <2>2, <2>3, NatSetInduction
<1>. DEFINE s == a[Len(grown)]
<1>9. HeapBelow(s.heap, key, s.idx) /\ HighEnough(s, key)
  <2>1. /\ HeapBelow(s.heap, key, s.idx)
        /\ HighEnough(s, key) \/ s.idx <= Len(grown) - Len(grown)
    BY <1>8
  <2>2. s.idx \in 1..Len(grown)
    <3>1. Len(grown) \in Nat
      BY <1>2
    <3>. QED BY <1>4, <3>1
  <2>. HIDE DEF s
  <2>. QED BY <1>2, <2>1, <2>2
<1>10. HeapOk(s.heap, key)
  <2>1. s.heap \in Seq(S) /\ s.idx \in 1..Len(s.heap)
    BY <1>2, <1>4
  <2>. HIDE DEF s
  <2>. QED BY <1>9, <2>1, TurnUp DEF HighEnough
<1>. QED BY <1>5, <1>10

\* The last item may take place i: it is not less than the parent of that place.
Fits(h, key, i) ==
  i > 1 /\ i < Len(h) => key[h[Parent(i)]] <= key[h[Len(h)]]

\* In a heap of five items or fewer the last one fits in every place: the last
\* item is at most four places below the first, so it has the same parent as
\* the removed one or that parent is the first item.
LEMMA SmallHeapFits ==
  ASSUME NEW S, NEW h \in Seq(S), NEW key \in [S -> Int], HeapOk(h, key),
         Len(h) <= 5, NEW i \in 1..Len(h)
  PROVE  Fits(h, key, i)
<1>. DEFINE n == Len(h)
            v(k) == key[h[k]]
<1>. SUFFICES ASSUME i > 1, i < n PROVE v(Parent(i)) <= v(n)
  BY DEF Fits
<1>1. n \in 3..5 /\ i \in 2..4 /\ i \in 2..n /\ n \in 2..n
  <2>1. n \in Nat /\ n <= 5
    BY LenProperties
  <2>. HIDE DEF n
  <2>. QED BY <2>1
<1>2. \A k \in 1..n : v(k) \in Int
  BY <1>1, ElementOfSeq
<1>3. \A k \in 2..n : v(Parent(k)) <= v(k)
  BY DEF HeapOk
<1>4. Parent(2) = 1 /\ Parent(3) = 1 /\ Parent(4) = 2 /\ Parent(5) = 2
  BY DEF Parent
<1>. HIDE DEF v, n
<1>5. CASE n = 3
  <2>1. i = 2
    BY <1>1, <1>5
  <2>. QED BY <1>1, <1>3, <1>4, <1>5, <2>1
<1>6. CASE n \in {4, 5}
  <2>1. v(1) <= v(2) /\ v(2) <= v(n) /\ v(1) \in Int /\ v(2) \in Int /\ v(n) \in Int
    BY <1>1, <1>2, <1>3, <1>4, <1>6
  <2>2. Parent(i) = 1 \/ Parent(i) = 2
    BY <1>1, <1>4
  <2>. QED BY <2>1, <2>2
<1>. QED BY <1>1, <1>5, <1>6

\* smartlist_pqueue_remove: a heap stays a heap when the last item fits in the
\* place of the removed one.
THEOREM RemoveOrders ==
  ASSUME NEW S, NEW h \in Seq(S), Distinct(h), NEW key \in [S -> Int],
         NEW x \in Items(h), HeapOk(h, key), Fits(h, key, heap_index(h, x))
  PROVE  HeapOk(smartlist_pqueue_remove(h, key, x), key)
<1>. DEFINE i == heap_index(h, x)
            r == last_to(h, i)
            n == Len(h)
<1>1. i \in 1..n /\ n \in Nat
  BY IndexFinds, LenProperties
<1>2. Fits(h, key, i)
  OBVIOUS
<1>. HIDE DEF i
<1>3. /\ r \in Seq(S) /\ Len(r) = n - 1
      /\ \A k \in 1..(n - 1) : r[k] = IF k = i THEN h[n] ELSE h[k]
  BY <1>1, LastToHolds
<1>4. smartlist_pqueue_remove(h, key, x)
        = IF i = n THEN r ELSE smartlist_heapify(r, key, i)
  BY DEF smartlist_pqueue_remove, i
<1>. HIDE DEF r
<1>5. ASSUME NEW k \in 2..(n - 1)
      PROVE  /\ Parent(k) \in 1..(k - 1) /\ Parent(k) \in 1..(n - 1)
             /\ k \in 1..(n - 1) /\ k \in 2..n
             /\ key[h[Parent(k)]] <= key[h[k]]
             /\ key[h[Parent(k)]] \in Int /\ key[h[k]] \in Int
  <2>1. Parent(k) \in 1..(k - 1)
    BY <1>1, Parents
  <2>2. Parent(k) \in 1..(n - 1) /\ k \in 1..(n - 1) /\ k \in 2..n /\ k \in 1..n
        /\ Parent(k) \in 1..n
    BY <1>1, <2>1
  <2>3. h[Parent(k)] \in S /\ h[k] \in S
    BY <2>2, ElementOfSeq
  <2>. QED BY <2>1, <2>2, <2>3 DEF HeapOk
<1>6. CASE i = n
  <2>1. ASSUME NEW k \in 2..(n - 1) PROVE key[r[Parent(k)]] <= key[r[k]]
    <3>1. r[Parent(k)] = h[Parent(k)] /\ r[k] = h[k]
      BY <1>1, <1>3, <1>5, <1>6
    <3>. QED BY <1>5, <3>1
  <2>. QED BY <1>3, <1>4, <1>6, <2>1 DEF HeapOk
<1>7. CASE i # n
  <2>1. i \in 1..Len(r)
    BY <1>1, <1>3, <1>7
  <2>2. ASSUME NEW k \in 2..(n - 1)
        PROVE  /\ Parent(k) # i => key[r[Parent(k)]] <= key[r[k]]
               /\ Parent(k) = i /\ i > 1 => key[r[Parent(i)]] <= key[r[k]]
    <3>1. ASSUME Parent(k) # i PROVE key[r[Parent(k)]] <= key[r[k]]
      <4>1. r[Parent(k)] = h[Parent(k)] /\ r[k] = IF k = i THEN h[n] ELSE h[k]
        BY <1>3, <1>5, <3>1
      <4>2. CASE k # i
        BY <1>5, <4>1, <4>2
      <4>3. CASE k = i
        <5>1. key[h[Parent(k)]] <= key[h[n]]
          BY <1>1, <1>2, <4>3 DEF Fits
        <5>. QED BY <4>1, <4>3, <5>1
      <4>. QED BY <4>2, <4>3
    <3>2. ASSUME Parent(k) = i, i > 1 PROVE key[r[Parent(i)]] <= key[r[k]]
      <4>1. i \in 2..(n - 1) /\ k # i
        BY <1>1, <1>5, <1>7, <3>2
      <4>2. r[Parent(i)] = h[Parent(i)] /\ r[k] = h[k]
        <5>1. Parent(i) \in 1..(n - 1) /\ Parent(i) # i
          BY <1>5, <4>1
        <5>. QED BY <1>3, <1>5, <4>1, <5>1
      <4>3. key[h[Parent(i)]] <= key[h[i]] /\ key[h[i]] <= key[h[k]]
            /\ key[h[Parent(i)]] \in Int /\ key[h[i]] \in Int /\ key[h[k]] \in Int
        BY <1>5, <3>2, <4>1
      <4>. QED BY <4>2, <4>3
    <3>. QED BY <3>1, <3>2
  <2>3. HeapAbove(r, key, i)
    BY <1>3, <2>2 DEF HeapAbove
  <2>. QED BY <1>3, <1>4, <1>7, <2>1, <2>3, HeapifyOrders
<1>. QED BY <1>6, <1>7

\* The first place of an item is 1 when it is the first item.
LEMMA HeadIndex ==
  ASSUME NEW S, NEW h \in Seq(S), h # <<>>, Distinct(h)
  PROVE  Head(h) \in Items(h) /\ heap_index(h, Head(h)) = 1
<1>1. 1 \in 1..Len(h) /\ Head(h) = h[1]
  OBVIOUS
<1>2. Head(h) \in Items(h)
  BY <1>1 DEF Items
<1>3. heap_index(h, Head(h)) \in 1..Len(h) /\ h[heap_index(h, Head(h))] = h[1]
  BY <1>1, <1>2, IndexFinds
<1>. QED BY <1>1, <1>2, <1>3 DEF Distinct

\* smartlist_pqueue_pop: a heap stays a heap.
THEOREM PopOrders ==
  ASSUME NEW S, NEW h \in Seq(S), h # <<>>, Distinct(h), NEW key \in [S -> Int],
         HeapOk(h, key)
  PROVE  HeapOk(smartlist_pqueue_pop(h, key), key)
<1>1. Head(h) \in Items(h) /\ heap_index(h, Head(h)) = 1
  BY HeadIndex
<1>2. Fits(h, key, heap_index(h, Head(h)))
  BY <1>1 DEF Fits
<1>. QED BY <1>1, <1>2, RemoveOrders DEF smartlist_pqueue_pop

\* smartlist_pqueue_remove: a heap of at most five items stays a heap, so six
\* are the fewest with which the missing move up can be seen.
THEOREM SmallRemoveOrders ==
  ASSUME NEW S, NEW h \in Seq(S), Distinct(h), NEW key \in [S -> Int],
         NEW x \in Items(h), HeapOk(h, key), Len(h) <= 5
  PROVE  HeapOk(smartlist_pqueue_remove(h, key, x), key)
<1>1. heap_index(h, x) \in 1..Len(h)
  BY IndexFinds
<1>2. Fits(h, key, heap_index(h, x))
  BY <1>1, SmallHeapFits
<1>. QED BY <1>2, RemoveOrders

-----------------------------------------------------------------------------
(* The records of the mux                                                   *)

EntryFields == {"circ", "cell_count", "weight", "adjusted"}
MuxFields == {"n_active", "n_cells", "heap", "recalibrated", "destroy_queue",
              "last_cell_was_destroy"}

\* The records of the mux and of its map, whatever they hold.
MuxShape(m, e) ==
  /\ e = [i \in Ids |-> e[i]]
  /\ \A i \in Ids : DOMAIN e[i] = EntryFields
  /\ DOMAIN m = MuxFields

Shape(s) == DOMAIN s = {"m", "e"} /\ MuxShape(s.m, s.e)

\* From s to t the same circuits are attached and the same DESTROYs wait.
Keeps(s, t) ==
  /\ Shape(t)
  /\ \A i \in Ids : t.e[i].circ = s.e[i].circ
  /\ t.m.destroy_queue = s.m.destroy_queue
  /\ t.m.last_cell_was_destroy = s.m.last_cell_was_destroy

-----------------------------------------------------------------------------
(* What the operations of mux and policy keep                               *)

LEMMA AddKeeps ==
  ASSUME NEW s, Shape(s), NEW i
  PROVE  Keeps(s, add_cell_ewma(s, i))
BY DEF Keeps, Shape, MuxShape, EntryFields, MuxFields, add_cell_ewma

LEMMA RemoveKeeps ==
  ASSUME NEW s, Shape(s), NEW i
  PROVE  Keeps(s, remove_cell_ewma(s, i))
BY DEF Keeps, Shape, MuxShape, EntryFields, MuxFields, remove_cell_ewma

LEMMA KeepsTransitive ==
  ASSUME NEW s, NEW t, NEW u, Keeps(s, t), Keeps(t, u)
  PROVE  Keeps(s, u)
BY DEF Keeps

LEMMA ScaleKeeps ==
  ASSUME NEW s, Shape(s), NEW tick
  PROVE  Keeps(s, scale_active_circuits(s, tick))
BY DEF Keeps, Shape, MuxShape, EntryFields, MuxFields, scale_active_circuits

LEMMA SetNumCellsKeeps ==
  ASSUME NEW s, Shape(s), NEW i, NEW n
  PROVE  Keeps(s, circuitmux_set_num_cells(s, i, n))
<1> DEFINE counted == [s EXCEPT !.e[i].cell_count = n,
                                !.m.n_cells = @ - s.e[i].cell_count + n]
           fewer == [counted EXCEPT !.m.n_active = @ - 1]
           more == [counted EXCEPT !.m.n_active = @ + 1]
<1>1. Keeps(s, counted) /\ Keeps(s, fewer) /\ Keeps(s, more)
  BY DEF Keeps, Shape, MuxShape, EntryFields, MuxFields
<1>2. Keeps(fewer, remove_cell_ewma(fewer, i)) /\ Keeps(more, add_cell_ewma(more, i))
  <2> HIDE DEF fewer, more
  <2> QED BY <1>1, AddKeeps, RemoveKeeps DEF Keeps
<1>3. circuitmux_set_num_cells(s, i, n)
        \in {remove_cell_ewma(fewer, i), add_cell_ewma(more, i), counted}
  <2>1. CASE s.e[i].cell_count > 0 /\ n = 0
    BY <2>1 DEF circuitmux_set_num_cells
  <2>2. CASE ~(s.e[i].cell_count > 0 /\ n = 0) /\ s.e[i].cell_count = 0 /\ n > 0
    BY <2>2 DEF circuitmux_set_num_cells
  <2>3. CASE /\ ~(s.e[i].cell_count > 0 /\ n = 0)
             /\ ~(s.e[i].cell_count = 0 /\ n > 0)
    BY <2>3 DEF circuitmux_set_num_cells
  <2> QED BY <2>1, <2>2, <2>3
<1> HIDE DEF counted, fewer, more
<1> QED BY <1>1, <1>2, <1>3, KeepsTransitive

LEMMA XmitKeeps ==
  ASSUME NEW s, Shape(s), NEW i
  PROVE  Keeps(s, circuitmux_notify_xmit_cells(s, i))
<1> DEFINE fewer == [s EXCEPT !.e[i].cell_count = @ - 1, !.m.n_cells = @ - 1]
           scaled == IF current_tick.tick = fewer.m.recalibrated THEN fewer
                     ELSE scale_active_circuits(fewer, current_tick.tick)
           paid(w) == [scaled EXCEPT !.e[i].weight = w]
           popped(w) == [paid(w) EXCEPT !.m.heap = smartlist_pqueue_pop(@, Key(paid(w).e))]
           done == ewma_notify_xmit_cells(fewer, i)
           quiet == [done EXCEPT !.m.n_active = @ - 1]
<1>1. Keeps(s, fewer)
  BY DEF Keeps, Shape, MuxShape, EntryFields, MuxFields
<1>2. Keeps(s, scaled)
  <2> HIDE DEF fewer
  <2> QED BY <1>1, ScaleKeeps, KeepsTransitive DEF Keeps
<1>3. ASSUME NEW w PROVE Keeps(s, popped(w))
  <2> HIDE DEF scaled
  <2> QED BY <1>2 DEF Keeps, Shape, MuxShape, EntryFields, MuxFields
<1>4. PICK w : done = add_cell_ewma(popped(w), i)
  <2> DEFINE w0 == scaled.e[i].weight
                   + Unit * TwoTo[current_tick.now - current_tick.tick_start]
  <2>1. done = add_cell_ewma(popped(w0), i)
    BY Zenon DEF ewma_notify_xmit_cells
  <2> HIDE DEF done, popped, w0
  <2> QED BY <2>1
<1>5. Keeps(s, done)
  <2> HIDE DEF done, popped
  <2> QED BY <1>3, <1>4, AddKeeps, KeepsTransitive DEF Keeps
<1>6. Keeps(s, quiet)
  <2> HIDE DEF done
  <2> QED BY <1>5 DEF Keeps, Shape, MuxShape, EntryFields, MuxFields
<1>7. Keeps(s, remove_cell_ewma(quiet, i))
  <2> HIDE DEF quiet
  <2> QED BY <1>6, RemoveKeeps, KeepsTransitive DEF Keeps
<1>8. circuitmux_notify_xmit_cells(s, i) = done
      \/ circuitmux_notify_xmit_cells(s, i) = remove_cell_ewma(quiet, i)
  BY Zenon DEF circuitmux_notify_xmit_cells
<1> HIDE DEF done, quiet
<1> QED BY <1>5, <1>7, <1>8

LEMMA UpdateKeeps ==
  ASSUME NEW s, Shape(s), NEW c, NEW cs
  PROVE  Keeps(s, update_circuit_on_cmux(s, c, cs))
<1>1. Keeps(s, s)
  BY DEF Keeps
<1> QED BY <1>1, SetNumCellsKeeps DEF update_circuit_on_cmux

\* An id that is attached belongs to the circuit from then on.
LEMMA AttachSets ==
  ASSUME NEW s, Shape(s), NEW i \in Ids, NEW c, NEW n, s.e[i].circ = "none"
  PROVE  LET t == circuitmux_attach_circuit(s, c, i, n)
         IN  /\ Shape(t)
             /\ \A j \in Ids : t.e[j].circ = IF j = i THEN c ELSE s.e[j].circ
             /\ t.m.destroy_queue = s.m.destroy_queue
             /\ t.m.last_cell_was_destroy = s.m.last_cell_was_destroy
<1> DEFINE new == [s EXCEPT !.e[i] = [Detached EXCEPT !.circ = c,
                                             !.adjusted = cell_ewma_get_tick]]
<1>1. /\ Shape(new)
      /\ \A j \in Ids : new.e[j].circ = IF j = i THEN c ELSE s.e[j].circ
      /\ new.m = s.m
  BY DEF Shape, MuxShape, EntryFields, MuxFields, Detached
<1>2. circuitmux_attach_circuit(s, c, i, n) = circuitmux_set_num_cells(new, i, n)
  BY DEF circuitmux_attach_circuit
<1> HIDE DEF new
<1> QED BY <1>1, <1>2, SetNumCellsKeeps DEF Keeps

\* After a circuit is detached nobody has its id.
LEMMA DetachClears ==
  ASSUME NEW s, Shape(s), NEW i \in Ids
  PROVE  LET t == circuitmux_detach_circuit(s, i)
         IN  /\ Shape(t)
             /\ \A j \in Ids : t.e[j].circ = IF j = i THEN "none" ELSE s.e[j].circ
             /\ t.m.destroy_queue = s.m.destroy_queue
             /\ t.m.last_cell_was_destroy = s.m.last_cell_was_destroy
<1> DEFINE quiet == IF s.e[i].cell_count = 0 THEN s ELSE circuitmux_set_num_cells(s, i, 0)
<1>1. CASE s.e[i].circ = "none"
  BY <1>1 DEF circuitmux_detach_circuit
<1>2. CASE s.e[i].circ # "none"
  <2>1. Keeps(s, quiet)
    BY SetNumCellsKeeps DEF Keeps
  <2>2. circuitmux_detach_circuit(s, i) = [quiet EXCEPT !.e[i] = Detached]
    BY <1>2 DEF circuitmux_detach_circuit
  <2> HIDE DEF quiet
  <2> QED BY <2>1, <2>2 DEF Keeps, Shape, MuxShape, EntryFields, MuxFields, Detached
<1> QED BY <1>1, <1>2

-----------------------------------------------------------------------------
(* The invariant                                                            *)

CircFields == {"id", "marked", "queue", "delete_pending"}

CircShape ==
  /\ circ = [c \in Circuits |-> circ[c]]
  /\ \A c \in Circuits : /\ DOMAIN circ[c] = CircFields
                         /\ circ[c].id \in Ids \union {"none"}
                         /\ circ[c].delete_pending \in BOOLEAN

Shapes ==
  /\ chan \in {"open", "closing", "closed", "freed"}
  /\ CircShape
  /\ owner \in [Ids -> Circuits \union {"placeholder", "none"}]
  /\ MuxShape(mux, entry)
  /\ mux.destroy_queue \in Seq(Ids)
  /\ mux.last_cell_was_destroy \in BOOLEAN
  /\ DOMAIN callback = {"step", "circ"}
  /\ callback.step \in {"idle", "prime", "finish"}

\* The id map, the circuits and the mux name each other.
NamesAgree ==
  /\ \A c \in Circuits : OnChannel(c) => owner[circ[c].id] = c
  /\ \A i \in Ids : owner[i] \in Circuits => circ[owner[i]].id = i
  /\ \A i \in Ids : entry[i].circ = IF owner[i] \in Circuits THEN owner[i] ELSE "none"

\* A DESTROY that is being sent is that of a circuit of the channel, or the
\* answer to a CREATE that was refused.
SenderIsThere ==
  \/ Idle
  \/ callback.circ = "none"
  \/ callback.circ \in Circuits /\ OnChannel(callback.circ)

Closed ==
  /\ chan \in {"closed", "freed"} => \A i \in Ids : owner[i] \notin Circuits
  /\ chan = "freed" => mux.destroy_queue = <<>>

TurnsKept ==
  /\ overtaken \in {0, 1}
  /\ mux.last_cell_was_destroy => overtaken = 0

IdInv == Shapes /\ NamesAgree /\ SenderIsThere /\ Closed /\ IdsAreReserved

LEMMA InitIdInv ==
  ASSUME Init
  PROVE  IdInv /\ TurnsKept
<1> USE MuxParameters
<1>m. /\ DOMAIN mux = MuxFields
      /\ mux.destroy_queue = <<>>
      /\ mux.last_cell_was_destroy = FALSE
  BY DEF Init, MuxFields
<1>e. /\ entry = [i \in Ids |-> entry[i]]
      /\ \A i \in Ids : DOMAIN entry[i] = EntryFields /\ entry[i].circ = "none"
  BY DEF Init, Detached, EntryFields
<1>c. CircShape
  BY DEF Init, CircShape, CircFields, NewCirc
<1>o. owner \in [Ids -> {"none"}]
  BY DEF Init
<1>s. /\ chan = "open" /\ DOMAIN callback = {"step", "circ"}
      /\ callback.step = "idle" /\ overtaken = 0
  BY DEF Init
<1>q. mux.destroy_queue \in Seq(Ids) /\ "none" \notin Circuits
  BY <1>m
<1>1. Shapes
  BY <1>q, <1>m, <1>e, <1>c, <1>o, <1>s DEF Shapes, MuxShape
<1>n. \A c \in Circuits : circ[c].id = "none" /\ circ[c].delete_pending = FALSE
  BY DEF Init, NewCirc
<1>2. NamesAgree /\ SenderIsThere /\ Closed
  <2>1. NamesAgree
    BY <1>e, <1>o, <1>n, <1>q DEF NamesAgree, OnChannel
  <2>2. SenderIsThere /\ Closed
    BY <1>s DEF SenderIsThere, Closed, Idle
  <2> QED BY <2>1, <2>2
<1>3. IdsAreReserved
  BY <1>m, <1>o, <1>s, <1>n DEF IdsAreReserved, Items
<1>4. TurnsKept
  BY <1>m, <1>s DEF TurnsKept
<1> QED BY <1>1, <1>2, <1>3, <1>4 DEF IdInv

\* A circuit of the channel that is not being destroyed has no DESTROY waiting.
LEMMA OwnIdIsNotWaiting ==
  ASSUME IdInv, Idle, NEW c \in Circuits, OnChannel(c)
  PROVE  /\ circ[c].id \in Ids
         /\ circ[c].id \notin Items(mux.destroy_queue)
         /\ circ[c].delete_pending = FALSE
<1>1. circ[c].id \in Ids /\ owner[circ[c].id] = c
  BY DEF IdInv, Shapes, CircShape, NamesAgree, OnChannel
<1>2. circ[c].id \notin Items(mux.destroy_queue)
  BY <1>1, MuxParameters DEF IdInv, IdsAreReserved, Idle
<1>3. circ[c].delete_pending = FALSE
  BY <1>2 DEF IdInv, IdsAreReserved, Shapes, CircShape
<1> QED BY <1>1, <1>2, <1>3

\* What a mux keeps when the queue of DESTROYs and the attached circuits stay.
LEMMA MuxStays ==
  ASSUME NEW t, Keeps(State, t), Becomes(t)
  PROVE  /\ MuxShape(mux, entry)'
         /\ \A i \in Ids : entry'[i].circ = entry[i].circ
         /\ mux'.destroy_queue = mux.destroy_queue
         /\ mux'.last_cell_was_destroy = mux.last_cell_was_destroy
<1>1. MuxShape(mux', entry')
  BY DEF Keeps, Shape, Becomes
<1> QED BY <1>1 DEF Keeps, State, Becomes, MuxShape

-----------------------------------------------------------------------------
(* Steps that leave ids and DESTROYs alone                                  *)

LEMMA NamesStay ==
  ASSUME IdInv,
         MuxShape(mux, entry)', CircShape',
         \A i \in Ids : entry'[i].circ = entry[i].circ,
         mux'.destroy_queue = mux.destroy_queue,
         mux'.last_cell_was_destroy \in BOOLEAN,
         owner' = owner,
         \A c \in Circuits : /\ circ'[c].id = circ[c].id
                             /\ circ'[c].delete_pending = circ[c].delete_pending,
         chan' = chan \/ chan' = "closing",
         DOMAIN callback' = {"step", "circ"},
         callback'.step \in {"idle", "prime", "finish"},
         callback'.circ = callback.circ, Idle' <=> Idle
  PROVE  IdInv'
<1>1. Shapes'
  BY DEF IdInv, Shapes
<1>2. NamesAgree'
  BY DEF IdInv, NamesAgree, OnChannel
<1>3. SenderIsThere' /\ Closed'
  BY DEF IdInv, SenderIsThere, Closed, OnChannel
<1>4. IdsAreReserved'
  <2>1. \A i : i \in Items(mux'.destroy_queue) <=> i \in Items(mux.destroy_queue)
    OBVIOUS
  <2>2. chan' = "freed" => chan = "freed"
    OBVIOUS
  <2> QED BY <2>1, <2>2 DEF IdInv, IdsAreReserved, Idle
<1> QED BY <1>1, <1>2, <1>3, <1>4 DEF IdInv

LEMMA ReleaseCellsIds ==
  ASSUME IdInv, NEW c \in Circuits, NEW n, ReleaseCells(c, n)
  PROVE  IdInv'
<1>1. Shape(State)
  BY DEF IdInv, Shapes, Shape, State
<1>2. Keeps(State, update_circuit_on_cmux(State, c, circ'))
  BY <1>1, UpdateKeeps
<1>3. /\ MuxShape(mux, entry)'
      /\ \A i \in Ids : entry'[i].circ = entry[i].circ
      /\ mux'.destroy_queue = mux.destroy_queue
      /\ mux'.last_cell_was_destroy = mux.last_cell_was_destroy
  BY <1>2, MuxStays DEF ReleaseCells
<1>4. CircShape' /\ \A k \in Circuits : /\ circ'[k].id = circ[k].id
                                         /\ circ'[k].delete_pending = circ[k].delete_pending
  BY DEF ReleaseCells, IdInv, Shapes, CircShape, CircFields
<1> QED BY <1>3, <1>4, NamesStay DEF ReleaseCells, Idle, IdInv, Shapes

LEMMA AppendCellIds ==
  ASSUME IdInv, NEW c \in Circuits, NEW killed \in SUBSET Circuits, AppendCell(c, killed)
  PROVE  IdInv'
<1>1. Shape(State)
  BY DEF IdInv, Shapes, Shape, State
<1>2. PICK t : Keeps(State, t) /\ Becomes(t)
  <2>1. Keeps(State, update_circuit_on_cmux(State, c, circ')) /\ Keeps(State, State)
    BY <1>1, UpdateKeeps DEF Keeps
  <2> QED BY <2>1 DEF AppendCell
<1>3. /\ MuxShape(mux, entry)'
      /\ \A i \in Ids : entry'[i].circ = entry[i].circ
      /\ mux'.destroy_queue = mux.destroy_queue
      /\ mux'.last_cell_was_destroy = mux.last_cell_was_destroy
  BY <1>2, MuxStays
<1>4. CircShape' /\ \A k \in Circuits : /\ circ'[k].id = circ[k].id
                                         /\ circ'[k].delete_pending = circ[k].delete_pending
  BY DEF AppendCell, IdInv, Shapes, CircShape, CircFields
<1> QED BY <1>3, <1>4, NamesStay DEF AppendCell, Idle, IdInv, Shapes

LEMMA MarkForCloseIds ==
  ASSUME IdInv, NEW c \in Circuits, MarkForClose(c)
  PROVE  IdInv'
<1>1. CircShape' /\ \A k \in Circuits : /\ circ'[k].id = circ[k].id
                                         /\ circ'[k].delete_pending = circ[k].delete_pending
  BY DEF MarkForClose, IdInv, Shapes, CircShape, CircFields
<1> QED BY <1>1, NamesStay DEF MarkForClose, Idle, IdInv, Shapes, MuxShape

LEMMA FreeUnlinkedIds ==
  ASSUME IdInv, NEW c \in Circuits, FreeUnlinked(c)
  PROVE  IdInv'
<1>1. circ[c].id = "none" /\ circ[c].delete_pending = FALSE
  <2>1. \A i \in Items(mux.destroy_queue) : i \in Ids
    BY DEF IdInv, Shapes, Items
  <2> QED BY <2>1, MuxParameters
          DEF FreeUnlinked, OnChannel, IdInv, IdsAreReserved, Shapes, CircShape
<1>2. CircShape' /\ \A k \in Circuits : /\ circ'[k].id = circ[k].id
                                         /\ circ'[k].delete_pending = circ[k].delete_pending
  BY <1>1 DEF FreeUnlinked, IdInv, Shapes, CircShape, CircFields, NewCirc
<1> QED BY <1>2, NamesStay DEF FreeUnlinked, Idle, IdInv, Shapes, MuxShape

LEMMA TimeIds ==
  ASSUME IdInv, UNCHANGED <<circ, owner, entry, mux, callback>>,
         chan' = chan \/ chan' = "closing"
  PROVE  IdInv'
BY NamesStay DEF Idle, IdInv, Shapes, MuxShape, CircShape

LEMMA WriteRelayIds ==
  ASSUME IdInv, WriteRelay
  PROVE  IdInv'
<1> DEFINE i == Picked
           c == entry[i].circ
           start == [State EXCEPT !.m.last_cell_was_destroy = FALSE]
           xmit == circuitmux_notify_xmit_cells(start, i)
           t == circuitmux_set_num_cells(xmit, i, circ[c].queue - 1)
<1>1. /\ Shape(start)
      /\ \A k \in Ids : start.e[k].circ = entry[k].circ
      /\ start.m.destroy_queue = mux.destroy_queue
      /\ start.m.last_cell_was_destroy = FALSE
  BY DEF IdInv, Shapes, Shape, MuxShape, MuxFields, State
<1>2. Becomes(t)
  BY DEF WriteRelay
<1>3. Keeps(start, t)
  <2> HIDE DEF start, c, i
  <2>1. Keeps(start, xmit)
    BY <1>1, XmitKeeps
  <2> HIDE DEF xmit
  <2> QED BY <2>1, SetNumCellsKeeps, KeepsTransitive DEF Keeps
<1>4. CircShape' /\ \A k \in Circuits : /\ circ'[k].id = circ[k].id
                                         /\ circ'[k].delete_pending = circ[k].delete_pending
  BY DEF WriteRelay, IdInv, Shapes, CircShape, CircFields
<1>5. /\ DOMAIN callback' = {"step", "circ"}
      /\ callback'.step \in {"idle", "prime", "finish"}
      /\ callback'.circ = callback.circ /\ (Idle' <=> Idle)
  BY DEF WriteRelay, Wrote, RelayTurn, Flushing, Idle, IdInv, Shapes
<1>6. owner' = owner /\ chan' = chan
  BY DEF WriteRelay
<1> HIDE DEF start, t
<1>7. /\ MuxShape(mux, entry)'
      /\ \A k \in Ids : entry'[k].circ = entry[k].circ
      /\ mux'.destroy_queue = mux.destroy_queue
      /\ mux'.last_cell_was_destroy = FALSE
  BY <1>1, <1>2, <1>3 DEF Keeps, Shape, Becomes, MuxShape
<1> QED BY <1>4, <1>5, <1>6, <1>7, NamesStay

LEMMA SkipEmptyIds ==
  ASSUME IdInv, SkipEmpty
  PROVE  IdInv'
<1> DEFINE start == [State EXCEPT !.m.last_cell_was_destroy = FALSE]
           t == circuitmux_set_num_cells(start, Picked, 0)
<1>1. /\ Shape(start)
      /\ \A k \in Ids : start.e[k].circ = entry[k].circ
      /\ start.m.destroy_queue = mux.destroy_queue
      /\ start.m.last_cell_was_destroy = FALSE
  BY DEF IdInv, Shapes, Shape, MuxShape, MuxFields, State
<1>2. Becomes(t)
  BY DEF SkipEmpty
<1>3. Keeps(start, t)
  <2> HIDE DEF start
  <2> QED BY <1>1, SetNumCellsKeeps
<1>4. CircShape' /\ \A k \in Circuits : /\ circ'[k].id = circ[k].id
                                         /\ circ'[k].delete_pending = circ[k].delete_pending
  BY DEF SkipEmpty, IdInv, Shapes, CircShape, CircFields
<1>5. owner' = owner /\ chan' = chan /\ callback' = callback
  BY DEF SkipEmpty
<1> HIDE DEF start, t
<1>6. /\ MuxShape(mux, entry)'
      /\ \A k \in Ids : entry'[k].circ = entry[k].circ
      /\ mux'.destroy_queue = mux.destroy_queue
      /\ mux'.last_cell_was_destroy = FALSE
  BY <1>1, <1>2, <1>3 DEF Keeps, Shape, Becomes, MuxShape
<1> QED BY <1>4, <1>5, <1>6, NamesStay DEF Idle, IdInv, Shapes

-----------------------------------------------------------------------------
(* Circuits that come and go                                                *)

LEMMA UseIdIds ==
  ASSUME IdInv, NEW c \in Circuits, NEW i \in Ids, NEW n, UseId(c, i, n)
  PROVE  IdInv'
<1> DEFINE t == circuitmux_attach_circuit(State, c, i, n)
<1>1. /\ owner[i] = "none" /\ circ[c].id = "none" /\ circ[c].delete_pending = FALSE
      /\ owner' = [owner EXCEPT ![i] = c] /\ chan = "open"
      /\ chan' = chan /\ callback' = callback /\ Idle
  <2>1. \A k \in Items(mux.destroy_queue) : k \in Ids
    BY DEF IdInv, Shapes, Items
  <2> QED BY <2>1, MuxParameters
          DEF UseId, OnChannel, IdInv, IdsAreReserved, Shapes, CircShape
<1>2. Shape(State) /\ State.e[i].circ = "none" /\ i # "none"
  BY <1>1, MuxParameters DEF IdInv, Shapes, Shape, State, NamesAgree
<1>3. /\ Shape(t)
      /\ \A j \in Ids : t.e[j].circ = IF j = i THEN c ELSE State.e[j].circ
      /\ t.m.destroy_queue = State.m.destroy_queue
      /\ t.m.last_cell_was_destroy = State.m.last_cell_was_destroy
  BY <1>2, AttachSets
<1>4. Becomes(t)
  BY DEF UseId
<1>5. /\ MuxShape(mux, entry)'
      /\ \A j \in Ids : entry'[j].circ = IF j = i THEN c ELSE entry[j].circ
      /\ mux'.destroy_queue = mux.destroy_queue
      /\ mux'.last_cell_was_destroy = mux.last_cell_was_destroy
  <2> HIDE DEF t
  <2> QED BY <1>3, <1>4 DEF Becomes, Shape, State, MuxShape
<1>6. /\ CircShape'
      /\ circ'[c].id = i /\ circ'[c].delete_pending = FALSE
      /\ \A k \in Circuits \ {c} : circ'[k] = circ[k]
  BY <1>1 DEF UseId, IdInv, Shapes, CircShape, CircFields
<1>7. Shapes'
  BY <1>1, <1>5, <1>6 DEF IdInv, Shapes
<1>8. NamesAgree'
  <2>1. \A k \in Circuits \ {c} : OnChannel(k) => circ[k].id # i
    BY <1>1, MuxParameters DEF IdInv, NamesAgree
  <2>2. \A j \in Ids \ {i} : owner[j] # c
    BY <1>1, MuxParameters DEF IdInv, NamesAgree
  <2> QED BY <1>1, <1>2, <1>5, <1>6, <2>1, <2>2
          DEF IdInv, Shapes, CircShape, NamesAgree, OnChannel
<1>9. SenderIsThere' /\ Closed'
  BY <1>1 DEF SenderIsThere, Closed, Idle
<1>10. IdsAreReserved'
  <2>1. \A k : k \in Items(mux'.destroy_queue) <=> k \in Items(mux.destroy_queue)
    BY <1>5
  <2>2. i \notin Items(mux.destroy_queue)
    BY <1>1, MuxParameters DEF IdInv, IdsAreReserved
  <2> QED BY <1>1, <1>5, <1>6, <2>1, <2>2, MuxParameters
          DEF IdInv, Shapes, IdsAreReserved, Idle
<1> QED BY <1>7, <1>8, <1>9, <1>10 DEF IdInv

\* A circuit that leaves the channel: what that does to ids and mux.
LEMMA LeavesIds ==
  ASSUME IdInv, NEW c \in Circuits, OnChannel(c), LeavesChannel(c),
         chan' = chan, Idle', DOMAIN callback' = {"step", "circ"},
         Idle \/ callback.circ = c,
         CircShape', circ'[c].id = "none", circ'[c].delete_pending = FALSE,
         \A k \in Circuits \ {c} : circ'[k] = circ[k]
  PROVE  IdInv'
<1> DEFINE i == circ[c].id
           t == circuitmux_detach_circuit(State, i)
<1>1. i \in Ids /\ i # "none" /\ owner[i] = c /\ c # "placeholder" /\ c # "none"
  BY MuxParameters DEF IdInv, Shapes, CircShape, NamesAgree, OnChannel
<1>2. /\ owner' = [owner EXCEPT ![i] = IF circ[c].delete_pending THEN "placeholder" ELSE "none"]
      /\ Becomes(t)
  BY DEF LeavesChannel, UnlinkedOwner
<1>3. Shape(State)
  BY DEF IdInv, Shapes, Shape, State
<1>4. /\ Shape(t)
      /\ \A j \in Ids : t.e[j].circ = IF j = i THEN "none" ELSE State.e[j].circ
      /\ t.m.destroy_queue = State.m.destroy_queue
      /\ t.m.last_cell_was_destroy = State.m.last_cell_was_destroy
  <2> HIDE DEF i
  <2> QED BY <1>1, <1>3, DetachClears
<1>5. /\ MuxShape(mux, entry)'
      /\ \A j \in Ids : entry'[j].circ = IF j = i THEN "none" ELSE entry[j].circ
      /\ mux'.destroy_queue = mux.destroy_queue
      /\ mux'.last_cell_was_destroy = mux.last_cell_was_destroy
  <2> HIDE DEF t, i
  <2> QED BY <1>2, <1>4 DEF Becomes, Shape, State, MuxShape
<1>6. Shapes'
  BY <1>1, <1>2, <1>5 DEF IdInv, Shapes, Idle
<1>7. /\ owner'[i] \in {"placeholder", "none"}
      /\ \A j \in Ids \ {i} : owner'[j] = owner[j] /\ owner[j] # c
  BY <1>1, <1>2 DEF IdInv, Shapes, NamesAgree
<1>8. NamesAgree'
  <2>1. \A k \in Circuits \ {c} : OnChannel(k) => circ[k].id \in Ids \ {i}
    BY <1>1 DEF IdInv, Shapes, CircShape, NamesAgree, OnChannel
  <2> HIDE DEF i
  <2> QED BY <1>1, <1>5, <1>7, <2>1, MuxParameters
          DEF IdInv, Shapes, NamesAgree, OnChannel
<1>9. SenderIsThere' /\ Closed'
  <2>1. chan \notin {"closed", "freed"}
    BY <1>1 DEF IdInv, Closed
  <2> QED BY <2>1 DEF SenderIsThere, Closed
<1>10. IdsAreReserved'
  <2>1. \A k : k \in Items(mux'.destroy_queue) <=> k \in Items(mux.destroy_queue)
    BY <1>5
  <2>2. i \in Items(mux.destroy_queue) <=> circ[c].delete_pending
    BY <1>1 DEF IdInv, IdsAreReserved
  <2>3. owner'[i] = "placeholder" <=> i \in Items(mux.destroy_queue)
    BY <1>1, <1>2, <2>2 DEF IdInv, Shapes
  <2>4. \A j \in Ids \ {i} : j \in Items(mux.destroy_queue) => owner[j] = "placeholder"
    BY <1>7 DEF IdInv, IdsAreReserved, Idle
  <2>5. \A j \in Items(mux.destroy_queue) : j \in Ids
    BY DEF IdInv, Shapes, Items
  <2>6. chan' # "freed"
    BY <1>1 DEF IdInv, Closed
  <2> HIDE DEF i, t
  <2>7. \A j \in Items(mux.destroy_queue) : owner'[j] = "placeholder"
    BY <1>7, <2>3, <2>4, <2>5
  <2>8. \A j \in Ids : owner'[j] = "placeholder" => j \in Items(mux.destroy_queue)
    BY <1>7, <2>3 DEF IdInv, IdsAreReserved
  <2>9. \A k \in Circuits : circ'[k].delete_pending => circ'[k].id \in Items(mux.destroy_queue)
    BY DEF IdInv, IdsAreReserved
  <2> QED BY <1>5, <2>1, <2>6, <2>7, <2>8, <2>9 DEF IdInv, IdsAreReserved
<1> QED BY <1>6, <1>8, <1>9, <1>10 DEF IdInv

LEMMA ProcessDestroyIds ==
  ASSUME IdInv, NEW c \in Circuits, ProcessDestroy(c)
  PROVE  IdInv'
<1>1. /\ CircShape' /\ circ'[c].id = "none" /\ circ'[c].delete_pending = FALSE
      /\ \A k \in Circuits \ {c} : circ'[k] = circ[k]
  BY DEF ProcessDestroy, IdInv, Shapes, CircShape, CircFields, NewCirc
<1> QED BY <1>1, LeavesIds DEF ProcessDestroy, Idle, IdInv, Shapes

LEMMA FreeWhileClosingIds ==
  ASSUME IdInv, NEW c \in Circuits, FreeWhileClosing(c)
  PROVE  IdInv'
<1>1. /\ CircShape' /\ circ'[c].id = "none" /\ circ'[c].delete_pending = FALSE
      /\ \A k \in Circuits \ {c} : circ'[k] = circ[k]
  BY DEF FreeWhileClosing, IdInv, Shapes, CircShape, CircFields, NewCirc
<1> QED BY <1>1, LeavesIds DEF FreeWhileClosing, Idle, IdInv, Shapes

LEMMA FinishDestroyIds ==
  ASSUME IdInv, FinishDestroy
  PROVE  IdInv'
<1> DEFINE c == callback.circ
<1>1. Idle' /\ DOMAIN callback' = {"step", "circ"} /\ ~Idle /\ chan' = chan
  BY DEF FinishDestroy, Idle
<1>2. CASE c = "none"
  <2>1. UNCHANGED <<circ, owner, entry, mux, chan>>
    BY <1>2 DEF FinishDestroy
  <2>2. Shapes' /\ NamesAgree' /\ Closed' /\ SenderIsThere'
    BY <1>1, <2>1 DEF IdInv, Shapes, CircShape, MuxShape, NamesAgree, OnChannel, Closed,
                      SenderIsThere, Idle
  <2>3. IdsAreReserved'
    <3>1. \A i \in Items(mux.destroy_queue) : owner[i] = "placeholder"
      BY <1>2, MuxParameters DEF IdInv, IdsAreReserved
    <3> QED BY <2>1, <3>1 DEF IdInv, IdsAreReserved, Items
  <2> QED BY <2>2, <2>3 DEF IdInv
<1>3. CASE c # "none"
  <2>1. c \in Circuits /\ OnChannel(c) /\ LeavesChannel(c)
        /\ circ' = [circ EXCEPT ![c] = NewCirc]
    BY <1>1, <1>3 DEF FinishDestroy, IdInv, SenderIsThere
  <2>2. /\ CircShape' /\ circ'[c].id = "none" /\ circ'[c].delete_pending = FALSE
        /\ \A k \in Circuits \ {c} : circ'[k] = circ[k]
    BY <2>1 DEF IdInv, Shapes, CircShape, CircFields, NewCirc
  <2> QED BY <1>1, <2>1, <2>2, LeavesIds
<1> QED BY <1>2, <1>3

-----------------------------------------------------------------------------
(* DESTROYs that are queued and written                                     *)

LEMMA AppendIsDistinct ==
  ASSUME NEW q \in Seq(Ids), Distinct(q), NEW i \in Ids, i \notin Items(q)
  PROVE  /\ Append(q, i) \in Seq(Ids)
         /\ Distinct(Append(q, i))
         /\ \A k : k \in Items(Append(q, i)) <=> k \in Items(q) \/ k = i
BY AppendHolds

LEMMA TailIsDistinct ==
  ASSUME NEW q \in Seq(Ids), q # <<>>, Distinct(q)
  PROVE  /\ Tail(q) \in Seq(Ids)
         /\ Distinct(Tail(q))
         /\ Head(q) \in Ids
         /\ \A k : k \in Items(Tail(q)) <=> k \in Items(q) /\ k # Head(q)
<1> DEFINE n == Len(q)
           r == Tail(q)
<1>1. n \in Nat \ {0} /\ r \in Seq(Ids) /\ Len(r) = n - 1 /\ Head(q) = q[1]
      /\ Head(q) \in Ids /\ \A a \in 1..(n - 1) : r[a] = q[a + 1]
  OBVIOUS
<1> HIDE DEF r
<1>2. Distinct(r)
  <2> SUFFICES ASSUME NEW a \in 1..(n - 1), NEW b \in 1..(n - 1), r[a] = r[b]
               PROVE  a = b
    BY <1>1 DEF Distinct
  <2>1. a + 1 \in 1..n /\ b + 1 \in 1..n /\ q[a + 1] = q[b + 1]
    BY <1>1
  <2>2. a + 1 = b + 1
    BY <2>1 DEF Distinct
  <2> QED BY <2>2
<1>3. ASSUME NEW k PROVE k \in Items(r) <=> k \in Items(q) /\ k # Head(q)
  <2>1. ASSUME k \in Items(r) PROVE k \in Items(q) /\ k # Head(q)
    <3>1. PICK a \in 1..(n - 1) : r[a] = k
      BY <1>1, <2>1 DEF Items
    <3>2. a + 1 \in 1..n /\ 1 \in 1..n /\ q[a + 1] = k /\ a + 1 # 1
      BY <1>1, <3>1
    <3> QED BY <1>1, <3>2 DEF Items, Distinct
  <2>2. ASSUME k \in Items(q), k # Head(q) PROVE k \in Items(r)
    <3>1. PICK a \in 1..n : q[a] = k
      BY <2>2 DEF Items
    <3>2. a # 1
      BY <1>1, <2>2, <3>1
    <3>3. a - 1 \in 1..(n - 1) /\ r[a - 1] = q[(a - 1) + 1] /\ (a - 1) + 1 = a
      BY <1>1, <3>2
    <3> QED BY <1>1, <3>1, <3>3 DEF Items
  <2> QED BY <2>1, <2>2
<1> QED BY <1>1, <1>2, <1>3 DEF r

LEMMA SendDestroyIds ==
  ASSUME IdInv, NEW c \in Circuits, SendDestroy(c)
  PROVE  IdInv'
<1> DEFINE i == circ[c].id
           q == mux.destroy_queue
           u == update_circuit_on_cmux(State, c, circ')
<1>1. /\ Idle /\ OnChannel(c) /\ chan = "open" /\ chan' = chan /\ owner' = owner
      /\ callback' \in {[step |-> "prime", circ |-> c], [step |-> "finish", circ |-> c]}
      /\ Becomes(AppendDestroy(u, i))
  BY DEF SendDestroy, Continue
<1>2. i \in Ids /\ i \notin Items(q) /\ owner[i] = c /\ q \in Seq(Ids) /\ Distinct(q)
  BY <1>1, OwnIdIsNotWaiting DEF IdInv, Shapes, NamesAgree, IdsAreReserved, Distinct
<1>3. Keeps(State, u)
  <2>1. Shape(State)
    BY DEF IdInv, Shapes, Shape, State
  <2> QED BY <2>1, UpdateKeeps
<1>4. /\ MuxShape(mux, entry)'
      /\ \A k \in Ids : entry'[k].circ = entry[k].circ
      /\ mux'.destroy_queue = Append(q, i)
      /\ mux'.last_cell_was_destroy = mux.last_cell_was_destroy
  <2> HIDE DEF u, i
  <2> QED BY <1>1, <1>3
          DEF Becomes, AppendDestroy, Keeps, Shape, MuxShape, MuxFields, State
<1>5. /\ CircShape'
      /\ \A k \in Circuits : circ'[k].id = circ[k].id
      /\ \A k \in Circuits \ {c} : circ'[k] = circ[k]
  BY DEF SendDestroy, IdInv, Shapes, CircShape, CircFields
<1>d. circ'[c].delete_pending = TRUE
  BY DEF SendDestroy, IdInv, Shapes, CircShape, CircFields
<1> HIDE DEF i, q, u
<1>6. /\ Append(q, i) \in Seq(Ids)
      /\ Distinct(Append(q, i))
      /\ \A k : k \in Items(Append(q, i)) <=> k \in Items(q) \/ k = i
  BY <1>2, AppendIsDistinct
<1>7. callback'.circ = c /\ ~Idle' /\ DOMAIN callback' = {"step", "circ"}
      /\ callback'.step \in {"idle", "prime", "finish"}
  BY <1>1 DEF Idle
<1>8. Shapes'
  BY <1>1, <1>4, <1>5, <1>6, <1>7 DEF IdInv, Shapes
<1>9. NamesAgree'
  BY <1>1, <1>4, <1>5 DEF IdInv, Shapes, NamesAgree, OnChannel
<1>10. SenderIsThere' /\ Closed'
  BY <1>1, <1>5, <1>7 DEF SenderIsThere, OnChannel, Closed
<1>11. IdsAreReserved'
  <2>1. \A k \in Items(q) : owner[k] = "placeholder"
    BY <1>1 DEF IdInv, IdsAreReserved, Idle, q
  <2>2. \A k \in Ids : owner[k] = "placeholder" => k \in Items(q)
    BY DEF IdInv, IdsAreReserved, q
  <2>3. \A k \in Circuits : circ[k].delete_pending => circ[k].id \in Items(q)
    BY DEF IdInv, IdsAreReserved, q
  <2>4. circ[c].id = i
    BY DEF i
  <2> QED BY <1>1, <1>2, <1>4, <1>5, <1>d, <1>6, <1>7, <2>1, <2>2, <2>3, <2>4
          DEF IdsAreReserved, Distinct, Idle
<1> QED BY <1>8, <1>9, <1>10, <1>11 DEF IdInv

LEMMA RefuseCreateIds ==
  ASSUME IdInv, NEW i \in Ids, RefuseCreate(i)
  PROVE  IdInv'
<1> DEFINE q == mux.destroy_queue
<1>1. /\ Idle /\ chan = "open" /\ chan' = chan /\ circ' = circ
      /\ owner[i] = "none" /\ owner' = [owner EXCEPT ![i] = "placeholder"]
      /\ Becomes(AppendDestroy(State, i))
      /\ callback' \in {[step |-> "prime", circ |-> "none"],
                        [step |-> "finish", circ |-> "none"]}
  BY DEF RefuseCreate, Continue
<1>2. i \notin Items(q) /\ q \in Seq(Ids) /\ Distinct(q)
  BY <1>1, MuxParameters DEF IdInv, Shapes, IdsAreReserved, Distinct
<1>4. /\ MuxShape(mux, entry)'
      /\ \A k \in Ids : entry'[k].circ = entry[k].circ
      /\ mux'.destroy_queue = Append(q, i)
      /\ mux'.last_cell_was_destroy = mux.last_cell_was_destroy
  BY <1>1 DEF IdInv, Shapes, Becomes, AppendDestroy, MuxShape, MuxFields, State
<1> HIDE DEF q
<1>6. /\ Append(q, i) \in Seq(Ids)
      /\ Distinct(Append(q, i))
      /\ \A k : k \in Items(Append(q, i)) <=> k \in Items(q) \/ k = i
  BY <1>2, AppendIsDistinct
<1>7. callback'.circ = "none" /\ ~Idle' /\ DOMAIN callback' = {"step", "circ"}
      /\ callback'.step \in {"idle", "prime", "finish"}
  BY <1>1 DEF Idle
<1>8. Shapes'
  BY <1>1, <1>4, <1>6, <1>7 DEF IdInv, Shapes, CircShape
<1>9. NamesAgree'
  BY <1>1, <1>4, MuxParameters DEF IdInv, Shapes, CircShape, NamesAgree, OnChannel
<1>10. SenderIsThere' /\ Closed'
  BY <1>1, <1>7 DEF SenderIsThere, Closed
<1>11. IdsAreReserved'
  <2>1. \A k \in Items(q) : owner[k] = "placeholder"
    BY <1>1 DEF IdInv, IdsAreReserved, Idle, q
  <2>2. \A k \in Ids : owner[k] = "placeholder" => k \in Items(q)
    BY DEF IdInv, IdsAreReserved, q
  <2>3. \A k \in Circuits : circ[k].delete_pending => circ[k].id \in Items(q)
    BY DEF IdInv, IdsAreReserved, q
  <2>4. \A k \in Items(q) : k \in Ids
    BY <1>2 DEF Items
  <2>5. \A k \in Items(q) \union {i} : owner'[k] = "placeholder"
    BY <1>1, <2>1, <2>4 DEF IdInv, Shapes
  <2>6. \A k \in Ids : owner'[k] = "placeholder" => k \in Items(q) \union {i}
    BY <1>1, <2>2 DEF IdInv, Shapes
  <2> QED BY <1>1, <1>4, <1>6, <2>3, <2>5, <2>6 DEF IdsAreReserved, Distinct
<1> QED BY <1>8, <1>9, <1>10, <1>11 DEF IdInv

LEMMA WriteDestroyIds ==
  ASSUME IdInv, WriteDestroy
  PROVE  IdInv'
<1> DEFINE q == mux.destroy_queue
           h == Head(q)
<1>1. /\ q # <<>> /\ chan = "open" /\ chan' = chan /\ entry' = entry
      /\ channel_note_destroy_not_pending(h)
      /\ mux' = [mux EXCEPT !.destroy_queue = Tail(q), !.last_cell_was_destroy = TRUE]
  BY DEF WriteDestroy, DestroyTurn, Flushing
<1>2. /\ DOMAIN callback' = {"step", "circ"}
      /\ callback'.step \in {"idle", "prime", "finish"}
      /\ callback'.circ = callback.circ /\ (Idle' <=> Idle)
  BY DEF WriteDestroy, Wrote, Flushing, Idle, IdInv, Shapes
<1>3. q \in Seq(Ids) /\ Distinct(q)
  BY DEF IdInv, Shapes, IdsAreReserved, Distinct
<1>4. /\ MuxShape(mux, entry)' /\ mux'.destroy_queue = Tail(q)
      /\ mux'.last_cell_was_destroy = TRUE
  BY <1>1 DEF IdInv, Shapes, MuxShape, MuxFields
<1> HIDE DEF q, h
<1>5. /\ Tail(q) \in Seq(Ids) /\ Distinct(Tail(q)) /\ h \in Ids /\ h \in Items(q)
      /\ \A k : k \in Items(Tail(q)) <=> k \in Items(q) /\ k # h
  <2>1. h \in Items(q)
    <3>1. 1 \in 1..Len(q) /\ q[1] = h
      BY <1>1, <1>3 DEF h
    <3> QED BY <3>1 DEF Items
  <2> QED BY <1>1, <1>3, <2>1, TailIsDistinct DEF h
<1>a. \A k \in Items(q) : k \in Ids
  BY <1>3 DEF Items
<1>b. \A k \in Circuits : circ[k].delete_pending => circ[k].id \in Items(q)
  BY DEF IdInv, IdsAreReserved, q
<1>c. \A k \in Items(q) :
        \/ owner[k] = "placeholder"
        \/ owner[k] \in Circuits /\ ~Idle /\ callback.circ = owner[k]
           /\ circ[owner[k]].delete_pending
  BY DEF IdInv, IdsAreReserved, Idle, q
<1>d. \A k \in Ids : owner[k] = "placeholder" => k \in Items(q)
  BY DEF IdInv, IdsAreReserved, q
<1>e. \A k \in Circuits : circ[k].id \in Ids => owner[circ[k].id] = k
  BY MuxParameters DEF IdInv, NamesAgree, OnChannel
<1>6. CASE owner[h] \in Circuits
  <2>1. owner' = owner /\ circ' = [circ EXCEPT ![owner[h]].delete_pending = FALSE]
    BY <1>1, <1>6 DEF channel_note_destroy_not_pending
  <2>2. /\ CircShape'
        /\ \A k \in Circuits : circ'[k].id = circ[k].id
        /\ circ'[owner[h]].delete_pending = FALSE
        /\ \A k \in Circuits \ {owner[h]} : circ'[k] = circ[k]
    BY <1>6, <2>1 DEF IdInv, Shapes, CircShape, CircFields
  <2>3. circ[owner[h]].id = h
    BY <1>5, <1>6 DEF IdInv, NamesAgree
  <2>4. Shapes'
    BY <1>1, <1>2, <1>4, <1>5, <2>1, <2>2 DEF IdInv, Shapes
  <2>5. NamesAgree' /\ SenderIsThere' /\ Closed'
    BY <1>1, <1>2, <2>1, <2>2 DEF IdInv, Shapes, NamesAgree, SenderIsThere, Closed, OnChannel
  <2>6. IdsAreReserved'
    <3>1. \A k \in Ids \ {h} : owner[k] \in Circuits => owner[k] # owner[h]
      BY <2>3 DEF IdInv, NamesAgree
    <3>2. \A k \in Items(Tail(q)) :
            \/ owner'[k] = "placeholder"
            \/ owner'[k] \in Circuits /\ ~Idle /\ callback.circ = owner'[k]
               /\ circ'[owner'[k]].delete_pending
      BY <1>5, <1>a, <1>c, <2>1, <2>2, <3>1
    <3>3. \A k \in Ids : owner'[k] = "placeholder" => k \in Items(Tail(q))
      BY <1>5, <1>6, <1>d, <2>1, MuxParameters
    <3>4. \A k \in Circuits : circ'[k].delete_pending => circ'[k].id \in Items(Tail(q))
      BY <1>5, <1>a, <1>b, <1>e, <2>2
    <3> QED BY <1>1, <1>2, <1>4, <1>5, <3>2, <3>3, <3>4 DEF IdsAreReserved, Distinct, Idle
  <2> QED BY <2>4, <2>5, <2>6 DEF IdInv
<1>7. CASE owner[h] \notin Circuits
  <2>1. owner' = [owner EXCEPT ![h] = "none"] /\ circ' = circ
    BY <1>1, <1>7 DEF channel_note_destroy_not_pending
  <2>2. owner' \in [Ids -> Circuits \union {"placeholder", "none"}] /\ owner'[h] = "none"
        /\ \A k \in Ids \ {h} : owner'[k] = owner[k]
    BY <1>5, <2>1 DEF IdInv, Shapes
  <2>3. Shapes'
    BY <1>1, <1>2, <1>4, <1>5, <2>1, <2>2 DEF IdInv, Shapes, CircShape
  <2>4. NamesAgree'
    BY <1>1, <1>5, <1>7, <2>1, <2>2, <1>e, MuxParameters
       DEF IdInv, Shapes, CircShape, NamesAgree, OnChannel
  <2>5. SenderIsThere' /\ Closed'
    BY <1>1, <1>2, <2>1 DEF IdInv, SenderIsThere, Closed, OnChannel
  <2>6. IdsAreReserved'
    <3>1. \A k \in Items(Tail(q)) :
            \/ owner'[k] = "placeholder"
            \/ owner'[k] \in Circuits /\ ~Idle /\ callback.circ = owner'[k]
               /\ circ'[owner'[k]].delete_pending
      BY <1>5, <1>a, <1>c, <2>1, <2>2
    <3>2. \A k \in Ids : owner'[k] = "placeholder" => k \in Items(Tail(q))
      BY <1>5, <1>d, <2>2
    <3>3. \A k \in Circuits : circ'[k].delete_pending => circ'[k].id \in Items(Tail(q))
      BY <1>5, <1>7, <1>a, <1>b, <1>e, <2>1
    <3> QED BY <1>1, <1>2, <1>4, <1>5, <3>1, <3>2, <3>3 DEF IdsAreReserved, Distinct, Idle
  <2> QED BY <2>3, <2>4, <2>5, <2>6 DEF IdInv
<1> QED BY <1>6, <1>7

LEMMA ChannelClosedIds ==
  ASSUME IdInv, ChannelClosed
  PROVE  IdInv'
<1> DEFINE q == mux.destroy_queue
           found == {i \in Ids : entry[i].circ # "none" /\ owner[i] \in Circuits}
           gone == {owner[i] : i \in found}
           rest == remove_all_of(mux.heap, found)
<1>1. /\ Idle /\ chan = "closing" /\ chan' = "closed" /\ callback' = callback
      /\ circ' = [c \in Circuits |->
                    IF c \in gone THEN [NewCirc EXCEPT !.marked = TRUE] ELSE circ[c]]
      /\ owner' = [i \in Ids |-> IF owner[i] \in gone THEN "none" ELSE owner[i]]
      /\ entry' = [i \in Ids |-> Detached]
  BY DEF ChannelClosed
<1>2. mux' = [mux EXCEPT !.n_active = 0, !.n_cells = 0, !.heap = rest]
  BY Zenon DEF ChannelClosed
<1>3. /\ MuxShape(mux, entry)' /\ \A i \in Ids : entry'[i].circ = "none"
      /\ mux'.destroy_queue = q
      /\ mux'.last_cell_was_destroy = mux.last_cell_was_destroy
  <2> HIDE DEF rest
  <2> QED BY <1>1, <1>2 DEF IdInv, Shapes, MuxShape, MuxFields, EntryFields, Detached
<1> HIDE DEF rest
<1>4. \A i \in Ids : owner[i] \in Circuits <=> owner[i] \in gone
  <2>1. \A i \in Ids : owner[i] \in Circuits => i \in found
    BY MuxParameters DEF IdInv, NamesAgree
  <2> QED BY <2>1
<1>5. \A c \in Circuits : c \in gone <=> OnChannel(c)
  <2>1. ASSUME NEW c \in Circuits, OnChannel(c) PROVE c \in gone
    <3>1. circ[c].id \in Ids /\ owner[circ[c].id] = c
      BY <2>1 DEF IdInv, Shapes, CircShape, NamesAgree, OnChannel
    <3> QED BY <1>4, <3>1
  <2>2. ASSUME NEW c \in Circuits, c \in gone PROVE OnChannel(c)
    BY <2>2, MuxParameters DEF IdInv, NamesAgree, OnChannel
  <2> QED BY <2>1, <2>2
<1> HIDE DEF gone, found, q
<1>6. /\ CircShape' /\ \A c \in Circuits : circ'[c].id = "none"
      /\ \A c \in Circuits : circ'[c].delete_pending => circ[c].delete_pending
                                                     /\ circ'[c].id = circ[c].id
  BY <1>1, <1>5 DEF IdInv, Shapes, CircShape, CircFields, NewCirc, OnChannel
<1>7. /\ owner' \in [Ids -> {"placeholder", "none"}]
      /\ \A i \in Ids : owner'[i] = "placeholder" <=> owner[i] = "placeholder"
  BY <1>1, <1>4, MuxParameters DEF IdInv, Shapes
<1>8. Shapes'
  BY <1>1, <1>3, <1>6, <1>7 DEF IdInv, Shapes, q
<1>9. NamesAgree' /\ SenderIsThere' /\ Closed'
  <2>1. \A i \in Ids : owner'[i] \notin Circuits
    BY <1>7, MuxParameters
  <2> QED BY <1>1, <1>3, <1>6, <2>1
          DEF NamesAgree, SenderIsThere, Closed, OnChannel, Idle
<1>10. IdsAreReserved'
  <2>1. \A i \in Items(q) : i \in Ids
    BY DEF IdInv, Shapes, Items, q
  <2>2. \A i \in Items(q) : owner[i] = "placeholder"
    BY <1>1 DEF IdInv, IdsAreReserved, Idle, q
  <2>3. \A i \in Ids : owner[i] = "placeholder" => i \in Items(q)
    BY DEF IdInv, IdsAreReserved, q
  <2>4. \A k \in Circuits : circ[k].delete_pending => circ[k].id \in Items(q)
    BY DEF IdInv, IdsAreReserved, q
  <2>5. Distinct(q)
    BY DEF IdInv, IdsAreReserved, Distinct, q
  <2> QED BY <1>1, <1>3, <1>6, <1>7, <2>1, <2>2, <2>3, <2>4, <2>5
          DEF IdsAreReserved, Distinct
<1> QED BY <1>8, <1>9, <1>10 DEF IdInv

LEMMA FreeChannelIds ==
  ASSUME IdInv, FreeChannel
  PROVE  IdInv'
<1> DEFINE q == mux.destroy_queue
<1>1. /\ Idle /\ chan = "closed" /\ chan' = "freed" /\ callback' = callback
      /\ circ' = circ /\ entry' = entry
      /\ owner' = [i \in Ids |-> IF i \in Items(q) THEN "none" ELSE owner[i]]
      /\ mux' = [mux EXCEPT !.destroy_queue = <<>>]
  BY DEF FreeChannel, UsableAgain
<1>2. \A i \in Ids : owner[i] \notin Circuits
  BY <1>1 DEF IdInv, Closed
<1>3. \A i \in Ids : owner'[i] = "none"
  <2> SUFFICES ASSUME NEW i \in Ids, i \notin Items(q) PROVE owner[i] = "none"
    BY <1>1
  <2> QED BY <1>2 DEF IdInv, IdsAreReserved, Shapes
<1>4. \A c \in Circuits : circ[c].id = "none" /\ circ[c].delete_pending = FALSE
  <2>1. \A c \in Circuits : ~OnChannel(c)
    BY <1>2 DEF IdInv, Shapes, CircShape, NamesAgree, OnChannel
  <2>2. \A i \in Items(q) : i \in Ids
    BY DEF IdInv, Shapes, Items
  <2> QED BY <2>1, <2>2, MuxParameters
          DEF IdInv, Shapes, CircShape, IdsAreReserved, OnChannel
<1>5. /\ MuxShape(mux, entry)' /\ mux'.destroy_queue = <<>>
      /\ mux'.last_cell_was_destroy = mux.last_cell_was_destroy
  BY <1>1 DEF IdInv, Shapes, MuxShape, MuxFields
<1>6. <<>> \in Seq(Ids)
  OBVIOUS
<1>7. owner' \in [Ids -> Circuits \union {"placeholder", "none"}]
  BY <1>1, <1>3
<1>8. Shapes'
  BY <1>1, <1>5, <1>6, <1>7 DEF IdInv, Shapes, CircShape
<1>9. NamesAgree' /\ SenderIsThere' /\ Closed'
  BY <1>1, <1>2, <1>3, <1>4, <1>5, MuxParameters
     DEF IdInv, NamesAgree, SenderIsThere, Closed, OnChannel, Idle
<1>10. IdsAreReserved'
  BY <1>1, <1>3, <1>4, <1>5 DEF IdsAreReserved, Items
<1> QED BY <1>8, <1>9, <1>10 DEF IdInv

-----------------------------------------------------------------------------
(* The ids and the turns: the theorems                                      *)

LEMMA NextIdInv ==
  ASSUME IdInv, [Next]_vars
  PROVE  IdInv'
<1>1. ASSUME NEW c \in Circuits, CircuitStep(c) PROVE IdInv'
  BY <1>1, UseIdIds, ReleaseCellsIds, AppendCellIds, MarkForCloseIds, ProcessDestroyIds,
     SendDestroyIds, FreeUnlinkedIds, FreeWhileClosingIds DEF CircuitStep
<1>2. ASSUME NEW i \in Ids, RefuseCreate(i) PROVE IdInv'
  BY <1>2, RefuseCreateIds
<1>3. CASE FinishDestroy \/ WriteDestroy \/ WriteRelay \/ SkipEmpty
  BY <1>3, FinishDestroyIds, WriteDestroyIds, WriteRelayIds, SkipEmptyIds
<1>4. CASE ChannelClosed \/ FreeChannel
  BY <1>4, ChannelClosedIds, FreeChannelIds
<1>5. CASE CloseChannel \/ Tick \/ OtherMuxSends \/ UNCHANGED vars
  BY <1>5, TimeIds DEF CloseChannel, Tick, OtherMuxSends, vars
<1> QED BY <1>1, <1>2, <1>3, <1>4, <1>5 DEF Next

\* However circuits open, close and run out of memory and whenever the channel
\* writes or goes away, the ids with a DESTROY in the queue are those withheld
\* from new circuits (circuitmux_append_destroy_cell,
\* channel_note_destroy_not_pending, circuitmux_mark_destroyed_circids_usable).
THEOREM IdsReserved == Spec => []IdsAreReserved
<1>1. Init => IdInv
  BY InitIdInv
<1>2. IdInv /\ [Next]_vars => IdInv'
  BY NextIdInv
<1>3. IdInv => IdsAreReserved
  BY DEF IdInv
<1> QED BY <1>1, <1>2, <1>3, PTL DEF Spec

\* The id map, the circuits and the entries of the mux always name each other,
\* which circuitmux_detach_all_circuits takes for granted.
THEOREM OwnersAgree == Spec => []NamesAgree
<1>1. Init => IdInv
  BY InitIdInv
<1>2. IdInv /\ [Next]_vars => IdInv'
  BY NextIdInv
<1>3. IdInv => NamesAgree
  BY DEF IdInv
<1> QED BY <1>1, <1>2, <1>3, PTL DEF Spec

LEMMA NextTurns ==
  ASSUME IdInv, TurnsKept, [Next]_vars
  PROVE  TurnsKept'
<1>1. ASSUME overtaken' = overtaken,
             mux'.last_cell_was_destroy = mux.last_cell_was_destroy
      PROVE  TurnsKept'
  BY <1>1 DEF TurnsKept
<1> DEFINE Same == mux'.last_cell_was_destroy = mux.last_cell_was_destroy
<1>s. Shape(State)
  BY DEF IdInv, Shapes, Shape, State
<1>2. ASSUME NEW c \in Circuits, CircuitStep(c) PROVE TurnsKept'
  <2>1. overtaken' = overtaken
    BY <1>2 DEF CircuitStep, UseId, ReleaseCells, AppendCell, MarkForClose, ProcessDestroy,
                SendDestroy, FreeUnlinked, FreeWhileClosing
  <2>2. ASSUME LeavesChannel(c), OnChannel(c) PROVE Same
    <3>1. circ[c].id \in Ids
      BY <2>2 DEF IdInv, Shapes, CircShape, OnChannel
    <3> QED BY <1>s, <2>2, <3>1, DetachClears DEF LeavesChannel, Becomes, State
  <2>3. ASSUME NEW i \in Ids, NEW n, UseId(c, i, n) PROVE Same
    <3>1. State.e[i].circ = "none"
      BY <2>3, MuxParameters DEF UseId, IdInv, NamesAgree, State
    <3> QED BY <1>s, <2>3, <3>1, AttachSets DEF UseId, Becomes, State
  <2>4. ASSUME NEW n, ReleaseCells(c, n) PROVE Same
    BY <1>s, <2>4, UpdateKeeps DEF ReleaseCells, Becomes, Keeps, State
  <2>5. ASSUME NEW killed \in SUBSET Circuits, AppendCell(c, killed) PROVE Same
    <3>1. PICK t : Keeps(State, t) /\ Becomes(t)
      <4>1. Keeps(State, update_circuit_on_cmux(State, c, circ')) /\ Keeps(State, State)
        BY <1>s, UpdateKeeps DEF Keeps
      <4> QED BY <2>5, <4>1 DEF AppendCell
    <3> QED BY <3>1, MuxStays
  <2>6. ASSUME SendDestroy(c) PROVE Same
    <3> DEFINE u == update_circuit_on_cmux(State, c, circ')
    <3>1. Keeps(State, u)
      BY <1>s, UpdateKeeps
    <3>2. Becomes(AppendDestroy(u, circ[c].id))
      BY <2>6 DEF SendDestroy
    <3> HIDE DEF u
    <3> QED BY <3>1, <3>2 DEF Becomes, AppendDestroy, Keeps, Shape, MuxShape, MuxFields, State
  <2>7. CASE MarkForClose(c) \/ FreeUnlinked(c)
    BY <1>1, <2>1, <2>7 DEF MarkForClose, FreeUnlinked
  <2>8. CASE ProcessDestroy(c) \/ FreeWhileClosing(c)
    BY <1>1, <2>1, <2>2, <2>8 DEF ProcessDestroy, FreeWhileClosing
  <2> HIDE DEF Same
  <2> QED BY <1>1, <1>2, <2>1, <2>3, <2>4, <2>5, <2>6, <2>7, <2>8 DEF CircuitStep, Same
<1>3. ASSUME NEW i \in Ids, RefuseCreate(i) PROVE TurnsKept'
  BY <1>1, <1>3 DEF RefuseCreate, Becomes, AppendDestroy, State, IdInv, Shapes, MuxShape,
                    MuxFields
<1>4. CASE FinishDestroy
  <2>1. overtaken' = overtaken
    BY <1>4 DEF FinishDestroy
  <2>2. CASE callback.circ = "none"
    BY <1>1, <1>4, <2>1, <2>2 DEF FinishDestroy
  <2>3. CASE callback.circ # "none"
    <3>1. LeavesChannel(callback.circ) /\ circ[callback.circ].id \in Ids
      BY <1>4, <2>3 DEF FinishDestroy, IdInv, SenderIsThere, Shapes, CircShape, OnChannel, Idle
    <3>2. Same
      BY <1>s, <3>1, DetachClears DEF LeavesChannel, Becomes, State
    <3> QED BY <1>1, <2>1, <3>2
  <2> QED BY <2>2, <2>3
<1>5. CASE WriteDestroy
  BY <1>5 DEF WriteDestroy, TurnsKept
<1>6. CASE WriteRelay
  <2>1. mux.destroy_queue = <<>> \/ mux.last_cell_was_destroy
    BY <1>6 DEF WriteRelay, RelayTurn, DestroyTurn
  <2>2. overtaken' \in {0, 1}
    BY <1>6, <2>1 DEF WriteRelay, TurnsKept
  <2> DEFINE start == [State EXCEPT !.m.last_cell_was_destroy = FALSE]
             xmit == circuitmux_notify_xmit_cells(start, Picked)
             t == circuitmux_set_num_cells(xmit, Picked, circ[entry[Picked].circ].queue - 1)
  <2>3. Shape(start) /\ start.m.last_cell_was_destroy = FALSE
    BY <1>s DEF Shape, MuxShape, MuxFields
  <2>4. Becomes(t)
    BY <1>6 DEF WriteRelay
  <2> HIDE DEF start
  <2>5. Keeps(start, xmit)
    BY <2>3, XmitKeeps
  <2> HIDE DEF xmit
  <2>6. Keeps(start, t)
    BY <2>5, SetNumCellsKeeps, KeepsTransitive DEF Keeps
  <2> HIDE DEF t
  <2> QED BY <2>2, <2>3, <2>4, <2>6 DEF Becomes, Keeps, TurnsKept
<1>7. CASE SkipEmpty
  <2> DEFINE start == [State EXCEPT !.m.last_cell_was_destroy = FALSE]
             t == circuitmux_set_num_cells(start, Picked, 0)
  <2>1. Shape(start) /\ start.m.last_cell_was_destroy = FALSE
    BY <1>s DEF Shape, MuxShape, MuxFields
  <2>2. Becomes(t) /\ overtaken' = overtaken
    BY <1>7 DEF SkipEmpty
  <2> HIDE DEF start
  <2>3. Keeps(start, t)
    BY <2>1, SetNumCellsKeeps
  <2> HIDE DEF t
  <2> QED BY <2>1, <2>2, <2>3 DEF Becomes, Keeps, TurnsKept
<1>8. CASE ChannelClosed
  <2> DEFINE rest == remove_all_of(mux.heap,
                       {k \in Ids : entry[k].circ # "none" /\ owner[k] \in Circuits})
  <2>1. mux' = [mux EXCEPT !.n_active = 0, !.n_cells = 0, !.heap = rest]
    BY <1>8, Zenon DEF ChannelClosed
  <2>2. overtaken' = overtaken
    BY <1>8 DEF ChannelClosed
  <2> HIDE DEF rest
  <2>3. Same
    BY <2>1 DEF IdInv, Shapes, MuxShape, MuxFields
  <2> QED BY <1>1, <2>2, <2>3
<1>9. CASE FreeChannel
  <2>1. Same /\ overtaken' = overtaken
    BY <1>9 DEF FreeChannel, IdInv, Shapes, MuxShape, MuxFields
  <2> QED BY <1>1, <2>1
<1>10. CASE CloseChannel \/ Tick \/ OtherMuxSends \/ UNCHANGED vars
  BY <1>1, <1>10 DEF CloseChannel, Tick, OtherMuxSends, vars
<1> QED BY <1>2, <1>3, <1>4, <1>5, <1>6, <1>7, <1>8, <1>9, <1>10 DEF Next

\* Between two DESTROY cells of a queue at most one relay cell is written,
\* whatever circuits_handle_oom or a detach does to the circuits in between
\* (circuitmux_get_first_active_circuit).
THEOREM DestroysTakeTurns == Spec => []DestroysAlternate
<1>1. Init => IdInv /\ TurnsKept
  BY InitIdInv
<1>2. IdInv /\ TurnsKept /\ [Next]_vars => (IdInv /\ TurnsKept)'
  BY NextIdInv, NextTurns
<1>3. TurnsKept => DestroysAlternate
  BY DEF TurnsKept, DestroysAlternate
<1> QED BY <1>1, <1>2, <1>3, PTL DEF Spec

-----------------------------------------------------------------------------
(* The heap and the counters: what each operation of mux and policy does to  *)
(* them                                                                     *)

ActiveIn(e) == {i \in Ids : e[i].cell_count > 0}

\* The heap holds the ids of A, each at the tick of the heap.
HeapHolds(s, A) ==
  /\ Shape(s)
  /\ s.m.heap \in Seq(Ids) /\ Distinct(s.m.heap)
  /\ Items(s.m.heap) = A
  /\ \A i \in A : s.e[i].adjusted = s.m.recalibrated

CellsCounted(s) ==
  /\ \A i \in Ids : s.e[i].cell_count \in Nat
  /\ IsFiniteSet(Counted(s.e))
  /\ s.m.n_cells = Cardinality(Counted(s.e))

\* What circuitmux_get_first_active_circuit, the policy and the destructor
\* assert of a mux.
MuxCounts(s) ==
  /\ HeapHolds(s, ActiveIn(s.e))
  /\ s.m.n_active = Len(s.m.heap)
  /\ CellsCounted(s)

\* From s to t no counter changes.
SameCounters(s, t) ==
  /\ \A i \in Ids : t.e[i].cell_count = s.e[i].cell_count
  /\ t.m.n_cells = s.m.n_cells
  /\ t.m.n_active = s.m.n_active

LEMMA AddToHeap ==
  ASSUME NEW s, NEW A \in SUBSET Ids, HeapHolds(s, A), NEW i \in Ids, i \notin A
  PROVE  LET t == add_cell_ewma(s, i)
         IN  /\ HeapHolds(t, A \union {i})
             /\ Len(t.m.heap) = Len(s.m.heap) + 1
             /\ SameCounters(s, t)
<1> DEFINE e == [s.e EXCEPT ![i].weight = Scaled(@, s.e[i].adjusted, s.m.recalibrated),
                            ![i].adjusted = s.m.recalibrated]
           h == smartlist_pqueue_add(s.m.heap, Key(e), i)
           t == add_cell_ewma(s, i)
<1>1. t = [s EXCEPT !.e = e, !.m.heap = h]
  BY DEF add_cell_ewma
<1>2. /\ h \in Seq(Ids) /\ Len(h) = Len(s.m.heap) + 1
      /\ Items(h) = A \union {i} /\ Distinct(h)
  <2> HIDE DEF e
  <2> QED BY AddHolds DEF HeapHolds
<1> HIDE DEF h
<1>3. /\ \A j \in Ids : /\ e[j].cell_count = s.e[j].cell_count
                        /\ DOMAIN e[j] = EntryFields
                        /\ e[j].adjusted = IF j = i THEN s.m.recalibrated
                                           ELSE s.e[j].adjusted
      /\ e = [j \in Ids |-> e[j]]
  BY DEF HeapHolds, Shape, MuxShape, EntryFields
<1> HIDE DEF e
<1>4. /\ t.e = e /\ t.m.heap = h /\ t.m.recalibrated = s.m.recalibrated
      /\ t.m.n_cells = s.m.n_cells /\ t.m.n_active = s.m.n_active
      /\ DOMAIN t = {"m", "e"} /\ DOMAIN t.m = MuxFields
  BY <1>1 DEF HeapHolds, Shape, MuxShape, MuxFields
<1> HIDE DEF t
<1> QED BY <1>2, <1>3, <1>4 DEF HeapHolds, Shape, MuxShape, SameCounters, t

LEMMA RemoveFromHeap ==
  ASSUME NEW s, NEW A \in SUBSET Ids, HeapHolds(s, A), NEW i \in A
  PROVE  LET t == remove_cell_ewma(s, i)
         IN  /\ HeapHolds(t, A \ {i})
             /\ Len(t.m.heap) = Len(s.m.heap) - 1
             /\ SameCounters(s, t)
<1> DEFINE h == smartlist_pqueue_remove(s.m.heap, Key(s.e), i)
           t == remove_cell_ewma(s, i)
<1>1. t = [s EXCEPT !.m.heap = h]
  BY DEF remove_cell_ewma
<1>2. /\ h \in Seq(Ids) /\ Len(h) = Len(s.m.heap) - 1
      /\ Items(h) = A \ {i} /\ Distinct(h)
  BY RemoveHolds DEF HeapHolds
<1> HIDE DEF h
<1>3. /\ t.e = s.e /\ t.m.heap = h /\ t.m.recalibrated = s.m.recalibrated
      /\ t.m.n_cells = s.m.n_cells /\ t.m.n_active = s.m.n_active
      /\ DOMAIN t = {"m", "e"} /\ DOMAIN t.m = MuxFields
  BY <1>1 DEF HeapHolds, Shape, MuxShape, MuxFields
<1> HIDE DEF t
<1> QED BY <1>2, <1>3 DEF HeapHolds, Shape, MuxShape, SameCounters, t

LEMMA ScaleHeap ==
  ASSUME NEW s, NEW A \in SUBSET Ids, HeapHolds(s, A), NEW tick
  PROVE  LET t == scale_active_circuits(s, tick)
         IN  HeapHolds(t, A) /\ t.m.heap = s.m.heap /\ SameCounters(s, t)
<1> DEFINE e == [i \in Ids |->
                  IF i \in Items(s.m.heap)
                  THEN [s.e[i] EXCEPT !.weight = Scaled(@, s.m.recalibrated, tick),
                                      !.adjusted = tick]
                  ELSE s.e[i]]
           t == scale_active_circuits(s, tick)
<1>1. t = [s EXCEPT !.e = e, !.m.recalibrated = tick]
  BY DEF scale_active_circuits
<1>2. /\ \A j \in Ids : /\ e[j].cell_count = s.e[j].cell_count
                        /\ DOMAIN e[j] = EntryFields
                        /\ j \in A => e[j].adjusted = tick
      /\ e = [j \in Ids |-> e[j]]
  BY DEF HeapHolds, Shape, MuxShape, EntryFields
<1> HIDE DEF e
<1>3. /\ t.e = e /\ t.m.heap = s.m.heap /\ t.m.recalibrated = tick
      /\ t.m.n_cells = s.m.n_cells /\ t.m.n_active = s.m.n_active
      /\ DOMAIN t = {"m", "e"} /\ DOMAIN t.m = MuxFields
  BY <1>1 DEF HeapHolds, Shape, MuxShape, MuxFields
<1> HIDE DEF t
<1> QED BY <1>2, <1>3 DEF HeapHolds, Shape, MuxShape, SameCounters, t

\* The number of cells counted, when one entry is given another count.
LEMMA CountChanges ==
  ASSUME NEW e, NEW f, NEW i \in Ids, NEW n \in Nat,
         \A j \in Ids : e[j].cell_count \in Nat,
         \A j \in Ids : f[j].cell_count = IF j = i THEN n ELSE e[j].cell_count,
         IsFiniteSet(Counted(e))
  PROVE  /\ IsFiniteSet(Counted(f))
         /\ Cardinality(Counted(f)) = Cardinality(Counted(e)) - e[i].cell_count + n
<1> DEFINE rest == {x \in Counted(e) : x[1] # i}
           own(k) == {i} \X (1..k)
<1>1. ASSUME NEW k \in Nat
      PROVE  /\ IsFiniteSet(own(k)) /\ Cardinality(own(k)) = k
             /\ rest \cap own(k) = {}
  <2>1. IsFiniteSet(1..k) /\ Cardinality(1..k) = k
    <3>1. 1 \in Int /\ k \in Int
      OBVIOUS
    <3>2. IsFiniteSet(1..k) /\ Cardinality(1..k) = IF 1 > k THEN 0 ELSE k - 1 + 1
      BY <3>1, FS_Interval, Zenon
    <3> QED BY <3>2
  <2>2. IsFiniteSet({i}) /\ Cardinality({i}) = 1
    BY FS_Singleton
  <2>3. IsFiniteSet(own(k)) /\ Cardinality(own(k)) = Cardinality({i}) * Cardinality(1..k)
    <3> DEFINE one == {i}
               upto == 1..k
    <3>1. IsFiniteSet(one) /\ IsFiniteSet(upto)
      BY <2>1, <2>2
    <3> HIDE DEF one, upto
    <3>2. /\ IsFiniteSet(one \X upto)
          /\ Cardinality(one \X upto) = Cardinality(one) * Cardinality(upto)
      BY <3>1, FS_Product
    <3> QED BY <3>2 DEF one, upto
  <2> QED BY <2>1, <2>2, <2>3
<1>2. IsFiniteSet(rest) /\ Cardinality(rest) \in Nat
  <2>1. IsFiniteSet(rest)
    BY FS_Subset
  <2> QED BY <2>1, FS_CardinalityType
<1>3. ASSUME NEW k \in Nat
      PROVE  /\ IsFiniteSet(rest \union own(k))
             /\ Cardinality(rest \union own(k)) = Cardinality(rest) + k
  <2> HIDE DEF rest, own
  <2>1. /\ IsFiniteSet(rest \union own(k))
        /\ Cardinality(rest \union own(k))
             = Cardinality(rest) + Cardinality(own(k)) - Cardinality(rest \cap own(k))
    BY <1>1, <1>2, FS_Union
  <2>2. Cardinality(rest \cap own(k)) = 0
    BY <1>1, FS_EmptySet
  <2> QED BY <1>1, <1>2, <2>1, <2>2
<1>4. Counted(e) = rest \union own(e[i].cell_count)
  BY DEF Counted
<1>5. Counted(f) = rest \union own(n)
  <2>1. \A j \in Ids \ {i} : f[j].cell_count = e[j].cell_count
    OBVIOUS
  <2>2. f[i].cell_count = n
    OBVIOUS
  <2>3. rest = UNION {{j} \X (1..f[j].cell_count) : j \in Ids \ {i}}
    BY <2>1 DEF Counted
  <2>4. Counted(f) = (UNION {{j} \X (1..f[j].cell_count) : j \in Ids \ {i}})
                       \union ({i} \X (1..f[i].cell_count))
    BY DEF Counted
  <2> QED BY <2>2, <2>3, <2>4
<1>6. e[i].cell_count \in Nat
  OBVIOUS
<1> HIDE DEF rest, own
<1> QED BY <1>2, <1>3, <1>4, <1>5, <1>6

\* circuitmux_set_num_cells, whatever the count was and becomes.
LEMMA SetNumCellsCounts ==
  ASSUME NEW s, MuxCounts(s), NEW i \in Ids, NEW n \in Nat
  PROVE  LET t == circuitmux_set_num_cells(s, i, n)
         IN  /\ MuxCounts(t)
             /\ \A j \in Ids : t.e[j].cell_count = IF j = i THEN n ELSE s.e[j].cell_count
<1> DEFINE old == s.e[i].cell_count
           A == ActiveIn(s.e)
           B == A \ {i}
           counted == [s EXCEPT !.e[i].cell_count = n, !.m.n_cells = @ - old + n]
           fewer == [counted EXCEPT !.m.n_active = @ - 1]
           more == [counted EXCEPT !.m.n_active = @ + 1]
           Set(e) == \A j \in Ids : e[j].cell_count = IF j = i THEN n
                                                      ELSE s.e[j].cell_count
           cells == Cardinality(Counted(s.e)) - old + n
           Good(u, k) == /\ HeapHolds(u, A) /\ u.m.heap = s.m.heap /\ Set(u.e)
                         /\ u.m.n_cells = cells /\ u.m.n_active = k
           t == circuitmux_set_num_cells(s, i, n)
<1>4. old \in Nat /\ A \subseteq Ids /\ (i \in A <=> old > 0)
  BY DEF MuxCounts, CellsCounted, ActiveIn
<1>1. /\ Good(counted, Len(s.m.heap))
      /\ Good(fewer, Len(s.m.heap) - 1)
      /\ Good(more, Len(s.m.heap) + 1)
  <2>1. /\ Shape(s) /\ s.m.heap \in Seq(Ids) /\ Distinct(s.m.heap)
        /\ Items(s.m.heap) = A /\ \A j \in A : s.e[j].adjusted = s.m.recalibrated
        /\ s.m.n_active = Len(s.m.heap) /\ s.m.n_cells = Cardinality(Counted(s.e))
    BY DEF MuxCounts, CellsCounted, HeapHolds
  <2>2. ASSUME NEW k, NEW u, u = [counted EXCEPT !.m.n_active = k]
        PROVE  Good(u, k)
    <3>1. /\ DOMAIN u = {"m", "e"} /\ DOMAIN u.m = MuxFields
          /\ u.m.n_active = k /\ u.m.heap = s.m.heap
          /\ u.m.recalibrated = s.m.recalibrated
          /\ u.m.n_cells = s.m.n_cells - old + n
          /\ u.e = [s.e EXCEPT ![i].cell_count = n]
      BY <2>1, <2>2 DEF Shape, MuxShape, MuxFields
    <3>2. /\ u.e = [j \in Ids |-> u.e[j]]
          /\ \A j \in Ids : DOMAIN u.e[j] = EntryFields
          /\ \A j \in Ids : u.e[j].adjusted = s.e[j].adjusted
          /\ Set(u.e)
      BY <2>1, <3>1 DEF Shape, MuxShape, EntryFields
    <3> HIDE DEF counted
    <3> QED BY <2>1, <3>1, <3>2, <1>4 DEF HeapHolds, Shape, MuxShape
  <2>3. counted = [counted EXCEPT !.m.n_active = Len(s.m.heap)]
    BY <2>1 DEF Shape, MuxShape, MuxFields
  <2>4. fewer = [counted EXCEPT !.m.n_active = Len(s.m.heap) - 1]
        /\ more = [counted EXCEPT !.m.n_active = Len(s.m.heap) + 1]
    BY <2>1 DEF Shape, MuxShape, MuxFields
  <2> HIDE DEF counted, fewer, more, Good
  <2>5. Good(counted, Len(s.m.heap))
    BY <2>2, <2>3
  <2>6. Good(fewer, Len(s.m.heap) - 1)
    BY <2>2, <2>4
  <2>7. Good(more, Len(s.m.heap) + 1)
    BY <2>2, <2>4
  <2> QED BY <2>5, <2>6, <2>7
<1>2. t = CASE old > 0 /\ n = 0 -> remove_cell_ewma(fewer, i)
            [] old = 0 /\ n > 0 -> add_cell_ewma(more, i)
            [] OTHER -> counted
  BY DEF circuitmux_set_num_cells
<1>3. ASSUME NEW u, Set(u.e), u.m.n_cells = cells, u.m.n_active = Len(u.m.heap),
             HeapHolds(u, IF n > 0 THEN A \union {i} ELSE B)
      PROVE  MuxCounts(u)
  <2>1. ActiveIn(u.e) = IF n > 0 THEN A \union {i} ELSE B
    BY <1>3 DEF ActiveIn
  <2>2. CellsCounted(u)
    <3>1. /\ IsFiniteSet(Counted(u.e))
          /\ Cardinality(Counted(u.e)) = cells
      <4>1. /\ IsFiniteSet(Counted(s.e))
            /\ \A j \in Ids : s.e[j].cell_count \in Nat
        BY DEF MuxCounts, CellsCounted
      <4>2. \A j \in Ids : u.e[j].cell_count = IF j = i THEN n ELSE s.e[j].cell_count
        BY <1>3
      <4> QED BY <4>1, <4>2, CountChanges
    <3>2. \A j \in Ids : u.e[j].cell_count \in Nat
      BY <1>3 DEF MuxCounts, CellsCounted
    <3> QED BY <1>3, <3>1, <3>2 DEF CellsCounted
  <2> QED BY <1>3, <2>1, <2>2 DEF MuxCounts
<1> HIDE DEF counted, fewer, more, A, t, old, cells
<1>5. CASE old > 0 /\ n = 0
  <2>1. t = remove_cell_ewma(fewer, i)
    BY <1>2, <1>5
  <2>2. HeapHolds(t, B) /\ Len(t.m.heap) = Len(s.m.heap) - 1 /\ SameCounters(fewer, t)
    BY <1>1, <1>4, <1>5, <2>1, RemoveFromHeap
  <2> HIDE DEF B
  <2>3. Set(t.e) /\ t.m.n_cells = cells /\ t.m.n_active = Len(t.m.heap)
    BY <1>1, <2>2 DEF SameCounters
  <2> QED BY <1>3, <1>5, <2>2, <2>3 DEF t
<1>6. CASE old = 0 /\ n > 0
  <2>1. t = add_cell_ewma(more, i)
    BY <1>2, <1>6
  <2>2. /\ HeapHolds(t, A \union {i}) /\ Len(t.m.heap) = Len(s.m.heap) + 1
        /\ SameCounters(more, t)
    <3>1. HeapHolds(more, A) /\ Len(more.m.heap) = Len(s.m.heap) /\ i \notin A
      BY <1>1, <1>4, <1>6
    <3> QED BY <1>4, <2>1, <3>1, AddToHeap
  <2>3. Set(t.e) /\ t.m.n_cells = cells /\ t.m.n_active = Len(t.m.heap)
    BY <1>1, <2>2 DEF SameCounters
  <2> QED BY <1>3, <1>6, <2>2, <2>3 DEF t
<1>7. CASE ~(old > 0 /\ n = 0) /\ ~(old = 0 /\ n > 0)
  <2>1. t = counted
    BY <1>2, <1>7
  <2>2. A = IF n > 0 THEN A \union {i} ELSE B
    BY <1>4, <1>7
  <2>3. Set(t.e) /\ t.m.n_cells = cells /\ t.m.n_active = Len(t.m.heap) /\ HeapHolds(t, A)
    BY <1>1, <2>1
  <2> QED BY <1>3, <2>2, <2>3 DEF t
<1> QED BY <1>4, <1>5, <1>6, <1>7

LEMMA AttachCounts ==
  ASSUME NEW s, MuxCounts(s), NEW i \in Ids, NEW n \in Nat, NEW c,
         s.e[i].circ = "none", s.e[i].cell_count = 0
  PROVE  LET t == circuitmux_attach_circuit(s, c, i, n)
         IN  /\ MuxCounts(t)
             /\ \A j \in Ids : t.e[j].cell_count = IF j = i THEN n ELSE s.e[j].cell_count
<1> DEFINE new == [s EXCEPT !.e[i] = [Detached EXCEPT !.circ = c,
                                             !.adjusted = cell_ewma_get_tick]]
<1>1. /\ Shape(new) /\ new.m = s.m
      /\ \A j \in Ids : new.e[j].cell_count = s.e[j].cell_count
      /\ \A j \in Ids \ {i} : new.e[j] = s.e[j]
  BY DEF MuxCounts, HeapHolds, Shape, MuxShape, EntryFields, MuxFields, Detached
<1>2. circuitmux_attach_circuit(s, c, i, n) = circuitmux_set_num_cells(new, i, n)
  BY DEF circuitmux_attach_circuit
<1> HIDE DEF new
<1>3. ActiveIn(new.e) = ActiveIn(s.e) /\ Counted(new.e) = Counted(s.e)
  BY <1>1 DEF ActiveIn, Counted
<1>4. i \notin ActiveIn(s.e)
  BY DEF ActiveIn
<1>5. HeapHolds(new, ActiveIn(new.e))
  <2>1. \A j \in ActiveIn(s.e) : j \in Ids \ {i}
    BY <1>4 DEF ActiveIn
  <2> QED BY <1>1, <1>3, <2>1 DEF MuxCounts, HeapHolds
<1>6. MuxCounts(new)
  BY <1>1, <1>3, <1>5 DEF MuxCounts, CellsCounted
<1> QED BY <1>1, <1>2, <1>6, SetNumCellsCounts

LEMMA DetachCounts ==
  ASSUME NEW s, MuxCounts(s), NEW i \in Ids,
         s.e[i].circ = "none" => s.e[i].cell_count = 0
  PROVE  LET t == circuitmux_detach_circuit(s, i)
         IN  /\ MuxCounts(t)
             /\ \A j \in Ids : t.e[j].cell_count = IF j = i THEN 0 ELSE s.e[j].cell_count
<1> DEFINE quiet == IF s.e[i].cell_count = 0 THEN s ELSE circuitmux_set_num_cells(s, i, 0)
           new == [quiet EXCEPT !.e[i] = Detached]
<1>1. CASE s.e[i].circ = "none"
  BY <1>1 DEF circuitmux_detach_circuit
<1>2. CASE s.e[i].circ # "none"
  <2>1. /\ MuxCounts(quiet)
        /\ \A j \in Ids : quiet.e[j].cell_count = IF j = i THEN 0 ELSE s.e[j].cell_count
    BY SetNumCellsCounts
  <2>2. circuitmux_detach_circuit(s, i) = new
    BY <1>2 DEF circuitmux_detach_circuit
  <2> HIDE DEF quiet
  <2>3. /\ Shape(new) /\ new.m = quiet.m
        /\ \A j \in Ids : new.e[j].cell_count = quiet.e[j].cell_count
        /\ \A j \in Ids \ {i} : new.e[j] = quiet.e[j]
    BY <2>1 DEF MuxCounts, HeapHolds, Shape, MuxShape, EntryFields, MuxFields, Detached
  <2> HIDE DEF new
  <2>4. ActiveIn(new.e) = ActiveIn(quiet.e) /\ Counted(new.e) = Counted(quiet.e)
    BY <2>3 DEF ActiveIn, Counted
  <2>5. HeapHolds(new, ActiveIn(new.e))
    <3>1. \A j \in ActiveIn(quiet.e) : j \in Ids \ {i}
      BY <2>1 DEF ActiveIn
    <3> QED BY <2>1, <2>3, <2>4, <3>1 DEF MuxCounts, HeapHolds
  <2>6. MuxCounts(new)
    BY <2>1, <2>3, <2>4, <2>5 DEF MuxCounts, CellsCounted
  <2> QED BY <2>1, <2>2, <2>3, <2>6
<1> QED BY <1>1, <1>2

\* The counters are not about anything else the mux keeps.
LEMMA CountsCarryOver ==
  ASSUME NEW s, MuxCounts(s), NEW t, Shape(t), t.e = s.e, t.m.heap = s.m.heap,
         t.m.n_active = s.m.n_active, t.m.n_cells = s.m.n_cells,
         t.m.recalibrated = s.m.recalibrated
  PROVE  MuxCounts(t)
BY DEF MuxCounts, HeapHolds, CellsCounted

\* A cell of the first circuit of the heap is sent: it is popped, put back and,
\* if this was its last cell, taken out.
LEMMA XmitCounts ==
  ASSUME NEW s, MuxCounts(s), s.m.heap # <<>>
  PROVE  LET i == Head(s.m.heap)
             t == circuitmux_notify_xmit_cells(s, i)
         IN  /\ i \in ActiveIn(s.e)
             /\ MuxCounts(t)
             /\ \A j \in Ids : t.e[j].cell_count = IF j = i THEN s.e[j].cell_count - 1
                                                   ELSE s.e[j].cell_count
<1> DEFINE i == Head(s.m.heap)
           A == ActiveIn(s.e)
           left == s.e[i].cell_count - 1
           fewer == [s EXCEPT !.e[i].cell_count = @ - 1, !.m.n_cells = @ - 1]
           scaled == IF current_tick.tick = fewer.m.recalibrated THEN fewer
                     ELSE scale_active_circuits(fewer, current_tick.tick)
           paid(w) == [scaled EXCEPT !.e[i].weight = w]
           popped(w) == [paid(w) EXCEPT !.m.heap = smartlist_pqueue_pop(@, Key(paid(w).e))]
           done == ewma_notify_xmit_cells(fewer, i)
           quiet == [done EXCEPT !.m.n_active = @ - 1]
           t == circuitmux_notify_xmit_cells(s, i)
<1>1. HeapHolds(s, A) /\ CellsCounted(s) /\ s.m.n_active = Len(s.m.heap)
  BY DEF MuxCounts
<1>2. /\ i \in A /\ A \subseteq Ids
      /\ s.e[i].cell_count \in Nat /\ left \in Nat
  <2>1. i \in Items(s.m.heap)
    BY <1>1, HeadIndex DEF HeapHolds
  <2>2. i \in A /\ A \subseteq Ids
    BY <1>1, <2>1 DEF HeapHolds, ActiveIn
  <2> HIDE DEF i
  <2> QED BY <1>1, <2>2 DEF CellsCounted, ActiveIn
<1> HIDE DEF A
<1>3. /\ HeapHolds(fewer, A) /\ fewer.m.heap = s.m.heap
      /\ fewer.m.n_cells = s.m.n_cells - 1 /\ fewer.m.n_active = s.m.n_active
      /\ \A j \in Ids : fewer.e[j].cell_count = IF j = i THEN left ELSE s.e[j].cell_count
  <2>0. i \in Ids
    BY <1>2
  <2> HIDE DEF i
  <2>1. /\ DOMAIN fewer = {"m", "e"} /\ DOMAIN fewer.m = MuxFields
        /\ fewer.m.n_active = s.m.n_active /\ fewer.m.heap = s.m.heap
        /\ fewer.m.recalibrated = s.m.recalibrated
        /\ fewer.m.n_cells = s.m.n_cells - 1
        /\ fewer.e = [s.e EXCEPT ![i].cell_count = @ - 1]
    BY <1>1 DEF HeapHolds, Shape, MuxShape, MuxFields
  <2> HIDE DEF fewer
  <2>2. /\ fewer.e = [j \in Ids |-> fewer.e[j]]
        /\ \A j \in Ids : DOMAIN fewer.e[j] = EntryFields
        /\ \A j \in Ids : fewer.e[j].adjusted = s.e[j].adjusted
        /\ \A j \in Ids : fewer.e[j].cell_count = IF j = i THEN left ELSE s.e[j].cell_count
    BY <1>1, <2>0, <2>1 DEF HeapHolds, Shape, MuxShape, EntryFields
  <2> QED BY <1>1, <1>2, <2>1, <2>2 DEF HeapHolds, Shape, MuxShape
<1>4. HeapHolds(scaled, A) /\ scaled.m.heap = s.m.heap /\ SameCounters(fewer, scaled)
  <2> HIDE DEF fewer, i
  <2> QED BY <1>2, <1>3, ScaleHeap DEF SameCounters
<1> HIDE DEF scaled, left
<1>5. ASSUME NEW w
      PROVE  /\ HeapHolds(popped(w), A \ {i}) /\ Len(popped(w).m.heap) = Len(s.m.heap) - 1
             /\ SameCounters(fewer, popped(w))
  <2> DEFINE h == smartlist_pqueue_pop(scaled.m.heap, Key(paid(w).e))
             u == popped(w)
  <2>1. /\ h \in Seq(Ids) /\ Len(h) = Len(s.m.heap) - 1
        /\ Items(h) = A \ {i} /\ Distinct(h)
    <3> DEFINE key == Key(paid(w).e)
    <3>1. s.m.heap \in Seq(Ids) /\ Distinct(s.m.heap) /\ Items(s.m.heap) = A
      BY <1>1 DEF HeapHolds
    <3> HIDE DEF key, paid
    <3> QED BY <1>4, <3>1, PopHolds
  <2> HIDE DEF h
  <2>2. /\ paid(w).m = scaled.m /\ DOMAIN paid(w) = {"m", "e"}
        /\ paid(w).e = [scaled.e EXCEPT ![i].weight = w]
    BY <1>4 DEF HeapHolds, Shape
  <2>3. u = [paid(w) EXCEPT !.m.heap = h]
    BY <2>2 DEF h
  <2> HIDE DEF u, paid
  <2>4. /\ u.e = [scaled.e EXCEPT ![i].weight = w]
        /\ u.m.heap = h /\ u.m.recalibrated = scaled.m.recalibrated
        /\ u.m.n_cells = scaled.m.n_cells /\ u.m.n_active = scaled.m.n_active
        /\ DOMAIN u = {"m", "e"} /\ DOMAIN u.m = MuxFields
    BY <1>4, <2>2, <2>3 DEF HeapHolds, Shape, MuxShape, MuxFields
  <2> HIDE DEF i, fewer
  <2>5. /\ u.e = [j \in Ids |-> u.e[j]]
        /\ \A j \in Ids : DOMAIN u.e[j] = EntryFields
        /\ \A j \in Ids : u.e[j].adjusted = scaled.e[j].adjusted
        /\ \A j \in Ids : u.e[j].cell_count = scaled.e[j].cell_count
    <3>1. /\ i \in Ids /\ scaled.e = [j \in Ids |-> scaled.e[j]]
          /\ \A j \in Ids : DOMAIN scaled.e[j] = EntryFields
      BY <1>2, <1>4 DEF HeapHolds, Shape, MuxShape
    <3> DEFINE e == scaled.e
               f == u.e
    <3>2. /\ e = [j \in Ids |-> e[j]] /\ \A j \in Ids : DOMAIN e[j] = EntryFields
          /\ f = [e EXCEPT ![i].weight = w]
      BY <2>4, <3>1
    <3> HIDE DEF e, f
    <3>3. /\ f = [j \in Ids |-> f[j]]
          /\ \A j \in Ids : /\ DOMAIN f[j] = EntryFields
                            /\ f[j].adjusted = e[j].adjusted
                            /\ f[j].cell_count = e[j].cell_count
      BY <3>1, <3>2 DEF EntryFields
    <3> QED BY <3>3 DEF e, f
  <2>6. HeapHolds(u, A \ {i}) /\ Len(u.m.heap) = Len(s.m.heap) - 1 /\ SameCounters(fewer, u)
    BY <1>2, <1>4, <2>1, <2>4, <2>5 DEF HeapHolds, Shape, MuxShape, SameCounters
  <2> QED BY <2>6 DEF u, paid
<1>6. PICK w : done = add_cell_ewma(popped(w), i)
  <2> DEFINE w0 == scaled.e[i].weight
                   + Unit * TwoTo[current_tick.now - current_tick.tick_start]
  <2>1. done = add_cell_ewma(popped(w0), i)
    BY Zenon DEF ewma_notify_xmit_cells, scaled
  <2> HIDE DEF done, popped, w0
  <2> QED BY <2>1
<1> HIDE DEF popped, i, done
<1>7. /\ HeapHolds(done, A) /\ Len(done.m.heap) = Len(s.m.heap)
      /\ SameCounters(fewer, done)
  <2> DEFINE u == popped(w)
  <2>1. /\ HeapHolds(u, A \ {i}) /\ Len(u.m.heap) = Len(s.m.heap) - 1
        /\ SameCounters(fewer, u)
    BY <1>5
  <2>2. A \ {i} \in SUBSET Ids /\ i \in Ids /\ i \notin A \ {i}
    BY <1>2
  <2>3. done = add_cell_ewma(u, i)
    BY <1>6
  <2> HIDE DEF u, fewer
  <2>4. /\ HeapHolds(done, (A \ {i}) \union {i}) /\ Len(done.m.heap) = Len(u.m.heap) + 1
        /\ SameCounters(u, done)
    BY <2>1, <2>2, <2>3, AddToHeap
  <2>5. (A \ {i}) \union {i} = A
    BY <1>2
  <2>6. Len(s.m.heap) \in Nat
    BY <1>1, LenProperties DEF HeapHolds
  <2>7. HeapHolds(done, A)
    BY <2>4, <2>5
  <2>8. Len(done.m.heap) = Len(s.m.heap)
    BY <2>1, <2>4, <2>6
  <2>9. SameCounters(fewer, done)
    BY <2>1, <2>4 DEF SameCounters
  <2> QED BY <2>7, <2>8, <2>9
<1> HIDE DEF fewer
<1>8. ASSUME NEW u,
             \A j \in Ids : u.e[j].cell_count = IF j = i THEN left ELSE s.e[j].cell_count,
             u.m.n_cells = s.m.n_cells - 1
      PROVE  CellsCounted(u) /\ ActiveIn(u.e) = IF left > 0 THEN A ELSE A \ {i}
  <2>1. /\ IsFiniteSet(Counted(u.e))
        /\ Cardinality(Counted(u.e)) = Cardinality(Counted(s.e)) - s.e[i].cell_count + left
    <3>1. IsFiniteSet(Counted(s.e)) /\ \A j \in Ids : s.e[j].cell_count \in Nat
      BY <1>1 DEF CellsCounted
    <3>2. i \in Ids /\ left \in Nat
      BY <1>2 DEF left
    <3> QED BY <1>8, <3>1, <3>2, CountChanges
  <2>2. Cardinality(Counted(u.e)) = Cardinality(Counted(s.e)) - 1
    <3>1. Cardinality(Counted(s.e)) \in Nat
      BY <1>1, FS_CardinalityType DEF CellsCounted
    <3> QED BY <1>2, <2>1, <3>1 DEF left
  <2>3. \A j \in Ids : u.e[j].cell_count \in Nat
    BY <1>1, <1>2, <1>8 DEF CellsCounted
  <2>4. ActiveIn(u.e) = IF left > 0 THEN A ELSE A \ {i}
    BY <1>2, <1>8 DEF ActiveIn, A
  <2> QED BY <1>1, <1>8, <2>1, <2>2, <2>3, <2>4 DEF CellsCounted
<1>9. /\ \A j \in Ids : done.e[j].cell_count = IF j = i THEN left ELSE s.e[j].cell_count
      /\ done.m.n_cells = s.m.n_cells - 1 /\ done.m.n_active = s.m.n_active
  BY <1>3, <1>7 DEF SameCounters
<1>10. t = IF done.e[i].cell_count > 0 THEN done ELSE remove_cell_ewma(quiet, i)
  BY Zenon DEF circuitmux_notify_xmit_cells, done, fewer
<1>11. CASE left > 0
  <2>1. t = done
    BY <1>2, <1>9, <1>10, <1>11
  <2>2. MuxCounts(done)
    BY <1>1, <1>7, <1>8, <1>9, <1>11 DEF MuxCounts
  <2> HIDE DEF t
  <2>3. \A j \in Ids : t.e[j].cell_count = IF j = i THEN s.e[j].cell_count - 1
                                           ELSE s.e[j].cell_count
    BY <1>9, <2>1 DEF left
  <2> QED BY <1>2, <2>1, <2>2, <2>3 DEF t, i, A
<1>12. CASE ~(left > 0)
  <2>1. t = remove_cell_ewma(quiet, i)
    BY <1>2, <1>9, <1>10, <1>12
  <2>2. /\ HeapHolds(quiet, A) /\ quiet.m.heap = done.m.heap
        /\ quiet.m.n_active = done.m.n_active - 1
        /\ quiet.m.n_cells = done.m.n_cells /\ quiet.e = done.e
    BY <1>7 DEF HeapHolds, Shape, MuxShape, MuxFields
  <2> HIDE DEF quiet, t
  <2>3. /\ HeapHolds(t, A \ {i}) /\ Len(t.m.heap) = Len(quiet.m.heap) - 1
        /\ SameCounters(quiet, t)
    BY <1>2, <2>1, <2>2, RemoveFromHeap
  <2>4. /\ \A j \in Ids : t.e[j].cell_count = IF j = i THEN left ELSE s.e[j].cell_count
        /\ t.m.n_cells = s.m.n_cells - 1
    BY <1>9, <2>2, <2>3 DEF SameCounters
  <2>5. CellsCounted(t) /\ ActiveIn(t.e) = A \ {i}
    BY <1>8, <1>12, <2>4
  <2>6. t.m.n_active = Len(t.m.heap)
    BY <1>1, <1>7, <1>9, <2>2, <2>3 DEF SameCounters
  <2>7. \A j \in Ids : t.e[j].cell_count = IF j = i THEN s.e[j].cell_count - 1
                                           ELSE s.e[j].cell_count
    BY <2>4 DEF left
  <2> QED BY <1>2, <2>3, <2>5, <2>6, <2>7 DEF MuxCounts, t, i, A
<1> QED BY <1>11, <1>12

-----------------------------------------------------------------------------
(* The counters: the invariant and its steps                                *)

\* The mux counts what the circuits have: all of an open one's cells, no fewer
\* than those of a marked one, and none for an id that is not attached.
QueuesCounted ==
  /\ \A i \in Ids : entry[i].circ = "none" => entry[i].cell_count = 0
  /\ \A c \in Circuits : circ[c].queue \in Nat
  /\ \A c \in Circuits : OnChannel(c) =>
       /\ entry[circ[c].id].cell_count >= circ[c].queue
       /\ ~circ[c].marked => entry[circ[c].id].cell_count = circ[c].queue

CountInv == MuxCounts(State) /\ QueuesCounted

\* A circuit that lost cells without notice is marked.
Milder(c) ==
  /\ circ'[c].id = circ[c].id
  /\ circ'[c].queue <= circ[c].queue
  /\ ~circ'[c].marked => ~circ[c].marked /\ circ'[c].queue = circ[c].queue

LEMMA CountsBecome ==
  ASSUME NEW t, MuxCounts(t), Becomes(t)
  PROVE  MuxCounts(State)'
<1>1. State'.m = t.m /\ State'.e = t.e /\ DOMAIN State' = {"m", "e"}
  BY DEF State, Becomes
<1>2. Shape(State')
  BY <1>1 DEF MuxCounts, HeapHolds, Shape
<1>3. MuxCounts(State')
  BY <1>1, <1>2, CountsCarryOver
<1> QED BY <1>3

LEMMA CountsAreNumbers ==
  ASSUME MuxCounts(State), NEW i \in Ids
  PROVE  entry[i].cell_count \in Nat
BY DEF MuxCounts, CellsCounted, State

\* Another queue of DESTROYs, or another turn.
LEMMA CountsStay ==
  ASSUME IdInv', MuxCounts(State), entry' = entry,
         mux'.heap = mux.heap, mux'.n_active = mux.n_active,
         mux'.n_cells = mux.n_cells, mux'.recalibrated = mux.recalibrated
  PROVE  MuxCounts(State)'
<1>1. /\ State'.m = mux' /\ State'.e = entry' /\ DOMAIN State' = {"m", "e"}
      /\ State.m = mux /\ State.e = entry
  BY DEF State
<1>2. MuxShape(mux', entry')
  BY DEF IdInv, Shapes
<1>3. Shape(State')
  BY <1>1, <1>2 DEF Shape
<1>4. MuxCounts(State')
  BY <1>1, <1>3, CountsCarryOver
<1> QED BY <1>4

\* No count changes.
LEMMA QueuesStay ==
  ASSUME IdInv, IdInv', CountInv, entry' = entry,
         \A c \in Circuits : circ'[c].queue \in Nat,
         \A c \in Circuits : circ'[c].id # "none" => Milder(c)
  PROVE  QueuesCounted'
<1>1. ASSUME NEW c \in Circuits, circ'[c].id # "none"
      PROVE  /\ entry[circ'[c].id].cell_count >= circ'[c].queue
             /\ ~circ'[c].marked => entry[circ'[c].id].cell_count = circ'[c].queue
  <2>1. Milder(c) /\ OnChannel(c) /\ circ[c].queue \in Nat /\ circ'[c].queue \in Nat
    BY <1>1 DEF Milder, OnChannel, CountInv, QueuesCounted
  <2>2. circ[c].id \in Ids
    BY <2>1 DEF IdInv, Shapes, CircShape, OnChannel
  <2>3. MuxShape(mux, entry) /\ entry[circ[c].id].cell_count >= circ[c].queue
        /\ (~circ[c].marked => entry[circ[c].id].cell_count = circ[c].queue)
    BY <2>1 DEF CountInv, QueuesCounted, IdInv, Shapes
  <2>4. CASE circ'[c].marked
    <3>1. entry[circ[c].id].cell_count >= circ'[c].queue
      <4>1. entry[circ[c].id].cell_count \in Nat
        BY <2>2, CountsAreNumbers DEF CountInv
      <4> QED BY <2>1, <2>3, <4>1 DEF Milder
    <3> QED BY <2>1, <2>4, <3>1 DEF Milder
  <2>5. CASE ~circ'[c].marked
    BY <2>1, <2>3, <2>5 DEF Milder
  <2> QED BY <2>4, <2>5
<1> QED BY <1>1 DEF CountInv, QueuesCounted, OnChannel

\* The count of one id changes, to that of its circuit.
LEMMA OneCount ==
  ASSUME IdInv, IdInv', CountInv, NEW i \in Ids, NEW n \in Nat,
         \A j \in Ids : entry'[j].cell_count = IF j = i THEN n ELSE entry[j].cell_count,
         \A j \in Ids \ {i} : entry'[j].circ = entry[j].circ,
         entry'[i].circ = "none" => n = 0,
         \A c \in Circuits : circ'[c].queue \in Nat,
         \A c \in Circuits : circ'[c].id \in Ids \ {i} => Milder(c),
         \A c \in Circuits : circ'[c].id = i =>
           n >= circ'[c].queue /\ (~circ'[c].marked => n = circ'[c].queue)
  PROVE  QueuesCounted'
<1>1. ASSUME NEW c \in Circuits, circ'[c].id # "none"
      PROVE  /\ entry'[circ'[c].id].cell_count >= circ'[c].queue
             /\ ~circ'[c].marked => entry'[circ'[c].id].cell_count = circ'[c].queue
  <2>1. circ'[c].id \in Ids
    BY <1>1 DEF IdInv, Shapes, CircShape
  <2>2. CASE circ'[c].id = i
    BY <2>2
  <2>3. CASE circ'[c].id # i
    <3>1. /\ Milder(c) /\ OnChannel(c)
          /\ entry'[circ'[c].id].cell_count = entry[circ[c].id].cell_count
      BY <1>1, <2>1, <2>3 DEF Milder, OnChannel
    <3>2. entry[circ[c].id].cell_count \in Nat
      BY <2>1, <3>1, CountsAreNumbers DEF CountInv, Milder
    <3>3. /\ circ[c].queue \in Nat /\ entry[circ[c].id].cell_count >= circ[c].queue
          /\ ~circ[c].marked => entry[circ[c].id].cell_count = circ[c].queue
      BY <3>1 DEF CountInv, QueuesCounted
    <3>4. circ'[c].queue \in Nat
      OBVIOUS
    <3> QED BY <3>1, <3>2, <3>3, <3>4 DEF Milder
  <2> QED BY <2>2, <2>3
<1>2. ASSUME NEW j \in Ids, entry'[j].circ = "none"
      PROVE  entry'[j].cell_count = 0
  BY <1>2 DEF CountInv, QueuesCounted
<1> QED BY <1>1, <1>2 DEF QueuesCounted, OnChannel

LEMMA InitCounts ==
  ASSUME Init
  PROVE  CountInv
<1>1. IdInv
  BY InitIdInv
<1>2. /\ mux.n_active = 0 /\ mux.n_cells = 0 /\ mux.heap = <<>>
      /\ \A i \in Ids : entry[i].cell_count = 0
      /\ \A c \in Circuits : circ[c].queue = 0 /\ circ[c].id = "none"
  BY DEF Init, Detached, NewCirc
<1>3. ActiveIn(entry) = {} /\ Counted(entry) = {}
  BY <1>2 DEF ActiveIn, Counted
<1>s. State.m = mux /\ State.e = entry /\ Shape(State)
  BY <1>1 DEF IdInv, Shapes, Shape, State
<1>4. HeapHolds(State, {})
  BY <1>s, <1>2 DEF HeapHolds, Distinct, Items
<1>5. CellsCounted(State)
  BY <1>s, <1>2, <1>3, FS_EmptySet DEF CellsCounted
<1>6. MuxCounts(State)
  BY <1>s, <1>2, <1>3, <1>4, <1>5 DEF MuxCounts
<1> QED BY <1>2, <1>6 DEF CountInv, QueuesCounted, OnChannel

-----------------------------------------------------------------------------
(* ... steps of a circuit of the channel                                    *)

\* A circuit of the channel and its entry.
LEMMA OwnEntry ==
  ASSUME IdInv, NEW c \in Circuits, OnChannel(c)
  PROVE  /\ circ[c].id \in Ids /\ entry[circ[c].id].circ = c /\ c # "none"
         /\ \A k \in Circuits \ {c} : circ[k].id # circ[c].id
<1>1. circ[c].id \in Ids /\ owner[circ[c].id] = c
  BY DEF IdInv, Shapes, CircShape, NamesAgree, OnChannel
<1>2. \A k \in Circuits \ {c} : circ[k].id # circ[c].id
  BY <1>1, MuxParameters DEF IdInv, NamesAgree, OnChannel
<1> QED BY <1>1, <1>2, MuxParameters DEF IdInv, NamesAgree

\* update_circuit_on_cmux after its queue changed.
LEMMA UpdateCounts ==
  ASSUME IdInv, CountInv, NEW c \in Circuits, OnChannel(c),
         circ'[c].id = circ[c].id, circ'[c].queue \in Nat
  PROVE  LET t == update_circuit_on_cmux(State, c, circ')
         IN  /\ MuxCounts(t)
             /\ \A j \in Ids : t.e[j].cell_count = IF j = circ[c].id THEN circ'[c].queue
                                                   ELSE entry[j].cell_count
<1>1. circ[c].id \in Ids /\ entry[circ[c].id].circ # "none"
  BY OwnEntry
<1>2. State.e = entry
  BY DEF State
<1>3. update_circuit_on_cmux(State, c, circ')
        = circuitmux_set_num_cells(State, circ[c].id, circ'[c].queue)
  BY <1>1, <1>2 DEF update_circuit_on_cmux
<1> QED BY <1>1, <1>2, <1>3, SetNumCellsCounts DEF CountInv

LEMMA UseIdCounts ==
  ASSUME IdInv, IdInv', CountInv, NEW c \in Circuits, NEW i \in Ids, NEW n \in 0..1,
         UseId(c, i, n)
  PROVE  CountInv'
<1> DEFINE t == circuitmux_attach_circuit(State, c, i, n)
<1>1. /\ owner[i] = "none" /\ ~OnChannel(c) /\ ~circ[c].marked
      /\ circ' = [circ EXCEPT ![c].id = i, ![c].queue = n]
      /\ owner' = [owner EXCEPT ![i] = c] /\ Becomes(t)
  BY DEF UseId
<1>2. entry[i].circ = "none" /\ entry[i].cell_count = 0 /\ State.e = entry
  <2>1. "none" \notin Circuits
    BY MuxParameters
  <2>2. entry[i].circ = "none"
    BY <1>1, <2>1 DEF IdInv, NamesAgree
  <2> QED BY <2>2 DEF CountInv, QueuesCounted, State
<1>3. /\ MuxCounts(t)
      /\ \A j \in Ids : t.e[j].cell_count = IF j = i THEN n ELSE entry[j].cell_count
  BY <1>2, AttachCounts DEF CountInv
<1> HIDE DEF t
<1>4. /\ MuxCounts(State)' /\ entry' = t.e
  BY <1>1, <1>3, CountsBecome DEF Becomes
<1>5. /\ circ'[c].id = i /\ circ'[c].queue = n
      /\ \A k \in Circuits \ {c} : circ'[k] = circ[k]
  BY <1>1 DEF IdInv, Shapes, CircShape, CircFields
<1>6. \A k \in Circuits \ {c} : circ[k].id # i
  <2>1. \A k \in Circuits : OnChannel(k) => owner[circ[k].id] = k
    BY DEF IdInv, NamesAgree
  <2> QED BY <1>1, <2>1, MuxParameters DEF OnChannel
<1>7. \A j \in Ids \ {i} : entry'[j].circ = entry[j].circ
  BY <1>1 DEF IdInv, Shapes, NamesAgree
<1>8. entry'[i].circ # "none"
  BY <1>1, MuxParameters DEF IdInv, Shapes, NamesAgree
<1>9. \A k \in Circuits \ {c} : Milder(k) /\ circ'[k].queue \in Nat
  BY <1>5 DEF Milder, CountInv, QueuesCounted
<1>10. QueuesCounted'
  BY <1>3, <1>4, <1>5, <1>6, <1>7, <1>8, <1>9, OneCount
<1> QED BY <1>4, <1>10 DEF CountInv

LEMMA ReleaseCellsCounts ==
  ASSUME IdInv, IdInv', CountInv, NEW c \in Circuits, NEW n \in 1..2, ReleaseCells(c, n)
  PROVE  CountInv'
<1> DEFINE i == circ[c].id
           t == update_circuit_on_cmux(State, c, circ')
<1>1. /\ OnChannel(c) /\ ~circ[c].marked
      /\ circ' = [circ EXCEPT ![c].queue = @ + n]
      /\ owner' = owner /\ Becomes(t)
  BY DEF ReleaseCells
<1>2. /\ i \in Ids /\ entry[i].circ = c /\ c # "none"
      /\ \A k \in Circuits \ {c} : circ[k].id # i
  BY <1>1, OwnEntry
<1>3. /\ circ'[c].id = i /\ circ'[c].queue \in Nat
      /\ \A k \in Circuits \ {c} : circ'[k] = circ[k] /\ circ[k].queue \in Nat
  BY <1>1 DEF IdInv, Shapes, CircShape, CircFields, CountInv, QueuesCounted
<1>4. /\ MuxCounts(t)
      /\ \A j \in Ids : t.e[j].cell_count = IF j = i THEN circ'[c].queue
                                            ELSE entry[j].cell_count
  BY <1>1, <1>3, UpdateCounts
<1> HIDE DEF t, i
<1>5. MuxCounts(State)' /\ entry' = t.e
  BY <1>1, <1>4, CountsBecome DEF Becomes
<1>6. \A j \in Ids : entry'[j].circ = entry[j].circ
  BY <1>1 DEF IdInv, NamesAgree
<1>7. \A k \in Circuits \ {c} : Milder(k)
  BY <1>3 DEF Milder
<1>8. QueuesCounted'
  BY <1>2, <1>3, <1>4, <1>5, <1>6, <1>7, OneCount
<1> QED BY <1>5, <1>8 DEF CountInv

\* Memory is reclaimed from circuits the mux hears nothing about.
LEMMA AppendCellCounts ==
  ASSUME IdInv, IdInv', CountInv, NEW c \in Circuits, NEW killed \in SUBSET Circuits,
         AppendCell(c, killed)
  PROVE  CountInv'
<1> DEFINE i == circ[c].id
           t == update_circuit_on_cmux(State, c, circ')
<1>1. /\ OnChannel(c) /\ ~circ[c].marked /\ owner' = owner
      /\ \A k \in Circuits :
           circ'[k] = IF k \in killed THEN [circ[k] EXCEPT !.marked = TRUE, !.queue = 0]
                      ELSE IF k = c THEN [circ[k] EXCEPT !.queue = @ + 1] ELSE circ[k]
      /\ Becomes(IF c \in killed THEN State ELSE t)
  BY DEF AppendCell
<1>2. /\ i \in Ids /\ entry[i].circ = c /\ c # "none"
      /\ \A k \in Circuits \ {c} : circ[k].id # i
  BY <1>1, OwnEntry
<1>3. \A k \in Circuits : /\ circ[k].queue \in Nat
                          /\ circ'[k].id = circ[k].id
                          /\ circ'[k].queue \in Nat
                          /\ k \in killed => circ'[k].marked = TRUE /\ circ'[k].queue = 0
  <2> SUFFICES ASSUME NEW k \in Circuits
               PROVE  /\ circ[k].queue \in Nat
                      /\ circ'[k].id = circ[k].id
                      /\ circ'[k].queue \in Nat
                      /\ k \in killed => circ'[k].marked = TRUE /\ circ'[k].queue = 0
    OBVIOUS
  <2>1. circ[k].queue \in Nat /\ DOMAIN circ[k] = CircFields
    BY DEF IdInv, Shapes, CircShape, CountInv, QueuesCounted
  <2>2. CASE k \in killed
    <3>1. circ'[k] = [circ[k] EXCEPT !.marked = TRUE, !.queue = 0]
      BY <1>1, <2>2
    <3> QED BY <2>1, <3>1 DEF CircFields
  <2>3. CASE k \notin killed /\ k = c
    <3>1. circ'[k] = [circ[k] EXCEPT !.queue = @ + 1]
      BY <1>1, <2>3
    <3> QED BY <2>1, <2>3, <3>1 DEF CircFields
  <2>4. CASE k \notin killed /\ k # c
    BY <1>1, <2>1, <2>4
  <2> QED BY <2>2, <2>3, <2>4
<1>4. \A k \in Circuits \ {c} : Milder(k)
  <2> SUFFICES ASSUME NEW k \in Circuits \ {c} PROVE Milder(k)
    OBVIOUS
  <2>0. circ[k].queue \in Nat /\ circ'[k].id = circ[k].id
    BY <1>3
  <2>1. CASE k \in killed
    <3>1. circ'[k].marked = TRUE /\ circ'[k].queue = 0
      BY <1>3, <2>1
    <3> QED BY <2>0, <3>1 DEF Milder
  <2>2. CASE k \notin killed
    <3>1. circ'[k] = circ[k]
      BY <1>1, <2>2
    <3> QED BY <2>0, <3>1 DEF Milder
  <2> QED BY <2>1, <2>2
<1>5. \A j \in Ids : entry'[j].circ = entry[j].circ
  BY <1>1 DEF IdInv, NamesAgree
<1>6. CASE c \in killed
  <2>1. entry' = entry /\ mux' = mux
    BY <1>1, <1>6 DEF Becomes, State
  <2>2. Milder(c)
    <3>1. /\ circ'[c].marked = TRUE /\ circ'[c].queue = 0
          /\ circ[c].queue \in Nat /\ circ'[c].id = circ[c].id
      BY <1>3, <1>6
    <3> QED BY <3>1 DEF Milder
  <2>3. QueuesCounted'
    BY <1>3, <1>4, <2>1, <2>2, QueuesStay
  <2>4. MuxCounts(State)'
    BY <2>1, CountsStay DEF CountInv
  <2> QED BY <2>3, <2>4 DEF CountInv
<1>7. CASE c \notin killed
  <2>1. Becomes(t)
    BY <1>1, <1>7
  <2>2. /\ MuxCounts(t)
        /\ \A j \in Ids : t.e[j].cell_count = IF j = i THEN circ'[c].queue
                                              ELSE entry[j].cell_count
    <3>1. circ'[c].id = circ[c].id /\ circ'[c].queue \in Nat
      BY <1>3
    <3> QED BY <1>1, <3>1, UpdateCounts
  <2> HIDE DEF t, i
  <2>3. MuxCounts(State)' /\ entry' = t.e
    BY <2>1, <2>2, CountsBecome DEF Becomes
  <2>4. circ'[c].id = i
    BY <1>3 DEF i
  <2>5. \A k \in Circuits \ {c} : circ'[k].id # i
    BY <1>2, <1>3
  <2>6. QueuesCounted'
    BY <1>2, <1>3, <1>4, <1>5, <2>2, <2>3, <2>4, <2>5, OneCount
  <2> QED BY <2>3, <2>6 DEF CountInv
<1> QED BY <1>6, <1>7

LEMMA MarkForCloseCounts ==
  ASSUME IdInv, IdInv', CountInv, NEW c \in Circuits, MarkForClose(c)
  PROVE  CountInv'
<1>1. circ' = [circ EXCEPT ![c].marked = TRUE] /\ entry' = entry /\ mux' = mux
  BY DEF MarkForClose
<1>2. \A k \in Circuits : circ[k].queue \in Nat /\ circ'[k].queue \in Nat /\ Milder(k)
  BY <1>1 DEF IdInv, Shapes, CircShape, CircFields, CountInv, QueuesCounted, Milder
<1>3. QueuesCounted'
  BY <1>1, <1>2, QueuesStay
<1>4. MuxCounts(State)'
  BY <1>1, CountsStay DEF CountInv
<1> QED BY <1>3, <1>4 DEF CountInv

LEMMA FreeUnlinkedCounts ==
  ASSUME IdInv, IdInv', CountInv, NEW c \in Circuits, FreeUnlinked(c)
  PROVE  CountInv'
<1>1. circ' = [circ EXCEPT ![c] = NewCirc] /\ entry' = entry /\ mux' = mux
  BY DEF FreeUnlinked
<1>2. \A k \in Circuits : /\ circ[k].queue \in Nat /\ circ'[k].queue \in Nat
                          /\ circ'[k].id # "none" => Milder(k)
  BY <1>1 DEF IdInv, Shapes, CircShape, CountInv, QueuesCounted, Milder, NewCirc
<1>3. QueuesCounted'
  BY <1>1, <1>2, QueuesStay
<1>4. MuxCounts(State)'
  BY <1>1, CountsStay DEF CountInv
<1> QED BY <1>3, <1>4 DEF CountInv

\* A circuit that leaves the channel takes its cells out of the sums.
LEMMA LeavesCounts ==
  ASSUME IdInv, IdInv', CountInv, NEW c \in Circuits, OnChannel(c), LeavesChannel(c),
         circ'[c].id = "none", circ'[c].queue \in Nat,
         \A k \in Circuits \ {c} : circ'[k] = circ[k]
  PROVE  CountInv'
<1> DEFINE i == circ[c].id
           t == circuitmux_detach_circuit(State, i)
<1>1. /\ i \in Ids /\ entry[i].circ = c /\ c # "none"
      /\ \A k \in Circuits \ {c} : circ[k].id # i
  BY OwnEntry
<1>2. Becomes(t) /\ State.e = entry
  BY DEF LeavesChannel, State
<1>3. /\ MuxCounts(t)
      /\ \A j \in Ids : t.e[j].cell_count = IF j = i THEN 0 ELSE entry[j].cell_count
  <2> HIDE DEF i
  <2> QED BY <1>1, <1>2, DetachCounts DEF CountInv
<1>4. \A j \in Ids \ {i} : t.e[j].circ = entry[j].circ
  <2>1. Shape(State)
    BY DEF CountInv, MuxCounts, HeapHolds
  <2> HIDE DEF i
  <2> QED BY <1>1, <1>2, <2>1, DetachClears
<1> HIDE DEF t, i
<1>5. MuxCounts(State)' /\ entry' = t.e
  BY <1>2, <1>3, CountsBecome DEF Becomes
<1>6. \A k \in Circuits : /\ circ[k].queue \in Nat /\ circ'[k].queue \in Nat
                          /\ circ'[k].id \in Ids => Milder(k) /\ circ'[k].id # i
  BY <1>1, MuxParameters DEF CountInv, QueuesCounted, Milder
<1>7. QueuesCounted'
  BY <1>1, <1>3, <1>4, <1>5, <1>6, OneCount
<1> QED BY <1>5, <1>7 DEF CountInv

\* circuit_about_to_free and TRUNCATE: the queue is cleared, a DESTROY waits.
LEMMA SendDestroyCounts ==
  ASSUME IdInv, IdInv', CountInv, NEW c \in Circuits, SendDestroy(c)
  PROVE  CountInv'
<1> DEFINE i == circ[c].id
           u == update_circuit_on_cmux(State, c, circ')
           t == AppendDestroy(u, i)
<1>1. /\ OnChannel(c) /\ owner' = owner
      /\ circ' = [circ EXCEPT ![c].queue = 0, ![c].delete_pending = TRUE]
      /\ Becomes(t)
  BY DEF SendDestroy
<1>2. /\ i \in Ids /\ entry[i].circ = c /\ c # "none"
      /\ \A k \in Circuits \ {c} : circ[k].id # i
  BY <1>1, OwnEntry
<1>3. /\ circ'[c].id = i /\ circ'[c].queue = 0
      /\ \A k \in Circuits \ {c} : circ'[k] = circ[k] /\ circ[k].queue \in Nat
  BY <1>1 DEF IdInv, Shapes, CircShape, CircFields, CountInv, QueuesCounted
<1>4. /\ MuxCounts(u)
      /\ \A j \in Ids : u.e[j].cell_count = IF j = i THEN 0 ELSE entry[j].cell_count
  <2>1. /\ MuxCounts(u)
        /\ \A j \in Ids : u.e[j].cell_count = IF j = i THEN circ'[c].queue
                                              ELSE entry[j].cell_count
    <3>1. circ'[c].id = circ[c].id /\ circ'[c].queue \in Nat
      BY <1>3
    <3> QED BY <1>1, <3>1, UpdateCounts
  <2> HIDE DEF u, i
  <2> QED BY <1>3, <2>1
<1> HIDE DEF u, i
<1>5. t.e = u.e /\ MuxCounts(t)
  <2>1. /\ t.e = u.e /\ Shape(t) /\ t.m.heap = u.m.heap /\ t.m.n_active = u.m.n_active
        /\ t.m.n_cells = u.m.n_cells /\ t.m.recalibrated = u.m.recalibrated
    BY <1>4 DEF AppendDestroy, MuxCounts, HeapHolds, Shape, MuxShape, MuxFields
  <2> HIDE DEF t
  <2> QED BY <1>4, <2>1, CountsCarryOver
<1> HIDE DEF t
<1>6. MuxCounts(State)' /\ entry' = t.e
  BY <1>1, <1>5, CountsBecome DEF Becomes
<1>7. \A j \in Ids : entry'[j].circ = entry[j].circ
  <2>1. \A k \in Circuits : OnChannel(k)' <=> OnChannel(k)
    BY <1>3 DEF i, OnChannel
  <2> QED BY <1>1 DEF IdInv, NamesAgree
<1>8. \A k \in Circuits \ {c} : Milder(k)
  BY <1>3 DEF Milder
<1>9. QueuesCounted'
  BY <1>2, <1>3, <1>4, <1>5, <1>6, <1>7, <1>8, OneCount
<1> QED BY <1>6, <1>9 DEF CountInv
LEMMA ProcessDestroyCounts ==
  ASSUME IdInv, IdInv', CountInv, NEW c \in Circuits, ProcessDestroy(c)
  PROVE  CountInv'
<1>1. /\ OnChannel(c) /\ LeavesChannel(c)
      /\ circ' = [circ EXCEPT ![c] = [NewCirc EXCEPT !.marked = TRUE]]
  BY DEF ProcessDestroy
<1>2. /\ circ'[c].id = "none" /\ circ'[c].queue \in Nat
      /\ \A k \in Circuits \ {c} : circ'[k] = circ[k]
  BY <1>1 DEF IdInv, Shapes, CircShape, NewCirc
<1> QED BY <1>1, <1>2, LeavesCounts

LEMMA FreedCounts ==
  ASSUME IdInv, IdInv', CountInv, NEW c \in Circuits, OnChannel(c), LeavesChannel(c),
         circ' = [circ EXCEPT ![c] = NewCirc]
  PROVE  CountInv'
<1>1. /\ circ'[c].id = "none" /\ circ'[c].queue \in Nat
      /\ \A k \in Circuits \ {c} : circ'[k] = circ[k]
  BY DEF IdInv, Shapes, CircShape, NewCirc
<1> QED BY <1>1, LeavesCounts

LEMMA FinishDestroyCounts ==
  ASSUME IdInv, IdInv', CountInv, FinishDestroy
  PROVE  CountInv'
<1>1. CASE callback.circ = "none"
  <2>1. circ' = circ /\ entry' = entry /\ mux' = mux
    BY <1>1 DEF FinishDestroy
  <2>2. MuxCounts(State)'
    BY <2>1, CountsStay DEF CountInv
  <2>3. QueuesCounted'
    BY <2>1 DEF CountInv, QueuesCounted, OnChannel
  <2> QED BY <2>2, <2>3 DEF CountInv
<1>2. CASE callback.circ # "none"
  <2>1. callback.circ \in Circuits /\ OnChannel(callback.circ)
    BY <1>2 DEF FinishDestroy, IdInv, SenderIsThere, Idle
  <2>2. LeavesChannel(callback.circ) /\ circ' = [circ EXCEPT ![callback.circ] = NewCirc]
    BY <1>2 DEF FinishDestroy
  <2> QED BY <2>1, <2>2, FreedCounts
<1> QED BY <1>1, <1>2

\* Circuits keep their queues, the mux its counts.
LEMMA NothingCounted ==
  ASSUME IdInv, IdInv', CountInv, entry' = entry,
         mux'.heap = mux.heap, mux'.n_active = mux.n_active,
         mux'.n_cells = mux.n_cells, mux'.recalibrated = mux.recalibrated,
         \A c \in Circuits : /\ circ'[c].id = circ[c].id
                             /\ circ'[c].queue = circ[c].queue
                             /\ circ'[c].marked = circ[c].marked
  PROVE  CountInv'
<1>1. MuxCounts(State)'
  BY CountsStay DEF CountInv
<1>2. QueuesCounted'
  BY DEF CountInv, QueuesCounted, OnChannel
<1> QED BY <1>1, <1>2 DEF CountInv

LEMMA RefuseCreateCounts ==
  ASSUME IdInv, IdInv', CountInv, NEW i \in Ids, RefuseCreate(i)
  PROVE  CountInv'
<1>1. /\ circ' = circ /\ entry' = entry
      /\ mux'.heap = mux.heap /\ mux'.n_active = mux.n_active
      /\ mux'.n_cells = mux.n_cells /\ mux'.recalibrated = mux.recalibrated
  BY DEF RefuseCreate, Becomes, AppendDestroy, State, IdInv, Shapes, MuxShape, MuxFields
<1> QED BY <1>1, NothingCounted

LEMMA WriteDestroyCounts ==
  ASSUME IdInv, IdInv', CountInv, WriteDestroy
  PROVE  CountInv'
<1>1. /\ entry' = entry
      /\ mux'.heap = mux.heap /\ mux'.n_active = mux.n_active
      /\ mux'.n_cells = mux.n_cells /\ mux'.recalibrated = mux.recalibrated
  BY DEF WriteDestroy, IdInv, Shapes, MuxShape, MuxFields
<1>2. \A c \in Circuits : /\ circ'[c].id = circ[c].id
                          /\ circ'[c].queue = circ[c].queue
                          /\ circ'[c].marked = circ[c].marked
  <2> DEFINE o == owner[Head(mux.destroy_queue)]
  <2>1. circ' = circ \/ (o \in Circuits /\ circ' = [circ EXCEPT ![o].delete_pending = FALSE])
    BY DEF WriteDestroy, channel_note_destroy_not_pending
  <2> HIDE DEF o
  <2>2. /\ circ = [c \in Circuits |-> circ[c]]
        /\ \A c \in Circuits : DOMAIN circ[c] = CircFields
    BY DEF IdInv, Shapes, CircShape
  <2>3. CASE circ' = circ
    BY <2>3
  <2>4. CASE o \in Circuits /\ circ' = [circ EXCEPT ![o].delete_pending = FALSE]
    BY <2>2, <2>4 DEF CircFields
  <2> QED BY <2>1, <2>3, <2>4
<1> QED BY <1>1, <1>2, NothingCounted

LEMMA FreeChannelCounts ==
  ASSUME IdInv, IdInv', CountInv, FreeChannel
  PROVE  CountInv'
<1>1. /\ circ' = circ /\ entry' = entry
      /\ mux'.heap = mux.heap /\ mux'.n_active = mux.n_active
      /\ mux'.n_cells = mux.n_cells /\ mux'.recalibrated = mux.recalibrated
  BY DEF FreeChannel, IdInv, Shapes, MuxShape, MuxFields
<1> QED BY <1>1, NothingCounted

-----------------------------------------------------------------------------
(* ... a turn of a relay cell                                               *)

\* The id at the head of the heap is that of a circuit of the channel.
LEMMA PickedIsOnChannel ==
  ASSUME IdInv, CountInv, mux.heap # <<>>
  PROVE  LET c == entry[Picked].circ
         IN  /\ Picked \in Ids /\ entry[Picked].cell_count > 0
             /\ c \in Circuits /\ OnChannel(c) /\ circ[c].id = Picked
<1> DEFINE i == Picked
<1>1. i \in Items(mux.heap) /\ Items(mux.heap) = ActiveIn(entry)
  BY HeadIndex DEF CountInv, MuxCounts, HeapHolds, State, Picked
<1>2. i \in Ids /\ entry[i].cell_count > 0
  BY <1>1 DEF ActiveIn
<1> HIDE DEF i
<1>3. entry[i].circ # "none"
  BY <1>2 DEF CountInv, QueuesCounted
<1>4. owner[i] \in Circuits /\ entry[i].circ = owner[i]
  BY <1>2, <1>3 DEF IdInv, NamesAgree
<1>5. circ[owner[i]].id = i
  BY <1>2, <1>4 DEF IdInv, NamesAgree
<1> QED BY <1>2, <1>4, <1>5, MuxParameters DEF i, OnChannel

\* The mux at the start of the turn.
LEMMA StartCounts ==
  ASSUME CountInv
  PROVE  LET s == [State EXCEPT !.m.last_cell_was_destroy = FALSE]
         IN  MuxCounts(s) /\ s.e = entry /\ s.m.heap = mux.heap
<1> DEFINE s == [State EXCEPT !.m.last_cell_was_destroy = FALSE]
<1>1. /\ Shape(s) /\ s.e = State.e /\ s.m.heap = State.m.heap
      /\ s.m.n_active = State.m.n_active /\ s.m.n_cells = State.m.n_cells
      /\ s.m.recalibrated = State.m.recalibrated
  BY DEF CountInv, MuxCounts, HeapHolds, Shape, MuxShape, MuxFields
<1>2. State.e = entry /\ State.m.heap = mux.heap
  BY DEF State
<1> HIDE DEF s
<1>3. MuxCounts(s)
  BY <1>1, CountsCarryOver DEF CountInv
<1> QED BY <1>1, <1>2, <1>3 DEF s

LEMMA WriteRelayCounts ==
  ASSUME IdInv, IdInv', CountInv, WriteRelay
  PROVE  CountInv'
<1> DEFINE i == Picked
           c == entry[i].circ
           left == circ[c].queue - 1
           start == [State EXCEPT !.m.last_cell_was_destroy = FALSE]
           xmit == circuitmux_notify_xmit_cells(start, i)
           t == circuitmux_set_num_cells(xmit, i, left)
<1>1. /\ mux.heap # <<>> /\ circ[c].queue > 0 /\ owner' = owner
      /\ circ' = [circ EXCEPT ![c].queue = left] /\ Becomes(t)
  BY DEF WriteRelay, RelayTurn
<1>2. i \in Ids /\ c \in Circuits /\ OnChannel(c) /\ circ[c].id = i
  BY <1>1, PickedIsOnChannel
<1>3. left \in Nat /\ \A k \in Circuits : circ[k].queue \in Nat
  BY <1>1, <1>2 DEF CountInv, QueuesCounted
<1>4. MuxCounts(start) /\ start.e = entry /\ start.m.heap = mux.heap
  BY StartCounts
<1> HIDE DEF start, left
<1>5. /\ MuxCounts(xmit)
      /\ \A j \in Ids : xmit.e[j].cell_count = IF j = i THEN entry[j].cell_count - 1
                                               ELSE entry[j].cell_count
  <2>1. i = Head(start.m.heap) /\ start.m.heap # <<>>
    BY <1>1, <1>4 DEF Picked
  <2> HIDE DEF i
  <2> QED BY <1>4, <2>1, XmitCounts
<1> HIDE DEF xmit, i
<1>6. /\ MuxCounts(t)
      /\ \A j \in Ids : t.e[j].cell_count = IF j = i THEN left ELSE xmit.e[j].cell_count
  BY <1>2, <1>3, <1>5, SetNumCellsCounts
<1> HIDE DEF t, c
<1>7. MuxCounts(State)' /\ entry' = t.e
  BY <1>1, <1>6, CountsBecome DEF Becomes
<1>8. \A j \in Ids : entry'[j].cell_count = IF j = i THEN left ELSE entry[j].cell_count
  BY <1>5, <1>6, <1>7
<1>9. /\ circ'[c].id = i /\ circ'[c].queue = left
      /\ \A k \in Circuits \ {c} : circ'[k] = circ[k] /\ circ[k].id # i
  <2>1. \A k \in Circuits \ {c} : circ[k].id # i
    BY <1>2, OwnEntry
  <2> QED BY <1>1, <1>2, <2>1 DEF IdInv, Shapes, CircShape, CircFields
<1>10. \A j \in Ids : entry'[j].circ = entry[j].circ
  BY <1>1 DEF IdInv, NamesAgree
<1>11. entry'[i].circ # "none"
  BY <1>2, <1>10, MuxParameters DEF c
<1>12. \A k \in Circuits \ {c} : Milder(k)
  BY <1>3, <1>9 DEF Milder
<1>13. QueuesCounted'
  BY <1>2, <1>3, <1>8, <1>9, <1>10, <1>11, <1>12, OneCount
<1> QED BY <1>7, <1>13 DEF CountInv

\* The head of the heap has no cell any more: nobody told the mux.
LEMMA SkipEmptyCounts ==
  ASSUME IdInv, IdInv', CountInv, SkipEmpty
  PROVE  CountInv'
<1> DEFINE i == Picked
           c == entry[i].circ
           start == [State EXCEPT !.m.last_cell_was_destroy = FALSE]
           t == circuitmux_set_num_cells(start, i, 0)
<1>1. /\ mux.heap # <<>> /\ circ[c].queue = 0 /\ owner' = owner
      /\ circ' = [circ EXCEPT ![c].marked = TRUE] /\ Becomes(t)
  BY DEF SkipEmpty, RelayTurn
<1>2. i \in Ids /\ c \in Circuits /\ OnChannel(c) /\ circ[c].id = i
  BY <1>1, PickedIsOnChannel
<1>3. MuxCounts(start) /\ start.e = entry
  BY StartCounts
<1> HIDE DEF start, i
<1>4. /\ MuxCounts(t)
      /\ \A j \in Ids : t.e[j].cell_count = IF j = i THEN 0 ELSE entry[j].cell_count
  BY <1>2, <1>3, SetNumCellsCounts
<1> HIDE DEF t, c
<1>5. MuxCounts(State)' /\ entry' = t.e
  BY <1>1, <1>4, CountsBecome DEF Becomes
<1>6. \A k \in Circuits : circ[k].queue \in Nat
  BY DEF CountInv, QueuesCounted
<1>7. /\ circ'[c].id = i /\ circ'[c].queue = 0
      /\ \A k \in Circuits \ {c} : circ'[k] = circ[k] /\ circ[k].id # i
  <2>1. \A k \in Circuits \ {c} : circ[k].id # i
    BY <1>2, OwnEntry
  <2> QED BY <1>1, <1>2, <2>1 DEF IdInv, Shapes, CircShape, CircFields
<1>8. \A j \in Ids : entry'[j].circ = entry[j].circ
  BY <1>1 DEF IdInv, NamesAgree
<1>9. \A k \in Circuits \ {c} : Milder(k)
  BY <1>6, <1>7 DEF Milder
<1>10. QueuesCounted'
  BY <1>2, <1>4, <1>5, <1>6, <1>7, <1>8, <1>9, OneCount
<1> QED BY <1>5, <1>10 DEF CountInv
-----------------------------------------------------------------------------
(* ... the end of the channel                                               *)

\* What circuitmux_detach_all_circuits may make of the heap h.
PartOf(h, gone) ==
  {q \in Seq(Ids) : Distinct(q) /\ Items(q) \ gone = Items(h) \ gone}

LEMMA RemoveOneStays ==
  ASSUME NEW h, NEW gone, NEW q \in PartOf(h, gone)
  PROVE  /\ remove_one_of(q, gone) \in PartOf(h, gone)
         /\ Items(q) \cap gone # {} => Len(remove_one_of(q, gone)) = Len(q) - 1
         /\ Items(q) \cap gone = {} => remove_one_of(q, gone) = q
<1>1. CASE Items(q) \cap gone = {}
  BY <1>1 DEF remove_one_of
<1>2. CASE Items(q) \cap gone # {}
  <2> DEFINE x == CHOOSE i \in Items(q) : i \in gone
             r == smartlist_pqueue_remove(q, Key(entry), x)
  <2>1. x \in Items(q) /\ x \in gone
    BY <1>2
  <2>2. remove_one_of(q, gone) = r
    BY <1>2 DEF remove_one_of
  <2> HIDE DEF x
  <2>3. r \in Seq(Ids) /\ Len(r) = Len(q) - 1 /\ Items(r) = Items(q) \ {x} /\ Distinct(r)
    BY <2>1, RemoveHolds DEF PartOf
  <2> HIDE DEF r
  <2> QED BY <1>2, <2>1, <2>2, <2>3 DEF PartOf
<1> QED BY <1>1, <1>2

\* No item of gone is left in the heap, and every other one is.
LEMMA RemoveAllHolds ==
  ASSUME NEW h \in Seq(Ids), Distinct(h), NEW gone
  PROVE  LET g == remove_all_of(h, gone)
         IN  /\ g \in Seq(Ids) /\ Distinct(g)
             /\ Items(g) = Items(h) \ gone
<1> DEFINE T == PartOf(h, gone)
           step == [q \in T |-> remove_one_of(q, gone)]
           Loops(g) == g = [n \in Nat |-> IF n = 0 THEN h ELSE remove_one_of(g[n - 1], gone)]
           a == CHOOSE g : Loops(g)
<1>1. h \in T
  BY DEF PartOf
<1>2. step \in [T -> T]
  BY RemoveOneStays
<1>3. \E g : Loops(g)
  <2>1. PICK g \in [Nat -> T] : g[0] = h /\ \A n \in Nat : g[n + 1] = step[g[n]]
    <3> HIDE DEF T, step
    <3>1. Runs(T, h, step)
      BY <1>1, <1>2, LoopsRun
    <3> QED BY <3>1 DEF Runs
  <2>2. ASSUME NEW n \in Nat
        PROVE  g[n] = IF n = 0 THEN h ELSE remove_one_of(g[n - 1], gone)
    <3>1. CASE n = 0
      BY <2>1, <3>1
    <3>2. CASE n # 0
      <4>1. n - 1 \in Nat /\ (n - 1) + 1 = n
        BY <3>2
      <4>2. g[n - 1] \in T /\ g[n] = step[g[n - 1]]
        BY <2>1, <4>1
      <4> HIDE DEF T
      <4> QED BY <3>2, <4>2
    <3> QED BY <3>1, <3>2
  <2> HIDE DEF step, T
  <2>3. Loops(g)
    BY <2>1, <2>2
  <2> QED BY <2>3
<1>4. Loops(a)
  <2> HIDE DEF Loops
  <2> QED BY <1>3
<1>5. remove_all_of(h, gone) = a[Len(h)]
  BY DEF remove_all_of
<1> HIDE DEF a
<1>6. a[0] = h /\ \A n \in Nat : a[n + 1] = remove_one_of(a[n], gone)
  <2>1. a[0] = h
    BY <1>4
  <2>2. ASSUME NEW n \in Nat PROVE a[n + 1] = remove_one_of(a[n], gone)
    <3>1. n + 1 \in Nat /\ n + 1 # 0 /\ (n + 1) - 1 = n
      OBVIOUS
    <3> QED BY <1>4, <3>1
  <2> QED BY <2>1, <2>2
\* A turn that finds an item of gone leaves the heap one shorter.
<1>7. \A n \in Nat : /\ a[n] \in T
                     /\ Items(a[n]) \cap gone = {} \/ Len(a[n]) <= Len(h) - n
  <2> DEFINE fine == {n \in Nat : /\ a[n] \in T
                                  /\ Items(a[n]) \cap gone = {} \/ Len(a[n]) <= Len(h) - n}
  <2>1. 0 \in fine
    <3>1. Len(h) \in Nat
      OBVIOUS
    <3> QED BY <1>1, <1>6, <3>1
  <2>2. ASSUME NEW n \in Nat, n \in fine PROVE n + 1 \in fine
    <3> DEFINE q == a[n]
               r == a[n + 1]
    <3>1. q \in T /\ r = remove_one_of(q, gone)
      BY <1>6, <2>2
    <3>2. Items(q) \cap gone = {} \/ Len(q) <= Len(h) - n
      BY <2>2
    <3> HIDE DEF q, r
    <3>3. /\ r \in T
          /\ Items(q) \cap gone # {} => Len(r) = Len(q) - 1
          /\ Items(q) \cap gone = {} => r = q
      BY <3>1, RemoveOneStays
    <3>4. Len(q) \in Nat /\ Len(h) \in Nat
      BY <3>1 DEF PartOf
    <3>5. Items(r) \cap gone = {} \/ Len(r) <= Len(h) - (n + 1)
      BY <3>2, <3>3, <3>4
    <3> QED BY <3>3, <3>5 DEF r
  <2> HIDE DEF fine
  <2>3. \A n \in Nat : n \in fine
    BY <2>1, <2>2, NatSetInduction
  <2> QED BY <2>3 DEF fine
<1>8. Len(h) \in Nat
  OBVIOUS
<1> DEFINE g == a[Len(h)]
<1>9. g \in T /\ (Items(g) \cap gone = {} \/ Len(g) <= Len(h) - Len(h))
  BY <1>7, <1>8
<1> HIDE DEF g
<1>10. Items(g) \cap gone = {}
  <2>1. Len(g) \in Nat
    BY <1>9 DEF PartOf
  <2>2. CASE Len(g) <= Len(h) - Len(h)
    <3>1. Len(g) = 0
      BY <1>8, <2>1, <2>2
    <3> QED BY <3>1 DEF Items
  <2> QED BY <1>9, <2>2
<1>11. g \in Seq(Ids) /\ Distinct(g) /\ Items(g) = Items(h) \ gone
  BY <1>9, <1>10 DEF PartOf
<1> QED BY <1>5, <1>11 DEF g

\* Every entry is found, so the heap is empty and nothing is counted.
LEMMA ChannelClosedCounts ==
  ASSUME IdInv, IdInv', CountInv, ChannelClosed
  PROVE  CountInv'
<1> DEFINE found == {i \in Ids : entry[i].circ # "none" /\ owner[i] \in Circuits}
           gone == {owner[i] : i \in found}
           rest == remove_all_of(mux.heap, found)
<1>1. /\ circ' = [c \in Circuits |->
                    IF c \in gone THEN [NewCirc EXCEPT !.marked = TRUE] ELSE circ[c]]
      /\ owner' = [i \in Ids |-> IF owner[i] \in gone THEN "none" ELSE owner[i]]
      /\ entry' = [i \in Ids |-> Detached]
  BY DEF ChannelClosed
<1>2. mux' = [mux EXCEPT !.n_active = 0, !.n_cells = 0, !.heap = rest]
  BY Zenon DEF ChannelClosed
<1>3. /\ mux.heap \in Seq(Ids) /\ Distinct(mux.heap)
      /\ Items(mux.heap) = ActiveIn(entry) /\ DOMAIN mux = MuxFields
  BY DEF CountInv, MuxCounts, HeapHolds, Shape, MuxShape, State
<1>4. ActiveIn(entry) \subseteq found
  <2> SUFFICES ASSUME NEW i \in Ids, entry[i].cell_count > 0 PROVE i \in found
    BY DEF ActiveIn
  <2>1. entry[i].circ # "none"
    BY DEF CountInv, QueuesCounted
  <2> QED BY <2>1 DEF IdInv, NamesAgree
<1>5. rest = <<>>
  <2> HIDE DEF found
  <2>1. rest \in Seq(Ids) /\ Items(rest) = Items(mux.heap) \ found
    BY <1>3, RemoveAllHolds
  <2> HIDE DEF rest
  <2>2. Items(rest) = {} /\ Len(rest) \in Nat
    BY <1>3, <1>4, <2>1
  <2>3. Len(rest) = 0
    <3>1. ASSUME Len(rest) # 0 PROVE FALSE
      <4>1. 1 \in 1..Len(rest)
        BY <2>2, <3>1
      <4>2. rest[1] \in Items(rest)
        BY <4>1 DEF Items
      <4> QED BY <2>2, <4>2
    <3> QED BY <3>1
  <2> QED BY <2>1, <2>3
<1> HIDE DEF rest
<1>6. /\ mux'.heap = <<>> /\ mux'.n_active = 0 /\ mux'.n_cells = 0
      /\ \A i \in Ids : entry'[i].cell_count = 0
  BY <1>1, <1>2, <1>3, <1>5 DEF MuxFields, Detached
<1>7. \A c \in Circuits : circ'[c].queue \in Nat /\ circ'[c].id = "none"
  <2>1. \A c \in Circuits : OnChannel(c) => c \in gone
    <3> SUFFICES ASSUME NEW c \in Circuits, OnChannel(c) PROVE c \in gone
      OBVIOUS
    <3>1. circ[c].id \in Ids /\ owner[circ[c].id] = c /\ entry[circ[c].id].circ = c
          /\ c # "none"
      BY OwnEntry DEF IdInv, NamesAgree
    <3> QED BY <3>1
  <2> HIDE DEF gone
  <2> QED BY <1>1, <2>1 DEF NewCirc, OnChannel, CountInv, QueuesCounted
<1>8. ActiveIn(entry') = {} /\ Counted(entry') = {}
  BY <1>6 DEF ActiveIn, Counted
<1>9. MuxCounts(State)'
  <2>1. PICK t : t = State'
    OBVIOUS
  <2>2. t.m = mux' /\ t.e = entry' /\ DOMAIN t = {"m", "e"}
    BY <2>1 DEF State
  <2>3. Shape(t)
    BY <2>2 DEF IdInv, Shapes, Shape
  <2>4. HeapHolds(t, {})
    <3>1. t.m.heap = <<>>
      BY <1>6, <2>2
    <3>2. <<>> \in Seq(Ids) /\ Distinct(<<>>) /\ Items(<<>>) = {}
      BY DEF Distinct, Items
    <3> QED BY <2>3, <3>1, <3>2 DEF HeapHolds
  <2>5. CellsCounted(t)
    <3>1. Counted(t.e) = {} /\ t.m.n_cells = 0 /\ \A i \in Ids : t.e[i].cell_count = 0
      BY <1>6, <1>8, <2>2
    <3>2. IsFiniteSet({}) /\ Cardinality({}) = 0
      BY FS_EmptySet
    <3> QED BY <3>1, <3>2 DEF CellsCounted
  <2>6. ActiveIn(t.e) = {} /\ t.m.n_active = Len(t.m.heap)
    BY <1>6, <1>8, <2>2
  <2>7. MuxCounts(t)
    BY <2>4, <2>5, <2>6 DEF MuxCounts
  <2> QED BY <2>1, <2>7
<1>10. QueuesCounted'
  BY <1>6, <1>7 DEF QueuesCounted, OnChannel
<1> QED BY <1>9, <1>10 DEF CountInv

LEMMA NextCounts ==
  ASSUME IdInv, CountInv, [Next]_vars
  PROVE  CountInv'
<1>0. IdInv'
  BY NextIdInv
<1>1. ASSUME NEW c \in Circuits, CircuitStep(c) PROVE CountInv'
  <2>1. ASSUME FreeWhileClosing(c) PROVE CountInv'
    BY <1>0, <2>1, FreedCounts DEF FreeWhileClosing
  <2>2. ASSUME NEW i \in Ids, NEW n \in 0..1, UseId(c, i, n) PROVE CountInv'
    BY <1>0, <2>2, UseIdCounts
  <2>3. ASSUME NEW n \in 1..2, ReleaseCells(c, n) PROVE CountInv'
    BY <1>0, <2>3, ReleaseCellsCounts
  <2>4. ASSUME NEW killed \in SUBSET Circuits, AppendCell(c, killed) PROVE CountInv'
    BY <1>0, <2>4, AppendCellCounts
  <2>5. CASE MarkForClose(c) \/ ProcessDestroy(c) \/ SendDestroy(c) \/ FreeUnlinked(c)
    BY <1>0, <2>5, MarkForCloseCounts, ProcessDestroyCounts, SendDestroyCounts,
       FreeUnlinkedCounts
  <2> QED BY <1>1, <2>1, <2>2, <2>3, <2>4, <2>5 DEF CircuitStep
<1>2. ASSUME NEW i \in Ids, RefuseCreate(i) PROVE CountInv'
  BY <1>0, <1>2, RefuseCreateCounts
<1>3. CASE FinishDestroy \/ WriteDestroy \/ WriteRelay \/ SkipEmpty
  BY <1>0, <1>3, FinishDestroyCounts, WriteDestroyCounts, WriteRelayCounts, SkipEmptyCounts
<1>4. CASE ChannelClosed \/ FreeChannel
  BY <1>0, <1>4, ChannelClosedCounts, FreeChannelCounts
<1>5. CASE CloseChannel \/ Tick \/ OtherMuxSends \/ UNCHANGED vars
  <2>1. circ' = circ /\ entry' = entry /\ mux' = mux
    BY <1>5 DEF CloseChannel, Tick, OtherMuxSends, vars
  <2> QED BY <1>0, <2>1, NothingCounted
<1> QED BY <1>1, <1>2, <1>3, <1>4, <1>5 DEF Next

\* A heap without duplicates has as many places as items.
LEMMA DistinctCount ==
  ASSUME NEW S, NEW h \in Seq(S), Distinct(h)
  PROVE  Cardinality(Items(h)) = Len(h)
<1>1. Len(h) \in Nat /\ h \in [1..Len(h) -> Items(h)]
  BY DEF Items
<1>2. h \in Bijection(1..Len(h), Items(h))
  BY <1>1 DEF Bijection, Injection, Surjection, IsInjective, Distinct, Items
<1>3. ExistsBijection(1..Len(h), Items(h))
  BY <1>2 DEF ExistsBijection
<1> QED BY <1>1, <1>3, FS_CountingElements

\* The circuits of a channel, its id map and its mux agree, the counters that
\* circuitmux_get_first_active_circuit asserts are the sums, and the heap of the
\* policy holds each circuit that has cells once, at the tick
\* scale_active_circuits asserts - however circuits come and go, memory runs
\* out, ticks pass and the channel closes.
THEOREM MuxAgrees == Spec => []MuxIsConsistent
<1>1. Init => IdInv /\ CountInv
  BY InitIdInv, InitCounts
<1>2. IdInv /\ CountInv /\ [Next]_vars => (IdInv /\ CountInv)'
  BY NextIdInv, NextCounts
<1>3. IdInv /\ CountInv => MuxIsConsistent
  <2> SUFFICES ASSUME IdInv, CountInv PROVE MuxIsConsistent
    OBVIOUS
  <2>0. State.m = mux /\ State.e = entry
    BY DEF State
  <2>1. ActiveIn(entry) = Active
    BY DEF ActiveIn, Active
  <2>2. /\ mux.heap \in Seq(Ids) /\ Distinct(mux.heap) /\ Items(mux.heap) = Active
        /\ \A i \in Active : entry[i].adjusted = mux.recalibrated
        /\ mux.n_active = Len(mux.heap)
        /\ mux.n_cells = Cardinality(Counted(entry))
    BY <2>0, <2>1 DEF CountInv, MuxCounts, HeapHolds, CellsCounted
  <2>3. Len(mux.heap) = Cardinality(Active)
    BY <2>2, DistinctCount
  <2>4. \A i \in Attached : owner[i] = entry[i].circ
    BY DEF IdInv, NamesAgree, Attached
  <2>5. \A i \in Ids : owner[i] \in Circuits => circ[owner[i]].id = i
    BY DEF IdInv, NamesAgree
  <2>6. \A c \in Circuits : OnChannel(c) =>
          /\ owner[circ[c].id] = c
          /\ entry[circ[c].id].circ = c
          /\ entry[circ[c].id].cell_count >= circ[c].queue
          /\ ~circ[c].marked => entry[circ[c].id].cell_count = circ[c].queue
    <3> SUFFICES ASSUME NEW c \in Circuits, OnChannel(c)
                 PROVE  /\ owner[circ[c].id] = c
                        /\ entry[circ[c].id].circ = c
                        /\ entry[circ[c].id].cell_count >= circ[c].queue
                        /\ ~circ[c].marked => entry[circ[c].id].cell_count = circ[c].queue
      OBVIOUS
    <3>1. owner[circ[c].id] = c /\ entry[circ[c].id].circ = c
      BY OwnEntry DEF IdInv, NamesAgree
    <3>2. /\ entry[circ[c].id].cell_count >= circ[c].queue
          /\ ~circ[c].marked => entry[circ[c].id].cell_count = circ[c].queue
      BY DEF CountInv, QueuesCounted
    <3> QED BY <3>1, <3>2
  <2> QED BY <2>2, <2>3, <2>4, <2>5, <2>6 DEF MuxIsConsistent
<1> QED BY <1>1, <1>2, <1>3, PTL DEF Spec

-----------------------------------------------------------------------------
(* The quietest circuit: powers of two, and weights                         *)

LEMMA Powers ==
  /\ TwoTo[0] = 1
  /\ \A n \in Nat : TwoTo[n] \in Nat \ {0} /\ TwoTo[n + 1] = 2 * TwoTo[n]
<1> DEFINE Is(g) == g = [n \in Nat |-> IF n = 0 THEN 1 ELSE 2 * g[n - 1]]
           step == [q \in Nat |-> 2 * q]
<1>1. \E g : Is(g)
  <2>1. PICK g \in [Nat -> Nat] : g[0] = 1 /\ \A n \in Nat : g[n + 1] = step[g[n]]
    <3>1. step \in [Nat -> Nat]
      OBVIOUS
    <3> HIDE DEF step
    <3>2. Runs(Nat, 1, step)
      BY <3>1, LoopsRun
    <3> QED BY <3>2 DEF Runs
  <2>2. ASSUME NEW n \in Nat PROVE g[n] = IF n = 0 THEN 1 ELSE 2 * g[n - 1]
    <3>1. CASE n = 0
      BY <2>1, <3>1
    <3>2. CASE n # 0
      <4>1. n - 1 \in Nat /\ (n - 1) + 1 = n
        BY <3>2
      <4> QED BY <2>1, <3>2, <4>1
    <3> QED BY <3>1, <3>2
  <2>3. Is(g)
    BY <2>1, <2>2
  <2> QED BY <2>3
<1>2. Is(TwoTo)
  <2>1. TwoTo = CHOOSE g : Is(g)
    BY DEF TwoTo
  <2> HIDE DEF Is
  <2> QED BY <1>1, <2>1
<1>3. /\ TwoTo[0] = 1
      /\ \A n \in Nat : TwoTo[n + 1] = 2 * TwoTo[n]
  <2>1. TwoTo[0] = 1
    BY <1>2
  <2>2. ASSUME NEW n \in Nat PROVE TwoTo[n + 1] = 2 * TwoTo[n]
    <3>1. n + 1 \in Nat /\ n + 1 # 0 /\ (n + 1) - 1 = n
      OBVIOUS
    <3> QED BY <1>2, <3>1
  <2> QED BY <2>1, <2>2
<1> DEFINE fine == {n \in Nat : TwoTo[n] \in Nat \ {0}}
<1>4. 0 \in fine
  BY <1>3
<1>5. ASSUME NEW n \in Nat, n \in fine PROVE n + 1 \in fine
  BY <1>3, <1>5
<1> HIDE DEF fine
<1>6. \A n \in Nat : n \in fine
  BY <1>4, <1>5, NatSetInduction
<1> QED BY <1>3, <1>6 DEF fine

LEMMA PowersMultiply ==
  ASSUME NEW m \in Nat, NEW n \in Nat
  PROVE  TwoTo[m + n] = TwoTo[m] * TwoTo[n]
<1> DEFINE fine == {k \in Nat : TwoTo[m + k] = TwoTo[m] * TwoTo[k]}
<1>1. 0 \in fine
  BY Powers
<1>2. ASSUME NEW k \in Nat, k \in fine PROVE k + 1 \in fine
  <2>1. m + k \in Nat /\ m + (k + 1) = (m + k) + 1
    OBVIOUS
  <2>2. TwoTo[m + (k + 1)] = 2 * TwoTo[m + k] /\ TwoTo[k + 1] = 2 * TwoTo[k]
    BY <2>1, Powers
  <2>3. \A a, b \in Nat : 2 * (a * b) = a * (2 * b)
    OBVIOUS
  <2>4. TwoTo[m] \in Nat /\ TwoTo[k] \in Nat
    BY Powers
  <2>5. 2 * (TwoTo[m] * TwoTo[k]) = TwoTo[m] * (2 * TwoTo[k])
    BY <2>3, <2>4
  <2> QED BY <1>2, <2>2, <2>5
<1> HIDE DEF fine
<1>3. n \in fine
  BY <1>1, <1>2, NatSetInduction
<1> QED BY <1>3 DEF fine

LEMMA DivideProduct ==
  ASSUME NEW k \in Nat \ {0}, NEW a \in Nat
  PROVE  (k * a) \div k = a
<1>1. k * a \in Nat
  OBVIOUS
<1> QED BY <1>1

\* The weight, in units of the code at tick 0, of a cell sent at time 0, when
\* it is kept at the scale of a tick.  A tick the process has seen.
Top == MaxTime + 2 * TickLen
Weighs(tick) == TwoTo[Top - TickLen * tick]
InTime(tick) == tick \in Nat /\ TickLen * tick \in Nat /\ TickLen * tick <= MaxTime

LEMMA Exponents ==
  ASSUME NEW tick, InTime(tick)
  PROVE  Top \in Nat /\ Top - TickLen * tick \in Nat /\ Weighs(tick) \in Nat \ {0}
<1>1. TickLen \in Nat /\ MaxTime \in Nat
  BY MuxParameters
<1>2. Top \in Nat /\ Top - TickLen * tick \in Nat
  BY <1>1 DEF InTime, Top
<1> QED BY <1>2, Powers DEF Weighs

\* Rescaling loses nothing.
LEMMA ScalingIsExact ==
  ASSUME NEW a, NEW b, InTime(a), InTime(b), NEW x \in Nat
  PROVE  Scaled(Weighs(a) * x, a, b) = Weighs(b) * x
<1> DEFINE A == TickLen * a
           B == TickLen * b
<1>1. /\ a \in Nat /\ b \in Nat /\ A \in Nat /\ B \in Nat
      /\ TickLen * (b - a) = B - A /\ TickLen * (a - b) = A - B
      /\ (a <= b => A <= B) /\ (b <= a => B <= A)
  BY MuxParameters DEF InTime
<1>2. Top \in Nat /\ Top - A \in Nat /\ Top - B \in Nat
  BY Exponents
<1>3. Weighs(a) \in Nat /\ Weighs(b) \in Nat /\ Weighs(a) = TwoTo[Top - A]
      /\ Weighs(b) = TwoTo[Top - B]
  BY Exponents DEF Weighs
<1>4. \A u, v, w \in Nat : (u * v) * w = u * (v * w) /\ (u * v) * w = (u * w) * v
  OBVIOUS
<1> HIDE DEF A, B
<1>5. CASE a <= b
  <2>1. B - A \in Nat /\ (B - A) + (Top - B) = Top - A
    BY <1>1, <1>2, <1>5
  <2>2. TwoTo[Top - A] = TwoTo[B - A] * TwoTo[Top - B]
    BY <1>2, <2>1, PowersMultiply
  <2>3. TwoTo[B - A] \in Nat \ {0}
    BY <2>1, Powers
  <2>4. Weighs(a) * x = TwoTo[B - A] * (Weighs(b) * x)
    BY <1>3, <1>4, <2>2, <2>3
  <2>5. Scaled(Weighs(a) * x, a, b) = (Weighs(a) * x) \div TwoTo[B - A]
    BY <1>1, <1>5 DEF Scaled
  <2>6. Weighs(b) * x \in Nat
    BY <1>3
  <2> QED BY <2>3, <2>4, <2>5, <2>6, DivideProduct
<1>6. CASE ~(a <= b)
  <2>1. A - B \in Nat /\ (Top - A) + (A - B) = Top - B
    BY <1>1, <1>2, <1>6
  <2>2. TwoTo[Top - B] = TwoTo[Top - A] * TwoTo[A - B]
    BY <1>2, <2>1, PowersMultiply
  <2>3. TwoTo[A - B] \in Nat
    BY <2>1, Powers
  <2>4. Scaled(Weighs(a) * x, a, b) = (Weighs(a) * x) * TwoTo[A - B]
    BY <1>1, <1>6 DEF Scaled
  <2> QED BY <1>3, <1>4, <2>2, <2>3, <2>4
<1> QED BY <1>5, <1>6

\* What ewma_notify_xmit_cells adds is the weight of one cell sent now.
LEMMA CellWeighs ==
  ASSUME NEW tick, InTime(tick), NEW now \in Nat, TickLen * tick <= now
  PROVE  Unit * TwoTo[now - TickLen * tick] = Weighs(tick) * TwoTo[now]
<1> DEFINE T == TickLen * tick
<1>1. T \in Nat /\ now - T \in Nat /\ Top \in Nat /\ Top - T \in Nat
      /\ Top + (now - T) = (Top - T) + now
  BY Exponents DEF InTime
<1>2. Unit = TwoTo[Top] /\ Weighs(tick) = TwoTo[Top - T]
  BY DEF Unit, Top, Weighs
<1> HIDE DEF T
<1>3. Unit * TwoTo[now - T] = Weighs(tick) * TwoTo[now]
  BY <1>1, <1>2, PowersMultiply
<1> QED BY <1>3 DEF T

LEMMA CompareProducts ==
  ASSUME NEW w \in Nat \ {0}, NEW x \in Nat, NEW y \in Nat
  PROVE  (w * x <= w * y) <=> (x <= y)
OBVIOUS

\* Every weight is, at its own scale, the sum of what was sent.
WeightsTrue(s, f) ==
  /\ InTime(s.m.recalibrated)
  /\ \A i \in Ids : /\ InTime(s.e[i].adjusted)
                    /\ s.e[i].weight = Weighs(s.e[i].adjusted) * f[i]

\* At one scale, weights are in the order of the sums.
LEMMA SameOrder ==
  ASSUME NEW s, NEW f \in [Ids -> Nat], WeightsTrue(s, f), NEW h \in Seq(Ids),
         \A i \in Items(h) : s.e[i].adjusted = s.m.recalibrated
  PROVE  /\ Key(s.e) \in [Ids -> Int]
         /\ HeapOk(h, Key(s.e)) <=> HeapOk(h, f)
         /\ HeapAbove(h, Key(s.e), 1) <=> HeapAbove(h, f, 1)
<1> DEFINE key == Key(s.e)
<1>1. ASSUME NEW i \in Ids
      PROVE  key[i] \in Nat /\ f[i] \in Nat /\ key[i] = Weighs(s.e[i].adjusted) * f[i]
             /\ Weighs(s.e[i].adjusted) \in Nat \ {0}
  <2>1. InTime(s.e[i].adjusted) /\ s.e[i].weight = Weighs(s.e[i].adjusted) * f[i]
    BY DEF WeightsTrue
  <2>2. Weighs(s.e[i].adjusted) \in Nat \ {0} /\ f[i] \in Nat
    BY <2>1, Exponents
  <2> QED BY <2>1, <2>2 DEF Key
<1>2. key \in [Ids -> Int]
  BY <1>1 DEF Key
<1> HIDE DEF key
<1>3. ASSUME NEW j \in 1..Len(h), NEW k \in 1..Len(h)
      PROVE  key[h[j]] <= key[h[k]] <=> f[h[j]] <= f[h[k]]
  <2> DEFINE w == Weighs(s.m.recalibrated)
             x == h[j]
             y == h[k]
  <2>1. /\ x \in Ids /\ y \in Ids
        /\ s.e[x].adjusted = s.m.recalibrated /\ s.e[y].adjusted = s.m.recalibrated
    BY DEF Items
  <2> HIDE DEF x, y
  <2>2. key[x] = w * f[x] /\ key[y] = w * f[y] /\ w \in Nat \ {0}
        /\ f[x] \in Nat /\ f[y] \in Nat
    BY <1>1, <2>1
  <2> HIDE DEF w
  <2> QED BY <2>2, CompareProducts DEF x, y
<1>4. Len(h) \in Nat
  BY LenProperties
<1>5. \A k \in 2..Len(h) : Parent(k) \in 1..Len(h) /\ k \in 1..Len(h)
  <2>1. \A k \in 2..Len(h) : Parent(k) \in 1..(k - 1)
    BY <1>4, Parents
  <2> QED BY <1>4, <2>1
<1>6. HeapOk(h, key) <=> HeapOk(h, f)
  BY <1>3, <1>5 DEF HeapOk
<1>7. HeapAbove(h, key, 1) <=> HeapAbove(h, f, 1)
  <2>1. ~(1 > 1)
    OBVIOUS
  <2>2. HeapAbove(h, key, 1) <=>
          \A k \in 2..Len(h) : Parent(k) # 1 => key[h[Parent(k)]] <= key[h[k]]
    BY <2>1, Zenon DEF HeapAbove
  <2>3. HeapAbove(h, f, 1) <=>
          \A k \in 2..Len(h) : Parent(k) # 1 => f[h[Parent(k)]] <= f[h[k]]
    BY <2>1, Zenon DEF HeapAbove
  <2> QED BY <1>3, <1>5, <2>2, <2>3
<1> QED BY <1>2, <1>6, <1>7 DEF key

-----------------------------------------------------------------------------
(* ... the heap in the order of the sums                                    *)

\* smartlist_pqueue_pop also repairs a heap whose first item became heavier.
LEMMA PopRepairs ==
  ASSUME NEW S, NEW h \in Seq(S), h # <<>>, Distinct(h), NEW key \in [S -> Int],
         HeapAbove(h, key, 1)
  PROVE  HeapOk(smartlist_pqueue_pop(h, key), key)
<1> DEFINE r == last_to(h, 1)
           n == Len(h)
<1>1. Head(h) \in Items(h) /\ heap_index(h, Head(h)) = 1
  BY HeadIndex
<1>2. n \in Nat /\ n >= 1 /\ 1 \in 1..n
  OBVIOUS
<1>3. /\ r \in Seq(S) /\ Len(r) = n - 1
      /\ \A k \in 1..(n - 1) : r[k] = IF k = 1 THEN h[n] ELSE h[k]
  BY <1>2, LastToHolds
<1>4. smartlist_pqueue_pop(h, key) = IF 1 = n THEN r ELSE smartlist_heapify(r, key, 1)
  BY <1>1 DEF smartlist_pqueue_pop, smartlist_pqueue_remove
<1>5. ASSUME NEW k \in 2..n, Parent(k) # 1 PROVE key[h[Parent(k)]] <= key[h[k]]
  BY <1>5 DEF HeapAbove
<1> HIDE DEF r, n
<1>6. CASE n = 1
  <2>1. Len(r) = 0
    BY <1>3, <1>6
  <2> QED BY <1>4, <1>6, <2>1 DEF HeapOk
<1>7. CASE n # 1
  <2>1. 1 \in 1..Len(r)
    BY <1>2, <1>3, <1>7
  <2>2. ASSUME NEW k \in 2..(n - 1), Parent(k) # 1
        PROVE  key[r[Parent(k)]] <= key[r[k]]
    <3>1. Parent(k) \in 1..(k - 1)
      BY <1>2, Parents
    <3>2. Parent(k) \in 1..(n - 1) /\ k \in 1..(n - 1) /\ k \in 2..n /\ k # 1
      BY <1>2, <3>1
    <3>3. r[Parent(k)] = h[Parent(k)] /\ r[k] = h[k]
      BY <1>3, <2>2, <3>2
    <3> QED BY <1>5, <2>2, <3>2, <3>3
  <2>3. HeapAbove(r, key, 1)
    <3>1. ~(1 > 1)
      OBVIOUS
    <3> QED BY <1>3, <2>2, <3>1, Zenon DEF HeapAbove
  <2> QED BY <1>3, <1>4, <1>7, <2>1, <2>3, HeapifyOrders
<1> QED BY <1>6, <1>7

\* The first item of a heap is before all others.
LEMMA HeadIsLeast ==
  ASSUME NEW S, NEW h \in Seq(S), NEW key \in [S -> Int], HeapOk(h, key),
         NEW x \in Items(h)
  PROVE  key[Head(h)] <= key[x]
<1> DEFINE v(k) == key[h[k]]
           above(n) == \A k \in 1..Len(h) : k <= n => v(1) <= v(k)
           fine == {n \in Nat : above(n)}
<1>0. Len(h) \in Nat /\ \A k \in 1..Len(h) : v(k) \in Int
  BY ElementOfSeq, LenProperties
<1>1. 0 \in fine
  BY <1>0
<1>2. ASSUME NEW n \in Nat, n \in fine PROVE n + 1 \in fine
  <2>1. ASSUME NEW k \in 1..Len(h), k <= n + 1 PROVE v(1) <= v(k)
    <3>1. CASE k <= n
      BY <1>2, <3>1
    <3>2. CASE k = 1
      BY <1>0, <3>2
    <3>3. CASE k > n /\ k # 1
      <4>1. k \in 2..Len(h) /\ k = n + 1
        BY <1>0, <2>1, <3>3
      <4>2. Parent(k) \in 1..(k - 1)
        BY <1>0, <4>1, Parents
      <4>3. Parent(k) \in 1..Len(h) /\ Parent(k) <= n /\ 1 \in 1..Len(h)
        BY <1>0, <4>1, <4>2
      <4>4. v(1) <= v(Parent(k))
        <5> HIDE DEF v
        <5> QED BY <1>2, <4>3
      <4>5. v(Parent(k)) <= v(k)
        BY <4>1 DEF HeapOk
      <4>6. v(1) \in Int /\ v(Parent(k)) \in Int /\ v(k) \in Int
        <5> HIDE DEF v
        <5> QED BY <1>0, <4>3
      <4> HIDE DEF v
      <4> QED BY <4>4, <4>5, <4>6
    <3> QED BY <2>1, <3>1, <3>2, <3>3
  <2> HIDE DEF v
  <2> QED BY <2>1
<1> HIDE DEF fine
<1>3. Len(h) \in fine
  BY <1>0, <1>1, <1>2, NatSetInduction
<1>4. PICK k \in 1..Len(h) : x = h[k]
  BY DEF Items
<1>5. v(1) <= v(k)
  <2>1. above(Len(h))
    BY <1>3 DEF fine
  <2> HIDE DEF v
  <2> QED BY <1>0, <2>1
<1>6. Head(h) = h[1]
  BY <1>4
<1> QED BY <1>4, <1>5, <1>6

\* The mux weighs truly what f says was sent, and its heap is in this order.
Ordered(s, f) == WeightsTrue(s, f) /\ HeapOk(s.m.heap, f)

LEMMA AddOrdered ==
  ASSUME NEW s, NEW A \in SUBSET Ids, HeapHolds(s, A), NEW i \in Ids, i \notin A,
         NEW f \in [Ids -> Nat], Ordered(s, f)
  PROVE  Ordered(add_cell_ewma(s, i), f)
<1> DEFINE r == s.m.recalibrated
           e == [s.e EXCEPT ![i].weight = Scaled(@, s.e[i].adjusted, s.m.recalibrated),
                            ![i].adjusted = s.m.recalibrated]
           h == smartlist_pqueue_add(s.m.heap, Key(e), i)
           t == add_cell_ewma(s, i)
           u == [s EXCEPT !.e = e]
<1>1. t = [s EXCEPT !.e = e, !.m.heap = h]
  BY DEF add_cell_ewma
<1>2. /\ s.m.heap \in Seq(Ids) /\ Items(s.m.heap) = A
      /\ \A j \in A : s.e[j].adjusted = r
      /\ DOMAIN s = {"m", "e"} /\ DOMAIN s.m = MuxFields
      /\ s.e = [j \in Ids |-> s.e[j]] /\ \A j \in Ids : DOMAIN s.e[j] = EntryFields
  BY DEF HeapHolds, Shape, MuxShape
<1>3. /\ InTime(r)
      /\ \A j \in Ids : /\ InTime(s.e[j].adjusted) /\ f[j] \in Nat
                        /\ s.e[j].weight = Weighs(s.e[j].adjusted) * f[j]
  BY DEF Ordered, WeightsTrue
<1>4. \A j \in Ids :
        /\ e[j].adjusted = IF j = i THEN r ELSE s.e[j].adjusted
        /\ e[j].weight = IF j = i THEN Scaled(s.e[i].weight, s.e[i].adjusted, r)
                         ELSE s.e[j].weight
  BY <1>2 DEF EntryFields
<1>5. Scaled(s.e[i].weight, s.e[i].adjusted, r) = Weighs(r) * f[i]
  BY <1>3, ScalingIsExact
<1>6. t.e = e /\ t.m.heap = h /\ t.m.recalibrated = r
  BY <1>1, <1>2 DEF MuxFields
<1>7. u.e = e /\ u.m = s.m
  BY <1>2
<1>h. h = smartlist_pqueue_add(s.m.heap, Key(e), i)
  OBVIOUS
<1> HIDE DEF e, h, t, u, r
<1>8. WeightsTrue(t, f)
  BY <1>3, <1>4, <1>5, <1>6 DEF WeightsTrue
<1>9. WeightsTrue(u, f)
  BY <1>3, <1>4, <1>5, <1>7 DEF WeightsTrue, r
<1>10. \A j \in A \union {i} : e[j].adjusted = r
  BY <1>2, <1>4
<1>11. Key(e) \in [Ids -> Int] /\ HeapOk(s.m.heap, Key(e))
  <2>1. \A j \in Items(s.m.heap) : u.e[j].adjusted = u.m.recalibrated
    BY <1>2, <1>7, <1>10 DEF r
  <2>2. Key(u.e) \in [Ids -> Int] /\ (HeapOk(s.m.heap, Key(u.e)) <=> HeapOk(s.m.heap, f))
    BY <1>2, <1>9, <2>1, SameOrder
  <2> QED BY <1>7, <2>2 DEF Ordered
<1>12. HeapOk(h, Key(e))
  BY <1>2, <1>11, <1>h, AddOrders
<1>13. h \in Seq(Ids) /\ Items(h) = A \union {i}
  BY <1>2, <1>h, AddHolds
<1>14. HeapOk(h, f)
  <2>1. \A j \in Items(h) : t.e[j].adjusted = t.m.recalibrated
    BY <1>6, <1>10, <1>13
  <2>2. HeapOk(h, Key(t.e)) <=> HeapOk(h, f)
    BY <1>8, <1>13, <2>1, SameOrder
  <2> QED BY <1>6, <1>12, <2>2
<1> QED BY <1>6, <1>8, <1>14 DEF Ordered, t

LEMMA RemoveOrdered ==
  ASSUME NEW s, NEW A \in SUBSET Ids, HeapHolds(s, A), NEW i \in A,
         NEW f \in [Ids -> Nat], Ordered(s, f), Len(s.m.heap) <= 5
  PROVE  Ordered(remove_cell_ewma(s, i), f)
<1> DEFINE h == smartlist_pqueue_remove(s.m.heap, Key(s.e), i)
           t == remove_cell_ewma(s, i)
<1>1. /\ s.m.heap \in Seq(Ids) /\ Items(s.m.heap) = A /\ Distinct(s.m.heap)
      /\ \A j \in A : s.e[j].adjusted = s.m.recalibrated
      /\ DOMAIN s = {"m", "e"} /\ DOMAIN s.m = MuxFields
  BY DEF HeapHolds, Shape, MuxShape
<1>2. t.e = s.e /\ t.m.heap = h /\ t.m.recalibrated = s.m.recalibrated
  BY <1>1 DEF remove_cell_ewma, MuxFields
<1>3. h \in Seq(Ids) /\ Items(h) = A \ {i}
  BY <1>1, RemoveHolds
<1>4. WeightsTrue(s, f) /\ HeapOk(s.m.heap, f)
  BY DEF Ordered
<1>5. Key(s.e) \in [Ids -> Int] /\ HeapOk(s.m.heap, Key(s.e))
  BY <1>1, <1>4, SameOrder
<1>6. HeapOk(h, Key(s.e))
  BY <1>1, <1>5, SmallRemoveOrders
<1> HIDE DEF h, t
<1>7. HeapOk(h, f)
  BY <1>1, <1>3, <1>4, <1>6, SameOrder
<1>8. WeightsTrue(t, f)
  BY <1>2, <1>4 DEF WeightsTrue
<1> QED BY <1>2, <1>7, <1>8 DEF Ordered, t

LEMMA ScaleOrdered ==
  ASSUME NEW s, NEW A \in SUBSET Ids, HeapHolds(s, A), NEW tick, InTime(tick),
         NEW f \in [Ids -> Nat], Ordered(s, f)
  PROVE  Ordered(scale_active_circuits(s, tick), f)
<1> DEFINE e == [i \in Ids |->
                  IF i \in Items(s.m.heap)
                  THEN [s.e[i] EXCEPT !.weight = Scaled(@, s.m.recalibrated, tick),
                                      !.adjusted = tick]
                  ELSE s.e[i]]
           t == scale_active_circuits(s, tick)
<1>1. t = [s EXCEPT !.e = e, !.m.recalibrated = tick]
  BY DEF scale_active_circuits
<1>2. /\ Items(s.m.heap) = A /\ \A j \in A : s.e[j].adjusted = s.m.recalibrated
      /\ DOMAIN s = {"m", "e"} /\ DOMAIN s.m = MuxFields
      /\ \A j \in Ids : DOMAIN s.e[j] = EntryFields
  BY DEF HeapHolds, Shape, MuxShape
<1>3. /\ InTime(s.m.recalibrated) /\ HeapOk(s.m.heap, f)
      /\ \A j \in Ids : /\ InTime(s.e[j].adjusted) /\ f[j] \in Nat
                        /\ s.e[j].weight = Weighs(s.e[j].adjusted) * f[j]
  BY DEF Ordered, WeightsTrue
<1>4. \A j \in Ids : IF j \in A
        THEN e[j].adjusted = tick
             /\ e[j].weight = Scaled(s.e[j].weight, s.m.recalibrated, tick)
        ELSE e[j] = s.e[j]
  BY <1>2 DEF EntryFields
<1>5. t.e = e /\ t.m.heap = s.m.heap /\ t.m.recalibrated = tick
  BY <1>1, <1>2 DEF MuxFields
<1> HIDE DEF e, t
<1>6. ASSUME NEW j \in Ids
      PROVE  InTime(e[j].adjusted) /\ e[j].weight = Weighs(e[j].adjusted) * f[j]
  <2>1. CASE j \in A
    <3>1. Scaled(s.e[j].weight, s.m.recalibrated, tick) = Weighs(tick) * f[j]
      BY <1>2, <1>3, <2>1, ScalingIsExact
    <3> QED BY <1>4, <2>1, <3>1
  <2>2. CASE j \notin A
    BY <1>3, <1>4, <2>2
  <2> QED BY <2>1, <2>2
<1> QED BY <1>3, <1>5, <1>6 DEF Ordered, WeightsTrue, t

\* From s to t only counts and the queue of DESTROYs may change.
SameWeights(s, t) ==
  /\ Shape(t)
  /\ t.m.heap = s.m.heap /\ t.m.recalibrated = s.m.recalibrated
  /\ \A i \in Ids : t.e[i].weight = s.e[i].weight /\ t.e[i].adjusted = s.e[i].adjusted

LEMMA WeightsCarryOver ==
  ASSUME NEW s, NEW t, SameWeights(s, t)
  PROVE  /\ \A A \in SUBSET Ids : HeapHolds(s, A) => HeapHolds(t, A)
         /\ \A f \in [Ids -> Nat] : Ordered(s, f) => Ordered(t, f)
<1>1. ASSUME NEW A \in SUBSET Ids, HeapHolds(s, A) PROVE HeapHolds(t, A)
  BY <1>1 DEF HeapHolds, SameWeights
<1>2. ASSUME NEW f \in [Ids -> Nat], Ordered(s, f) PROVE Ordered(t, f)
  BY <1>2 DEF Ordered, WeightsTrue, SameWeights
<1> QED BY <1>1, <1>2

LEMMA SetNumCellsOrdered ==
  ASSUME NEW s, MuxCounts(s), NEW i \in Ids, NEW n \in Nat,
         NEW f \in [Ids -> Nat], Ordered(s, f), Len(s.m.heap) <= 5
  PROVE  Ordered(circuitmux_set_num_cells(s, i, n), f)
<1> DEFINE old == s.e[i].cell_count
           A == ActiveIn(s.e)
           counted == [s EXCEPT !.e[i].cell_count = n, !.m.n_cells = @ - old + n]
           fewer == [counted EXCEPT !.m.n_active = @ - 1]
           more == [counted EXCEPT !.m.n_active = @ + 1]
           t == circuitmux_set_num_cells(s, i, n)
<1>1. HeapHolds(s, A) /\ A \in SUBSET Ids /\ old \in Nat /\ (i \in A <=> old > 0)
  BY DEF MuxCounts, CellsCounted, ActiveIn
<1>2. SameWeights(s, counted) /\ SameWeights(s, fewer) /\ SameWeights(s, more)
  <2>1. Shape(s)
    BY <1>1 DEF HeapHolds
  <2>2. SameWeights(s, counted)
    BY <2>1 DEF SameWeights, Shape, MuxShape, EntryFields, MuxFields
  <2>3. SameWeights(s, fewer)
    <3> HIDE DEF counted
    <3> QED BY <2>2 DEF SameWeights, Shape, MuxShape, MuxFields
  <2>4. SameWeights(s, more)
    <3> HIDE DEF counted
    <3> QED BY <2>2 DEF SameWeights, Shape, MuxShape, MuxFields
  <2> QED BY <2>2, <2>3, <2>4
<1>3. t = CASE old > 0 /\ n = 0 -> remove_cell_ewma(fewer, i)
            [] old = 0 /\ n > 0 -> add_cell_ewma(more, i)
            [] OTHER -> counted
  BY DEF circuitmux_set_num_cells
<1> HIDE DEF counted, fewer, more, A, t, old
<1>4. HeapHolds(fewer, A) /\ HeapHolds(more, A)
      /\ Ordered(fewer, f) /\ Ordered(more, f) /\ Ordered(counted, f)
  BY <1>1, <1>2, WeightsCarryOver
<1>5. CASE old > 0 /\ n = 0
  <2>1. t = remove_cell_ewma(fewer, i) /\ i \in A /\ Len(fewer.m.heap) <= 5
    BY <1>1, <1>2, <1>3, <1>5 DEF SameWeights
  <2> QED BY <1>1, <1>4, <2>1, RemoveOrdered DEF t
<1>6. CASE old = 0 /\ n > 0
  <2>1. t = add_cell_ewma(more, i) /\ i \notin A
    BY <1>1, <1>3, <1>6
  <2> QED BY <1>1, <1>4, <2>1, AddOrdered DEF t
<1>7. CASE ~(old > 0 /\ n = 0) /\ ~(old = 0 /\ n > 0)
  <2>1. t = counted
    BY <1>3, <1>7
  <2> QED BY <1>4, <2>1 DEF t
<1> QED BY <1>5, <1>6, <1>7

LEMMA AttachOrdered ==
  ASSUME NEW s, MuxCounts(s), NEW i \in Ids, NEW n \in Nat, NEW c,
         s.e[i].circ = "none", s.e[i].cell_count = 0, InTime(cell_ewma_get_tick),
         NEW f \in [Ids -> Nat], f[i] = 0, Ordered(s, f), Len(s.m.heap) <= 5
  PROVE  Ordered(circuitmux_attach_circuit(s, c, i, n), f)
<1> DEFINE new == [s EXCEPT !.e[i] = [Detached EXCEPT !.circ = c,
                                             !.adjusted = cell_ewma_get_tick]]
<1>1. /\ Shape(new) /\ new.m = s.m
      /\ \A j \in Ids : new.e[j].cell_count = s.e[j].cell_count
      /\ \A j \in Ids \ {i} : new.e[j] = s.e[j]
      /\ new.e[i].weight = 0 /\ new.e[i].adjusted = cell_ewma_get_tick
  BY DEF MuxCounts, HeapHolds, Shape, MuxShape, EntryFields, MuxFields, Detached
<1>2. circuitmux_attach_circuit(s, c, i, n) = circuitmux_set_num_cells(new, i, n)
  BY DEF circuitmux_attach_circuit
<1> HIDE DEF new
<1>3. MuxCounts(new)
  <2>1. ActiveIn(new.e) = ActiveIn(s.e) /\ Counted(new.e) = Counted(s.e)
    BY <1>1 DEF ActiveIn, Counted
  <2>2. \A j \in ActiveIn(s.e) : j \in Ids \ {i}
    BY DEF ActiveIn
  <2>3. HeapHolds(new, ActiveIn(new.e))
    BY <1>1, <2>1, <2>2 DEF MuxCounts, HeapHolds
  <2> QED BY <1>1, <2>1, <2>3 DEF MuxCounts, CellsCounted
<1>4. Ordered(new, f)
  <2>1. InTime(new.m.recalibrated) /\ HeapOk(new.m.heap, f)
    BY <1>1 DEF Ordered, WeightsTrue
  <2>2. ASSUME NEW j \in Ids
        PROVE  InTime(new.e[j].adjusted)
               /\ new.e[j].weight = Weighs(new.e[j].adjusted) * f[j]
    <3>1. CASE j = i
      <4>1. Weighs(cell_ewma_get_tick) \in Nat
        BY Exponents
      <4>2. Weighs(cell_ewma_get_tick) * 0 = 0
        BY <4>1
      <4> QED BY <1>1, <3>1, <4>2
    <3>2. CASE j # i
      BY <1>1, <3>2 DEF Ordered, WeightsTrue
    <3> QED BY <3>1, <3>2
  <2> QED BY <2>1, <2>2 DEF Ordered, WeightsTrue
<1> QED BY <1>1, <1>2, <1>3, <1>4, SetNumCellsOrdered

\* An order of items does not depend on what is not there.
LEMMA OrderElsewhere ==
  ASSUME NEW h \in Seq(Ids), NEW f, NEW g, \A j \in Items(h) : f[j] = g[j], HeapOk(h, f)
  PROVE  HeapOk(h, g)
<1>1. Len(h) \in Nat
  BY LenProperties
<1>2. ASSUME NEW k \in 2..Len(h) PROVE g[h[Parent(k)]] <= g[h[k]]
  <2>1. Parent(k) \in 1..(k - 1)
    BY <1>1, Parents
  <2>2. h[Parent(k)] \in Items(h) /\ h[k] \in Items(h)
    <3>1. Parent(k) \in 1..Len(h) /\ k \in 1..Len(h)
      BY <1>1, <2>1
    <3> QED BY <3>1 DEF Items
  <2>3. f[h[Parent(k)]] <= f[h[k]]
    BY DEF HeapOk
  <2> QED BY <2>2, <2>3
<1> QED BY <1>2 DEF HeapOk

LEMMA DetachOrdered ==
  ASSUME NEW s, MuxCounts(s), NEW i \in Ids, s.e[i].circ # "none",
         NEW f \in [Ids -> Nat], Ordered(s, f), Len(s.m.heap) <= 5
  PROVE  Ordered(circuitmux_detach_circuit(s, i), [f EXCEPT ![i] = 0])
<1> DEFINE quiet == IF s.e[i].cell_count = 0 THEN s ELSE circuitmux_set_num_cells(s, i, 0)
           new == [quiet EXCEPT !.e[i] = Detached]
           g == [f EXCEPT ![i] = 0]
<1>1. /\ MuxCounts(quiet)
      /\ \A j \in Ids : quiet.e[j].cell_count = IF j = i THEN 0 ELSE s.e[j].cell_count
  BY SetNumCellsCounts
<1>2. Ordered(quiet, f)
  BY SetNumCellsOrdered
<1>3. circuitmux_detach_circuit(s, i) = new
  BY DEF circuitmux_detach_circuit
<1> HIDE DEF quiet
<1>4. /\ new.m = quiet.m
      /\ new.e[i].weight = 0 /\ new.e[i].adjusted = 0
      /\ \A j \in Ids \ {i} : new.e[j] = quiet.e[j]
  BY <1>1 DEF MuxCounts, HeapHolds, Shape, MuxShape, Detached
<1>5. /\ g[i] = 0 /\ \A j \in Ids \ {i} : g[j] = f[j]
  OBVIOUS
<1> HIDE DEF new, g
<1>6. HeapOk(new.m.heap, g)
  <2>1. quiet.m.heap \in Seq(Ids) /\ Items(quiet.m.heap) \subseteq Ids \ {i}
    BY <1>1 DEF MuxCounts, HeapHolds, ActiveIn
  <2>2. HeapOk(quiet.m.heap, f)
    BY <1>2 DEF Ordered
  <2>3. HeapOk(quiet.m.heap, g)
    BY <1>5, <2>1, <2>2, OrderElsewhere
  <2> QED BY <1>4, <2>3
<1>7. InTime(0)
  BY MuxParameters DEF InTime
<1>8. ASSUME NEW j \in Ids
      PROVE  InTime(new.e[j].adjusted)
             /\ new.e[j].weight = Weighs(new.e[j].adjusted) * g[j]
  <2>1. CASE j = i
    <3>1. Weighs(0) \in Nat
      BY <1>7, Exponents
    <3>2. Weighs(0) * 0 = 0
      BY <3>1
    <3> QED BY <1>4, <1>5, <1>7, <2>1, <3>2
  <2>2. CASE j # i
    BY <1>2, <1>4, <1>5, <2>2 DEF Ordered, WeightsTrue
  <2> QED BY <2>1, <2>2
<1>9. InTime(new.m.recalibrated)
  BY <1>2, <1>4 DEF Ordered, WeightsTrue
<1>10. Ordered(new, g)
  BY <1>6, <1>8, <1>9 DEF Ordered, WeightsTrue
<1> QED BY <1>3, <1>10 DEF g

-----------------------------------------------------------------------------
(* ... the clock, and the turn of a cell                                    *)

LEMMA Quotient ==
  ASSUME NEW a \in Nat, NEW b \in Nat \ {0}
  PROVE  a \div b \in Nat /\ b * (a \div b) \in Nat /\ b * (a \div b) <= a
<1>1. a \div b \in Int /\ a = b * (a \div b) + (a % b) /\ a % b \in 0..(b - 1)
  OBVIOUS
<1>2. a \div b \in Nat
  OBVIOUS
<1>3. b * (a \div b) \in Nat
  BY <1>2
<1> QED BY <1>1, <1>2, <1>3

\* A tick starts at a multiple of its length, and not in the future.
Timely(c) ==
  /\ c \in [now : Nat, tick : Nat, tick_start : Nat]
  /\ c.now <= MaxTime
  /\ c.tick_start = TickLen * c.tick
  /\ c.tick_start <= c.now

LEMMA TickIsTimely ==
  ASSUME Timely(clock)
  PROVE  /\ InTime(clock.tick) /\ InTime(cell_ewma_get_tick)
         /\ Timely(current_tick) /\ current_tick.now = clock.now
<1> DEFINE passed == (clock.now - clock.tick_start) \div TickLen
<1>1. /\ clock.now \in Nat /\ clock.tick \in Nat /\ clock.tick_start \in Nat
      /\ clock.now - clock.tick_start \in Nat /\ TickLen \in Nat \ {0} /\ MaxTime \in Nat
      /\ clock.now <= MaxTime /\ clock.tick_start = TickLen * clock.tick
  BY MuxParameters DEF Timely
<1>2. /\ passed \in Nat /\ TickLen * passed \in Nat
      /\ TickLen * passed <= clock.now - clock.tick_start
  BY <1>1, Quotient
<1>3. cell_ewma_get_tick = clock.tick + passed
  BY DEF cell_ewma_get_tick
<1>4. current_tick = IF clock.now - clock.tick_start > TickLen
                     THEN [clock EXCEPT !.tick = @ + passed,
                                        !.tick_start = @ + passed * TickLen]
                     ELSE clock
  BY DEF current_tick
<1> HIDE DEF passed
<1>5. /\ TickLen * (clock.tick + passed) = clock.tick_start + TickLen * passed
      /\ passed * TickLen = TickLen * passed
  BY <1>1, <1>2
<1>6. InTime(clock.tick) /\ InTime(cell_ewma_get_tick)
  BY <1>1, <1>2, <1>3, <1>5 DEF InTime
<1>7. CASE clock.now - clock.tick_start > TickLen
  <2>1. current_tick = [clock EXCEPT !.tick = @ + passed,
                                     !.tick_start = @ + passed * TickLen]
    BY <1>4, <1>7
  <2>2. current_tick = [now |-> clock.now, tick |-> clock.tick + passed,
                        tick_start |-> clock.tick_start + TickLen * passed]
    BY <1>5, <2>1 DEF Timely
  <2>3. clock.tick + passed \in Nat /\ clock.tick_start + TickLen * passed \in Nat
        /\ clock.tick_start + TickLen * passed <= clock.now
    BY <1>1, <1>2
  <2> QED BY <1>1, <1>5, <1>6, <2>2, <2>3 DEF Timely
<1>8. CASE ~(clock.now - clock.tick_start > TickLen)
  BY <1>4, <1>6, <1>8
<1> QED BY <1>6, <1>7, <1>8

\* The heap is as long as there are items.
LEMMA HeapLength ==
  ASSUME NEW s, NEW A \in SUBSET Ids, HeapHolds(s, A)
  PROVE  Len(s.m.heap) = Cardinality(A)
BY DistinctCount DEF HeapHolds

\* The first circuit of the heap is charged, so that it weighs w, and popped.
Popped(s, i, w) ==
  LET paid == [s EXCEPT !.e[i].weight = w]
  IN  [paid EXCEPT !.m.heap = smartlist_pqueue_pop(@, Key(paid.e))]

LEMMA PopOrdered ==
  ASSUME NEW s, NEW A \in SUBSET Ids, HeapHolds(s, A), s.m.heap # <<>>,
         NEW f \in [Ids -> Nat], Ordered(s, f),
         NEW i, i = Head(s.m.heap), NEW w, NEW g \in [Ids -> Nat],
         \A j \in Ids : j # i => g[j] = f[j],
         w = Weighs(s.m.recalibrated) * g[i]
  PROVE  /\ HeapHolds(Popped(s, i, w), A \ {i})
         /\ Ordered(Popped(s, i, w), g)
<1> DEFINE paid == [s EXCEPT !.e[i].weight = w]
           h == smartlist_pqueue_pop(s.m.heap, Key(paid.e))
           t == Popped(s, i, w)
<1>1. /\ s.m.heap \in Seq(Ids) /\ Items(s.m.heap) = A /\ Distinct(s.m.heap)
      /\ \A j \in A : s.e[j].adjusted = s.m.recalibrated
      /\ Shape(s)
  BY DEF HeapHolds
<1>2. i \in A /\ i \in Ids
  BY <1>1, HeadIndex
<1>3. /\ Shape(paid) /\ paid.m = s.m
      /\ \A j \in Ids : /\ paid.e[j].adjusted = s.e[j].adjusted
                        /\ paid.e[j].cell_count = s.e[j].cell_count
                        /\ paid.e[j].weight = IF j = i THEN w ELSE s.e[j].weight
  <2> QED BY <1>1, <1>2 DEF Shape, MuxShape, EntryFields
<1>i. i = s.m.heap[1] /\ \A j \in Ids : j # i => g[j] = f[j]
  BY <1>1
<1>w. w = Weighs(s.m.recalibrated) * g[i]
  OBVIOUS
<1>t. t = [paid EXCEPT !.m.heap = h]
  <2>1. t = [paid EXCEPT !.m.heap = smartlist_pqueue_pop(@, Key(paid.e))]
    BY DEF Popped
  <2>2. paid.m.heap = s.m.heap
    BY <1>3
  <2> HIDE DEF paid, t
  <2> QED BY <2>1, <2>2
<1>h. h = smartlist_pqueue_pop(s.m.heap, Key(paid.e))
  OBVIOUS
<1> HIDE DEF paid, h, t
<1>4. /\ t.e = paid.e /\ t.m.heap = h /\ t.m.recalibrated = s.m.recalibrated
      /\ t.m.n_cells = s.m.n_cells /\ t.m.n_active = s.m.n_active /\ Shape(t)
  BY <1>3, <1>t DEF Shape, MuxShape, MuxFields
<1>5. /\ h \in Seq(Ids) /\ Len(h) = Len(s.m.heap) - 1
      /\ Items(h) = A \ {i} /\ Distinct(h)
  BY <1>1, <1>h, PopHolds
<1>6. WeightsTrue(paid, g)
  <2>1. InTime(s.m.recalibrated)
        /\ \A j \in Ids : /\ InTime(s.e[j].adjusted)
                          /\ s.e[j].weight = Weighs(s.e[j].adjusted) * f[j]
    BY DEF Ordered, WeightsTrue
  <2>2. ASSUME NEW j \in Ids
        PROVE  InTime(paid.e[j].adjusted)
               /\ paid.e[j].weight = Weighs(paid.e[j].adjusted) * g[j]
    <3>1. CASE j = i
      BY <1>1, <1>2, <1>3, <1>w, <2>1, <3>1
    <3>2. CASE j # i
      BY <1>3, <1>i, <2>1, <3>2
    <3> QED BY <3>1, <3>2
  <2> QED BY <1>3, <2>1, <2>2 DEF WeightsTrue
<1>7. HeapAbove(s.m.heap, g, 1)
  <2> DEFINE q == s.m.heap
  <2>1. Len(q) \in Nat /\ HeapOk(q, f)
    BY <1>1 DEF Ordered
  <2>2. ASSUME NEW k \in 2..Len(q), Parent(k) # 1 PROVE g[q[Parent(k)]] <= g[q[k]]
    <3>1. Parent(k) \in 1..(k - 1)
      BY <2>1, Parents
    <3>2. k \in 1..Len(q) /\ Parent(k) \in 1..Len(q) /\ 1 \in 1..Len(q) /\ k # 1
      BY <2>1, <3>1
    <3>3. q[k] # i /\ q[Parent(k)] # i /\ q[k] \in Ids /\ q[Parent(k)] \in Ids
      <4>1. q[k] \in Ids /\ q[Parent(k)] \in Ids
        BY <1>1, <3>2, ElementOfSeq
      <4>2. \A a, b \in 1..Len(q) : q[a] = q[b] => a = b
        BY <1>1 DEF Distinct
      <4> HIDE DEF q
      <4>3. q[k] # q[1] /\ q[Parent(k)] # q[1]
        BY <2>2, <3>2, <4>2
      <4> QED BY <1>i, <4>1, <4>3 DEF q
    <3>4. f[q[Parent(k)]] <= f[q[k]]
      BY <2>1 DEF HeapOk
    <3> QED BY <1>i, <3>3, <3>4
  <2>3. ~(1 > 1)
    OBVIOUS
  <2> QED BY <2>2, <2>3, Zenon DEF HeapAbove
<1>8. Key(paid.e) \in [Ids -> Int] /\ HeapAbove(s.m.heap, Key(paid.e), 1)
  <2>1. \A j \in Items(s.m.heap) : paid.e[j].adjusted = paid.m.recalibrated
    BY <1>1, <1>3
  <2> QED BY <1>1, <1>6, <1>7, <2>1, SameOrder
<1>9. HeapOk(h, Key(paid.e))
  BY <1>1, <1>8, <1>h, PopRepairs
<1>10. HeapOk(h, g)
  <2>1. \A j \in Items(h) : paid.e[j].adjusted = paid.m.recalibrated
    BY <1>1, <1>3, <1>5
  <2> QED BY <1>5, <1>6, <1>9, <2>1, SameOrder
<1>11. HeapHolds(t, A \ {i}) /\ Ordered(t, g)
  <2>1. HeapHolds(t, A \ {i})
    BY <1>1, <1>3, <1>4, <1>5 DEF HeapHolds
  <2>2. WeightsTrue(t, g)
    BY <1>3, <1>4, <1>6 DEF WeightsTrue
  <2> QED BY <1>4, <1>10, <2>1, <2>2 DEF Ordered
<1>12. SameCounters(s, t) /\ Len(t.m.heap) = Len(s.m.heap) - 1
  BY <1>3, <1>4, <1>5 DEF SameCounters
<1> QED BY <1>2, <1>11, <1>12 DEF t

\* The head of the heap sends a cell now.
LEMMA XmitOrdered ==
  ASSUME NEW s, MuxCounts(s), s.m.heap # <<>>, Timely(clock),
         NEW f \in [Ids -> Nat], Ordered(s, f), Len(s.m.heap) <= 5
  PROVE  LET i == Head(s.m.heap)
         IN  Ordered(circuitmux_notify_xmit_cells(s, i),
                     [f EXCEPT ![i] = @ + TwoTo[clock.now]])
<1> DEFINE i == Head(s.m.heap)
           g == [f EXCEPT ![i] = @ + TwoTo[clock.now]]
           A == ActiveIn(s.e)
           now == current_tick
           fewer == [s EXCEPT !.e[i].cell_count = @ - 1, !.m.n_cells = @ - 1]
           scaled == IF now.tick = fewer.m.recalibrated THEN fewer
                     ELSE scale_active_circuits(fewer, now.tick)
           w == scaled.e[i].weight + Unit * TwoTo[now.now - now.tick_start]
           popped == Popped(scaled, i, w)
           done == ewma_notify_xmit_cells(fewer, i)
           quiet == [done EXCEPT !.m.n_active = @ - 1]
           t == circuitmux_notify_xmit_cells(s, i)
<1>1. HeapHolds(s, A) /\ A \in SUBSET Ids /\ i \in A /\ i \in Ids
  <2>1. HeapHolds(s, A) /\ A \in SUBSET Ids
    BY DEF MuxCounts, ActiveIn
  <2>2. i \in A
    BY <2>1, HeadIndex DEF HeapHolds
  <2> HIDE DEF i, A
  <2> QED BY <2>1, <2>2
<1>2. /\ done = add_cell_ewma(popped, i)
      /\ t = IF done.e[i].cell_count > 0 THEN done ELSE remove_cell_ewma(quiet, i)
  <2>1. done = add_cell_ewma(popped, i)
    BY Zenon DEF ewma_notify_xmit_cells, Popped
  <2>2. t = IF done.e[i].cell_count > 0 THEN done ELSE remove_cell_ewma(quiet, i)
    BY Zenon DEF circuitmux_notify_xmit_cells
  <2> QED BY <2>1, <2>2
<1>3. SameWeights(s, fewer)
  <2> HIDE DEF i
  <2> QED BY <1>1 DEF HeapHolds, SameWeights, Shape, MuxShape, EntryFields, MuxFields
<1>i. i = Head(s.m.heap)
  OBVIOUS
<1> HIDE DEF fewer, A, t
<1>4. HeapHolds(fewer, A) /\ Ordered(fewer, f) /\ fewer.m.heap = s.m.heap
  BY <1>1, <1>3, WeightsCarryOver DEF SameWeights
<1>5. /\ Timely(now) /\ now.now = clock.now /\ InTime(now.tick)
      /\ now.tick_start = TickLen * now.tick /\ TickLen * now.tick <= clock.now
      /\ clock.now \in Nat
  <2>1. Timely(now) /\ now.now = clock.now
    BY TickIsTimely
  <2> HIDE DEF now
  <2>3. InTime(now.tick)
    BY <2>1, MuxParameters DEF Timely, InTime
  <2> QED BY <2>1, <2>3 DEF Timely
<1> HIDE DEF now
<1>6. /\ HeapHolds(scaled, A) /\ Ordered(scaled, f)
      /\ scaled.m.heap = s.m.heap /\ scaled.m.recalibrated = now.tick
  <2>1. CASE now.tick = fewer.m.recalibrated
    BY <1>4, <2>1
  <2>2. CASE now.tick # fewer.m.recalibrated
    <3> DEFINE u == scale_active_circuits(fewer, now.tick)
    <3>1. scaled = u
      BY <2>2
    <3>2. HeapHolds(u, A) /\ u.m.heap = fewer.m.heap
      BY <1>1, <1>4, ScaleHeap
    <3>3. Ordered(u, f)
      BY <1>1, <1>4, <1>5, ScaleOrdered
    <3>4. u.m.recalibrated = now.tick
      BY <1>4 DEF scale_active_circuits, HeapHolds, Shape, MuxShape, MuxFields
    <3> HIDE DEF u, scaled
    <3> QED BY <1>4, <3>1, <3>2, <3>3, <3>4
  <2> QED BY <2>1, <2>2
<1> HIDE DEF scaled
<1>7. g \in [Ids -> Nat] /\ g[i] = f[i] + TwoTo[clock.now]
      /\ \A j \in Ids : j # i => g[j] = f[j]
  <2>1. TwoTo[clock.now] \in Nat
    BY <1>5, Powers
  <2> HIDE DEF i
  <2> QED BY <1>1, <2>1
<1> HIDE DEF g
<1>8. w = Weighs(now.tick) * g[i]
  <2>1. scaled.e[i].weight = Weighs(now.tick) * f[i]
    <3> HIDE DEF i
    <3> QED BY <1>1, <1>6 DEF Ordered, WeightsTrue, HeapHolds
  <2>2. Unit * TwoTo[now.now - now.tick_start] = Weighs(now.tick) * TwoTo[clock.now]
    BY <1>5, CellWeighs
  <2>3. \A a, b, c \in Nat : a * b + a * c = a * (b + c)
    OBVIOUS
  <2>4. Weighs(now.tick) \in Nat /\ f[i] \in Nat /\ TwoTo[clock.now] \in Nat
    <3> HIDE DEF i
    <3> QED BY <1>1, <1>5, Exponents, Powers
  <2> HIDE DEF i
  <2> QED BY <1>7, <2>1, <2>2, <2>3, <2>4
<1> HIDE DEF w
<1>9. HeapHolds(popped, A \ {i}) /\ Ordered(popped, g)
  <2>1. i = Head(scaled.m.heap) /\ scaled.m.heap # <<>>
    BY <1>6
  <2> HIDE DEF i
  <2>2. w = Weighs(scaled.m.recalibrated) * g[i]
    BY <1>6, <1>8
  <2>3. HeapHolds(popped, A \ {i}) /\ Ordered(popped, g)
    <3>1. HeapHolds(scaled, A) /\ Ordered(scaled, f) /\ g \in [Ids -> Nat]
      BY <1>6, <1>7
    <3>2. A \in SUBSET Ids /\ \A j \in Ids : j # i => g[j] = f[j]
      BY <1>1, <1>7
    <3> QED BY <2>1, <2>2, <3>1, <3>2, PopOrdered
  <2> QED BY <2>3
<1> HIDE DEF i, popped, done
<1>10. HeapHolds(done, A) /\ Ordered(done, g) /\ Len(done.m.heap) = Len(s.m.heap)
  <2>1. A \ {i} \in SUBSET Ids /\ i \notin A \ {i} /\ (A \ {i}) \union {i} = A
    BY <1>1
  <2>2. HeapHolds(done, (A \ {i}) \union {i})
    BY <1>1, <1>2, <1>9, <2>1, AddToHeap
  <2>3. Ordered(done, g)
    BY <1>1, <1>2, <1>7, <1>9, <2>1, AddOrdered
  <2>5. HeapHolds(done, A)
    BY <2>1, <2>2
  <2>6. Len(done.m.heap) = Len(s.m.heap)
    BY <1>1, <2>5, HeapLength
  <2> QED BY <2>3, <2>5, <2>6
<1>11. SameWeights(done, quiet)
  BY <1>10 DEF HeapHolds, SameWeights, Shape, MuxShape, MuxFields
<1> HIDE DEF quiet
<1>12. HeapHolds(quiet, A) /\ Ordered(quiet, g) /\ Len(quiet.m.heap) <= 5
  BY <1>1, <1>7, <1>10, <1>11, WeightsCarryOver DEF SameWeights
<1>13. Ordered(remove_cell_ewma(quiet, i), g)
  BY <1>1, <1>7, <1>12, RemoveOrdered
<1> QED BY <1>2, <1>10, <1>13 DEF i, g, t

-----------------------------------------------------------------------------
(* ... the invariant and its steps                                          *)

\* What QuietestIsPicked rests on.
QuietInv ==
  /\ Timely(clock)
  /\ sent \in [Ids -> Nat]
  /\ Ordered(State, sent)
  /\ \A i \in Ids : entry[i].circ = "none" => sent[i] = 0

\* smartlist_pqueue_remove keeps the order of so many.
Few == Len(mux.heap) <= 5

LEMMA InitQuiet ==
  ASSUME Init
  PROVE  QuietInv
<1>1. PICK t \in 0..TickLen :
        /\ t <= MaxTime
        /\ clock = [now |-> t, tick |-> 0, tick_start |-> 0]
        /\ mux.recalibrated = t \div TickLen /\ mux.heap = <<>>
  BY DEF Init
<1>2. TickLen \in Nat \ {0} /\ MaxTime \in Nat /\ t \in Nat
  BY MuxParameters
<1>3. Timely(clock) /\ InTime(0)
  BY <1>1, <1>2 DEF Timely, InTime
<1>4. InTime(mux.recalibrated)
  BY <1>1, <1>2, Quotient DEF InTime
<1>5. /\ sent = [i \in Ids |-> 0]
      /\ \A i \in Ids : entry[i].adjusted = 0 /\ entry[i].weight = 0
  BY DEF Init, Detached
<1>6. Weighs(0) * 0 = 0
  <2>1. Weighs(0) \in Nat
    BY <1>3, Exponents
  <2> QED BY <2>1
<1>7. State.m = mux /\ State.e = entry
  BY DEF State
<1>8. Ordered(State, sent)
  BY <1>1, <1>3, <1>4, <1>5, <1>6, <1>7 DEF Ordered, WeightsTrue, HeapOk
<1> QED BY <1>3, <1>5, <1>8 DEF QuietInv

LEMMA OrderBecomes ==
  ASSUME NEW t, Ordered(t, sent'), Becomes(t)
  PROVE  Ordered(State, sent)'
<1>1. PICK u : u = State'
  OBVIOUS
<1>2. u.m = t.m /\ u.e = t.e
  BY <1>1 DEF State, Becomes
<1>3. Ordered(u, sent')
  BY <1>2 DEF Ordered, WeightsTrue
<1> QED BY <1>1, <1>3

\* No weight changes.
LEMMA QuietStays ==
  ASSUME QuietInv, entry' = entry, mux'.heap = mux.heap,
         mux'.recalibrated = mux.recalibrated, sent' = sent, Timely(clock')
  PROVE  QuietInv'
<1>1. Ordered(State, sent)'
  <2>1. PICK u : u = State'
    OBVIOUS
  <2>2. /\ u.m = mux' /\ u.e = entry /\ State.m = mux /\ State.e = entry
    BY <2>1 DEF State
  <2>3. Ordered(u, sent)
    BY <2>2 DEF QuietInv, Ordered, WeightsTrue
  <2> QED BY <2>1, <2>3
<1> QED BY <1>1 DEF QuietInv

\* The mux is given another count of an id that is attached.
LEMMA QuietCounts ==
  ASSUME IdInv, IdInv', CountInv, QuietInv, Few,
         NEW c \in Circuits, OnChannel(c), circ'[c].queue \in Nat,
         circ'[c].id = circ[c].id, owner' = owner,
         \A k \in Circuits : circ'[k].id = circ[k].id,
         NEW t, t = update_circuit_on_cmux(State, c, circ'),
         entry' = t.e, mux'.heap = t.m.heap, mux'.recalibrated = t.m.recalibrated,
         sent' = sent, clock' = clock
  PROVE  QuietInv'
<1> DEFINE i == circ[c].id
<1>1. i \in Ids /\ entry[i].circ # "none"
  BY OwnEntry
<1>2. State.e = entry /\ State.m = mux
  BY DEF State
<1>3. t = circuitmux_set_num_cells(State, i, circ'[c].queue)
  BY <1>1, <1>2 DEF update_circuit_on_cmux
<1> HIDE DEF i
<1>4. Ordered(t, sent)
  BY <1>1, <1>2, <1>3, SetNumCellsOrdered DEF CountInv, QuietInv, Few
<1>5. Ordered(State, sent)'
  <2>1. PICK u : u = State'
    OBVIOUS
  <2>2. u.m = mux' /\ u.e = entry'
    BY <2>1 DEF State
  <2>3. Ordered(u, sent)
    BY <1>4, <2>2 DEF Ordered, WeightsTrue
  <2> QED BY <2>1, <2>3
<1>6. \A j \in Ids : entry'[j].circ = entry[j].circ
  BY DEF IdInv, NamesAgree
<1> QED BY <1>5, <1>6 DEF QuietInv

LEMMA UseIdQuiet ==
  ASSUME IdInv, IdInv', CountInv, QuietInv, Few,
         NEW c \in Circuits, NEW i \in Ids, NEW n \in 0..1, UseId(c, i, n)
  PROVE  QuietInv'
<1> DEFINE t == circuitmux_attach_circuit(State, c, i, n)
<1>1. /\ owner[i] = "none" /\ owner' = [owner EXCEPT ![i] = c] /\ Becomes(t)
      /\ sent' = sent /\ clock' = clock
  BY DEF UseId
<1>2. entry[i].circ = "none" /\ entry[i].cell_count = 0
      /\ State.e = entry /\ State.m = mux
  <2>1. "none" \notin Circuits
    BY MuxParameters
  <2>2. entry[i].circ = "none"
    BY <1>1, <2>1 DEF IdInv, NamesAgree
  <2> QED BY <2>2 DEF CountInv, QueuesCounted, State
<1>3. InTime(cell_ewma_get_tick)
  BY TickIsTimely DEF QuietInv
<1>4. Ordered(t, sent)
  <2>1. sent[i] = 0 /\ sent \in [Ids -> Nat] /\ Ordered(State, sent)
    BY <1>2 DEF QuietInv
  <2> QED BY <1>2, <1>3, <2>1, AttachOrdered DEF CountInv, Few
<1> HIDE DEF t
<1>5. Ordered(State, sent)'
  BY <1>1, <1>4, OrderBecomes
<1>6. \A j \in Ids : entry'[j].circ = "none" => entry[j].circ = "none"
  BY <1>1, <1>2 DEF IdInv, Shapes, NamesAgree
<1> QED BY <1>1, <1>5, <1>6 DEF QuietInv

LEMMA ReleaseCellsQuiet ==
  ASSUME IdInv, IdInv', CountInv, QuietInv, Few,
         NEW c \in Circuits, NEW n \in 1..2, ReleaseCells(c, n)
  PROVE  QuietInv'
<1> DEFINE t == update_circuit_on_cmux(State, c, circ')
<1>1. /\ OnChannel(c) /\ circ' = [circ EXCEPT ![c].queue = @ + n]
      /\ owner' = owner /\ Becomes(t) /\ sent' = sent /\ clock' = clock
  BY DEF ReleaseCells
<1>2. circ'[c].queue \in Nat /\ \A k \in Circuits : circ'[k].id = circ[k].id
  BY <1>1 DEF IdInv, Shapes, CircShape, CircFields, CountInv, QueuesCounted
<1>3. entry' = t.e /\ mux' = t.m
  BY <1>1 DEF Becomes
<1> HIDE DEF t
<1> QED BY <1>1, <1>2, <1>3, QuietCounts DEF t

LEMMA AppendCellQuiet ==
  ASSUME IdInv, IdInv', CountInv, QuietInv, Few,
         NEW c \in Circuits, NEW killed \in SUBSET Circuits, AppendCell(c, killed)
  PROVE  QuietInv'
<1> DEFINE t == update_circuit_on_cmux(State, c, circ')
<1>1. /\ OnChannel(c) /\ owner' = owner /\ sent' = sent /\ clock' = clock
      /\ \A k \in Circuits :
           circ'[k] = IF k \in killed THEN [circ[k] EXCEPT !.marked = TRUE, !.queue = 0]
                      ELSE IF k = c THEN [circ[k] EXCEPT !.queue = @ + 1] ELSE circ[k]
      /\ Becomes(IF c \in killed THEN State ELSE t)
  BY DEF AppendCell
<1>2. CASE c \in killed
  <2>1. entry' = entry /\ mux' = mux
    BY <1>1, <1>2 DEF Becomes, State
  <2> QED BY <1>1, <2>1, QuietStays DEF QuietInv
<1>3. CASE c \notin killed
  <2>1. circ'[c] = [circ[c] EXCEPT !.queue = @ + 1]
    BY <1>1, <1>3
  <2>2. circ'[c].queue \in Nat
    BY <2>1 DEF IdInv, Shapes, CircShape, CircFields, CountInv, QueuesCounted
  <2>3. ASSUME NEW k \in Circuits PROVE circ'[k].id = circ[k].id
    <3>1. DOMAIN circ[k] = CircFields
      BY DEF IdInv, Shapes, CircShape
    <3>2. circ'[k] \in {[circ[k] EXCEPT !.marked = TRUE, !.queue = 0],
                        [circ[k] EXCEPT !.queue = @ + 1], circ[k]}
      BY <1>1
    <3> QED BY <3>1, <3>2 DEF CircFields
  <2>4. entry' = t.e /\ mux' = t.m
    BY <1>1, <1>3 DEF Becomes
  <2> HIDE DEF t
  <2> QED BY <1>1, <2>2, <2>3, <2>4, QuietCounts DEF t
<1> QED BY <1>2, <1>3

LEMMA SendDestroyQuiet ==
  ASSUME IdInv, IdInv', CountInv, QuietInv, Few, NEW c \in Circuits, SendDestroy(c)
  PROVE  QuietInv'
<1> DEFINE t == update_circuit_on_cmux(State, c, circ')
<1>1. /\ OnChannel(c) /\ owner' = owner /\ sent' = sent /\ clock' = clock
      /\ circ' = [circ EXCEPT ![c].queue = 0, ![c].delete_pending = TRUE]
      /\ Becomes(AppendDestroy(t, circ[c].id))
  BY DEF SendDestroy
<1>2. circ'[c].queue \in Nat /\ \A k \in Circuits : circ'[k].id = circ[k].id
  BY <1>1 DEF IdInv, Shapes, CircShape, CircFields
<1>3. Keeps(State, t)
  BY UpdateKeeps DEF CountInv, MuxCounts, HeapHolds
<1>4. entry' = t.e /\ mux'.heap = t.m.heap /\ mux'.recalibrated = t.m.recalibrated
  <2> HIDE DEF t
  <2> QED BY <1>1, <1>3 DEF Becomes, AppendDestroy, Keeps, Shape, MuxShape, MuxFields
<1> HIDE DEF t
<1> QED BY <1>1, <1>2, <1>4, QuietCounts DEF t

\* A circuit that leaves the channel takes the weight of its id along.
LEMMA LeavesQuiet ==
  ASSUME IdInv, CountInv, QuietInv, Few,
         NEW c \in Circuits, OnChannel(c), LeavesChannel(c), clock' = clock
  PROVE  QuietInv'
<1> DEFINE i == circ[c].id
           t == circuitmux_detach_circuit(State, i)
<1>1. i \in Ids /\ entry[i].circ = c /\ c # "none"
  BY OwnEntry
<1>2. Becomes(t) /\ State.e = entry /\ State.m = mux /\ sent' = [sent EXCEPT ![i] = 0]
  BY DEF LeavesChannel, State
<1> HIDE DEF i
<1>3. Ordered(t, sent')
  BY <1>1, <1>2, DetachOrdered DEF CountInv, QuietInv, Few
<1>4. Shape(State)
  BY DEF CountInv, MuxCounts, HeapHolds
<1>5. \A j \in Ids : t.e[j].circ = IF j = i THEN "none" ELSE entry[j].circ
  BY <1>1, <1>2, <1>4, DetachClears
<1> HIDE DEF t
<1>6. Ordered(State, sent)'
  BY <1>2, <1>3, OrderBecomes
<1>7. sent' \in [Ids -> Nat] /\ sent'[i] = 0 /\ \A j \in Ids \ {i} : sent'[j] = sent[j]
  BY <1>1, <1>2 DEF QuietInv
<1>8. \A j \in Ids : entry'[j].circ = "none" => sent'[j] = 0
  BY <1>2, <1>5, <1>7 DEF QuietInv, Becomes
<1> QED BY <1>6, <1>7, <1>8 DEF QuietInv

LEMMA ChannelClosedQuiet ==
  ASSUME CountInv', QuietInv, ChannelClosed
  PROVE  QuietInv'
<1>1. /\ entry' = [i \in Ids |-> Detached] /\ sent' = [i \in Ids |-> 0]
      /\ clock' = clock
  BY DEF ChannelClosed
<1>2. mux'.recalibrated = mux.recalibrated
  <2>1. PICK h : mux' = [mux EXCEPT !.n_active = 0, !.n_cells = 0, !.heap = h]
    BY Zenon DEF ChannelClosed
  <2> QED BY <2>1
<1>3. PICK u : u = State'
  OBVIOUS
<1>4. u.m = mux' /\ u.e = entry' /\ State.m = mux
  BY <1>3 DEF State
<1>5. HeapHolds(u, ActiveIn(u.e))
  BY <1>3 DEF CountInv, MuxCounts
<1>6. ActiveIn(u.e) = {}
  BY <1>1, <1>4 DEF ActiveIn, Detached
<1>7. Len(u.m.heap) = 0
  BY <1>5, <1>6, HeapLength, FS_EmptySet
<1>8. HeapOk(u.m.heap, sent')
  BY <1>7 DEF HeapOk
<1>9. InTime(u.m.recalibrated) /\ InTime(0)
  BY <1>2, <1>4, MuxParameters DEF QuietInv, Ordered, WeightsTrue, InTime
<1>10. Weighs(0) * 0 = 0
  <2>1. Weighs(0) \in Nat
    BY <1>9, Exponents
  <2> QED BY <2>1
<1>11. WeightsTrue(u, sent')
  BY <1>1, <1>4, <1>9, <1>10 DEF WeightsTrue, Detached
<1> QED BY <1>1, <1>3, <1>8, <1>11 DEF QuietInv, Ordered

\* The mux at the start of a turn is in the same order.
LEMMA StartOrdered ==
  ASSUME CountInv, QuietInv
  PROVE  LET s == [State EXCEPT !.m.last_cell_was_destroy = FALSE]
         IN  Ordered(s, sent)
<1> DEFINE s == [State EXCEPT !.m.last_cell_was_destroy = FALSE]
<1>1. SameWeights(State, s)
  BY DEF CountInv, MuxCounts, HeapHolds, SameWeights, Shape, MuxShape, MuxFields
<1> HIDE DEF s
<1>2. Ordered(s, sent)
  BY <1>1, WeightsCarryOver DEF QuietInv
<1> QED BY <1>2 DEF s

LEMMA WriteRelayQuiet ==
  ASSUME IdInv, IdInv', CountInv, QuietInv, Few, WriteRelay
  PROVE  QuietInv'
<1> DEFINE i == Picked
           c == entry[i].circ
           left == circ[c].queue - 1
           start == [State EXCEPT !.m.last_cell_was_destroy = FALSE]
           xmit == circuitmux_notify_xmit_cells(start, i)
           t == circuitmux_set_num_cells(xmit, i, left)
<1>1. /\ mux.heap # <<>> /\ circ[c].queue > 0 /\ owner' = owner
      /\ circ' = [circ EXCEPT ![c].queue = left] /\ Becomes(t)
      /\ sent' = [sent EXCEPT ![i] = @ + TwoTo[clock.now]] /\ clock' = current_tick
  BY DEF WriteRelay, RelayTurn
<1>2. i \in Ids /\ c \in Circuits /\ OnChannel(c) /\ circ[c].id = i
  BY <1>1, PickedIsOnChannel
<1>3. left \in Nat
  BY <1>1, <1>2 DEF CountInv, QueuesCounted
<1>4. MuxCounts(start) /\ start.e = entry /\ start.m.heap = mux.heap
  BY StartCounts
<1>5. Ordered(start, sent)
  BY StartOrdered
<1>6. Timely(clock) /\ clock.now \in Nat /\ sent \in [Ids -> Nat]
  BY DEF QuietInv, Timely
<1> HIDE DEF start, left
<1>7. i = Head(start.m.heap) /\ start.m.heap # <<>> /\ Len(start.m.heap) <= 5
  BY <1>1, <1>4 DEF Picked, Few
<1> HIDE DEF i
<1>8. Ordered(xmit, sent')
  BY <1>1, <1>4, <1>5, <1>6, <1>7, XmitOrdered
<1>9. /\ MuxCounts(xmit)
      /\ \A j \in Ids : xmit.e[j].cell_count = IF j = i THEN entry[j].cell_count - 1
                                               ELSE entry[j].cell_count
  BY <1>4, <1>7, XmitCounts
<1> HIDE DEF xmit
<1>10. sent' \in [Ids -> Nat] /\ \A j \in Ids \ {i} : sent'[j] = sent[j]
  <2>1. TwoTo[clock.now] \in Nat
    BY <1>6, Powers
  <2> QED BY <1>1, <1>2, <1>6, <2>1
<1>11. Len(xmit.m.heap) <= 5
  <2> DEFINE A == ActiveIn(entry)
             B == ActiveIn(xmit.e)
  <2>1. HeapHolds(start, A) /\ HeapHolds(xmit, B)
    BY <1>4, <1>9 DEF MuxCounts
  <2>2. B \subseteq A /\ A \subseteq Ids
    <3>1. \A j \in Ids : entry[j].cell_count \in Nat
      BY CountsAreNumbers DEF CountInv
    <3> QED BY <1>9, <3>1 DEF ActiveIn
  <2> HIDE DEF A, B
  <2>3. Len(start.m.heap) = Cardinality(A) /\ Len(xmit.m.heap) = Cardinality(B)
    BY <2>1, <2>2, HeapLength
  <2>4. IsFiniteSet(A)
    <3>1. start.m.heap \in Seq(Ids) /\ Items(start.m.heap) = A
      BY <2>1 DEF HeapHolds
    <3> DEFINE q == start.m.heap
    <3>2. Len(q) \in Nat /\ A = {q[k] : k \in 1..Len(q)}
      BY <3>1 DEF Items
    <3>3. IsFiniteSet(1..Len(q))
      BY <3>2, FS_Interval
    <3>4. q \in Surjection(1..Len(q), A)
      <4>1. q \in [1..Len(q) -> A] /\ \A x \in A : \E k \in 1..Len(q) : q[k] = x
        BY <3>1, <3>2
      <4> HIDE DEF q
      <4> QED BY <4>1 DEF Surjection
    <3> HIDE DEF q
    <3> QED BY <3>3, <3>4, FS_Surjection
  <2>5. Cardinality(B) <= Cardinality(A) /\ Cardinality(A) \in Nat /\ Cardinality(B) \in Nat
    BY <2>2, <2>4, FS_Subset, FS_CardinalityType
  <2> QED BY <1>7, <2>3, <2>5
<1>12. Ordered(t, sent')
  BY <1>2, <1>3, <1>8, <1>9, <1>10, <1>11, SetNumCellsOrdered
<1> HIDE DEF t
<1>13. Ordered(State, sent)'
  BY <1>1, <1>12, OrderBecomes
<1>14. Timely(clock')
  BY <1>1, <1>6, TickIsTimely
<1>15. \A j \in Ids : entry'[j].circ = "none" => sent'[j] = 0
  <2>1. \A j \in Ids : entry'[j].circ = entry[j].circ
    BY <1>1 DEF IdInv, NamesAgree
  <2>2. entry[i].circ # "none"
    BY <1>2, MuxParameters
  <2> QED BY <1>10, <2>1, <2>2 DEF QuietInv
<1> QED BY <1>10, <1>13, <1>14, <1>15 DEF QuietInv

LEMMA SkipEmptyQuiet ==
  ASSUME IdInv, IdInv', CountInv, QuietInv, Few, SkipEmpty
  PROVE  QuietInv'
<1> DEFINE i == Picked
           start == [State EXCEPT !.m.last_cell_was_destroy = FALSE]
           t == circuitmux_set_num_cells(start, i, 0)
<1>1. /\ mux.heap # <<>> /\ owner' = owner /\ Becomes(t)
      /\ sent' = sent /\ clock' = clock
  BY DEF SkipEmpty, RelayTurn
<1>2. i \in Ids
  BY <1>1, PickedIsOnChannel
<1>3. MuxCounts(start) /\ start.m.heap = mux.heap
  BY StartCounts
<1>4. Ordered(start, sent)
  BY StartOrdered
<1> HIDE DEF start, i
<1>5. Ordered(t, sent)
  BY <1>2, <1>3, <1>4, SetNumCellsOrdered DEF QuietInv, Few
<1> HIDE DEF t
<1>6. Ordered(State, sent)'
  BY <1>1, <1>5, OrderBecomes
<1>7. \A j \in Ids : entry'[j].circ = entry[j].circ
  BY <1>1 DEF IdInv, NamesAgree
<1> QED BY <1>1, <1>6, <1>7 DEF QuietInv

\* Nothing that has a weight changes but, perhaps, the clock.
LEMMA WeightsUntouched ==
  ASSUME IdInv, QuietInv,
         \/ \E i \in Ids : RefuseCreate(i)
         \/ \E c \in Circuits : MarkForClose(c) \/ FreeUnlinked(c)
         \/ WriteDestroy \/ FreeChannel \/ CloseChannel \/ Tick \/ OtherMuxSends
         \/ UNCHANGED vars
  PROVE  QuietInv' /\ sent' = sent
<1>1. ASSUME \/ \E c \in Circuits : MarkForClose(c) \/ FreeUnlinked(c)
             \/ CloseChannel \/ UNCHANGED vars
      PROVE  mux' = mux /\ entry' = entry /\ sent' = sent /\ clock' = clock
  BY <1>1 DEF MarkForClose, FreeUnlinked, CloseChannel, vars
<1>2. ASSUME (\E i \in Ids : RefuseCreate(i)) \/ WriteDestroy \/ FreeChannel
      PROVE  /\ mux'.heap = mux.heap /\ mux'.recalibrated = mux.recalibrated
             /\ entry' = entry /\ sent' = sent /\ clock' = clock
  BY <1>2 DEF RefuseCreate, WriteDestroy, FreeChannel, Becomes, AppendDestroy, State,
              IdInv, Shapes, MuxShape, MuxFields
<1>3. ASSUME Tick
      PROVE  mux' = mux /\ entry' = entry /\ sent' = sent /\ Timely(clock')
  <2>1. /\ clock' = [clock EXCEPT !.now = @ + 1] /\ clock.now < MaxTime
        /\ mux' = mux /\ entry' = entry /\ sent' = sent
    BY <1>3 DEF Tick
  <2>2. Timely(clock) /\ TickLen \in Nat /\ MaxTime \in Nat
    BY MuxParameters DEF QuietInv
  <2>3. Timely(clock')
    BY <2>1, <2>2 DEF Timely
  <2> QED BY <2>1, <2>3
<1>4. ASSUME OtherMuxSends
      PROVE  mux' = mux /\ entry' = entry /\ sent' = sent /\ Timely(clock')
  BY <1>4, TickIsTimely DEF OtherMuxSends, QuietInv
<1>5. /\ mux'.heap = mux.heap /\ mux'.recalibrated = mux.recalibrated
      /\ entry' = entry /\ sent' = sent /\ Timely(clock')
  BY <1>1, <1>2, <1>3, <1>4 DEF QuietInv
<1> QED BY <1>5, QuietStays

\* A circuit leaves the channel, whoever sees to it, or none does.
CircuitLeaves ==
  \/ \E c \in Circuits : ProcessDestroy(c) \/ FreeWhileClosing(c)
  \/ FinishDestroy

LEMMA OneLeaves ==
  ASSUME IdInv, CircuitLeaves
  PROVE  /\ clock' = clock
         /\ \/ entry' = entry /\ mux' = mux /\ sent' = sent
            \/ \E c \in Circuits : OnChannel(c) /\ LeavesChannel(c)
<1>1. ASSUME NEW c \in Circuits, ProcessDestroy(c) \/ FreeWhileClosing(c)
      PROVE  clock' = clock /\ OnChannel(c) /\ LeavesChannel(c)
  BY <1>1 DEF ProcessDestroy, FreeWhileClosing
<1>2. ASSUME FinishDestroy, callback.circ = "none"
      PROVE  clock' = clock /\ entry' = entry /\ mux' = mux /\ sent' = sent
  BY <1>2 DEF FinishDestroy
<1>3. ASSUME FinishDestroy, callback.circ # "none"
      PROVE  /\ clock' = clock /\ callback.circ \in Circuits
             /\ OnChannel(callback.circ) /\ LeavesChannel(callback.circ)
  BY <1>3 DEF FinishDestroy, IdInv, SenderIsThere, Idle
<1> QED BY <1>1, <1>2, <1>3 DEF CircuitLeaves

LEMMA NextQuiet ==
  ASSUME IdInv, CountInv, QuietInv, Few, [Next]_vars
  PROVE  QuietInv'
<1>0. IdInv' /\ CountInv'
  BY NextIdInv, NextCounts
<1>1. ASSUME CircuitLeaves PROVE QuietInv'
  <2>1. CASE entry' = entry /\ mux' = mux /\ sent' = sent
    BY <1>1, <2>1, OneLeaves, QuietStays DEF QuietInv
  <2>2. ASSUME NEW c \in Circuits, OnChannel(c), LeavesChannel(c) PROVE QuietInv'
    BY <1>1, <2>2, OneLeaves, LeavesQuiet
  <2> QED BY <1>1, <2>1, <2>2, OneLeaves
<1>2. ASSUME NEW c \in Circuits, CircuitStep(c) PROVE QuietInv'
  <2>1. ASSUME NEW i \in Ids, NEW n \in 0..1, UseId(c, i, n) PROVE QuietInv'
    BY <1>0, <2>1, UseIdQuiet
  <2>2. ASSUME NEW n \in 1..2, ReleaseCells(c, n) PROVE QuietInv'
    BY <1>0, <2>2, ReleaseCellsQuiet
  <2>3. ASSUME NEW killed \in SUBSET Circuits, AppendCell(c, killed) PROVE QuietInv'
    BY <1>0, <2>3, AppendCellQuiet
  <2>4. CASE SendDestroy(c)
    BY <1>0, <2>4, SendDestroyQuiet
  <2>5. CASE MarkForClose(c) \/ FreeUnlinked(c)
    BY <2>5, WeightsUntouched
  <2>6. CASE ProcessDestroy(c) \/ FreeWhileClosing(c)
    BY <1>1, <2>6 DEF CircuitLeaves
  <2> QED BY <1>2, <2>1, <2>2, <2>3, <2>4, <2>5, <2>6 DEF CircuitStep
<1>3. CASE WriteRelay \/ SkipEmpty
  BY <1>0, <1>3, WriteRelayQuiet, SkipEmptyQuiet
<1>4. CASE ChannelClosed
  BY <1>0, <1>4, ChannelClosedQuiet
<1>5. CASE FinishDestroy
  BY <1>1, <1>5 DEF CircuitLeaves
<1>6. CASE \/ \E i \in Ids : RefuseCreate(i)
           \/ WriteDestroy \/ FreeChannel \/ CloseChannel \/ Tick \/ OtherMuxSends
           \/ UNCHANGED vars
  BY <1>6, WeightsUntouched
<1> QED BY <1>2, <1>3, <1>4, <1>5, <1>6 DEF Next

-----------------------------------------------------------------------------
(* ... and who is served                                                    *)

QuietestStep ==
  \A i \in Ids : sent'[i] > sent[i] => \A j \in Active : sent[i] <= sent[j]

\* Only a turn of a relay cell adds to what a circuit sent.
LEMMA OnlyRelayCellsCount ==
  ASSUME IdInv, QuietInv, [Next]_vars, ~WriteRelay, NEW i \in Ids
  PROVE  ~(sent'[i] > sent[i])
<1>1. sent \in [Ids -> Nat]
  BY DEF QuietInv
<1>2. ASSUME sent' = sent PROVE ~(sent'[i] > sent[i])
  BY <1>1, <1>2
<1>3. ASSUME NEW j, sent' = [sent EXCEPT ![j] = 0] PROVE ~(sent'[i] > sent[i])
  BY <1>1, <1>3
<1>4. ASSUME ChannelClosed PROVE ~(sent'[i] > sent[i])
  BY <1>1, <1>4 DEF ChannelClosed
<1>5. ASSUME CircuitLeaves PROVE ~(sent'[i] > sent[i])
  BY <1>2, <1>3, <1>5, OneLeaves DEF LeavesChannel
<1>6. ASSUME NEW c \in Circuits, CircuitStep(c) PROVE ~(sent'[i] > sent[i])
  <2>1. CASE ProcessDestroy(c) \/ FreeWhileClosing(c)
    BY <1>5, <2>1 DEF CircuitLeaves
  <2>2. CASE ~(ProcessDestroy(c) \/ FreeWhileClosing(c))
    BY <1>2, <1>6, <2>2 DEF CircuitStep, UseId, ReleaseCells, AppendCell, MarkForClose,
                            SendDestroy, FreeUnlinked
  <2> QED BY <2>1, <2>2
<1>7. CASE FinishDestroy
  BY <1>5, <1>7 DEF CircuitLeaves
<1>8. CASE SkipEmpty
  BY <1>2, <1>8 DEF SkipEmpty
<1>9. CASE \/ \E k \in Ids : RefuseCreate(k)
           \/ WriteDestroy \/ FreeChannel \/ CloseChannel \/ Tick \/ OtherMuxSends
           \/ UNCHANGED vars
  BY <1>2, <1>9, WeightsUntouched
<1> QED BY <1>4, <1>6, <1>7, <1>8, <1>9 DEF Next

LEMMA HeadIsServed ==
  ASSUME IdInv, CountInv, QuietInv, [Next]_vars
  PROVE  QuietestStep
<1> SUFFICES ASSUME NEW i \in Ids, sent'[i] > sent[i], NEW j \in Active
             PROVE  sent[i] <= sent[j]
  BY DEF QuietestStep
<1>1. WriteRelay
  BY OnlyRelayCellsCount
<1>2. /\ mux.heap # <<>> /\ sent' = [sent EXCEPT ![Picked] = @ + TwoTo[clock.now]]
  BY <1>1 DEF WriteRelay, RelayTurn
<1>3. sent \in [Ids -> Nat] /\ sent \in [Ids -> Int]
  BY DEF QuietInv
<1>4. i = Picked
  BY <1>2, <1>3
<1>5. /\ mux.heap \in Seq(Ids) /\ HeapOk(mux.heap, sent) /\ Items(mux.heap) = ActiveIn(entry)
  BY DEF State, QuietInv, Ordered, CountInv, MuxCounts, HeapHolds
<1>6. j \in Items(mux.heap)
  BY <1>5 DEF Active, ActiveIn
<1>7. sent[Head(mux.heap)] <= sent[j]
  BY <1>3, <1>5, <1>6, HeadIsLeast
<1> QED BY <1>4, <1>7 DEF Picked

\* The circuit that ewma_pick_active_circuit gives a turn sent least, in the
\* exact sum of 2^t over its cells, of all that have cells - for any circuits
\* and ids, through any ticks, rescalings and circuits attached again.  The
\* hypothesis is what smartlist_pqueue_remove asks for: the item it moves to
\* the place of the removed one only moves down, which keeps a heap of up to
\* five in order and not a heap of six.
THEOREM QuietestServed ==
  Spec /\ [](Len(mux.heap) <= 5) => QuietestIsPicked
<1>1. Init => IdInv /\ CountInv /\ QuietInv
  BY InitIdInv, InitCounts, InitQuiet
<1>2. IdInv /\ CountInv /\ QuietInv /\ Len(mux.heap) <= 5 /\ [Next]_vars
        => (IdInv /\ CountInv /\ QuietInv)'
  BY NextIdInv, NextCounts, NextQuiet DEF Few
<1>3. IdInv /\ CountInv /\ QuietInv /\ [Next]_vars => [QuietestStep]_vars
  BY HeadIsServed
<1>4. QuietestIsPicked <=> [][QuietestStep]_vars
  BY DEF QuietestIsPicked, QuietestStep
<1> QED BY <1>1, <1>2, <1>3, <1>4, PTL DEF Spec

\* ... so a channel of at most five circuits always serves the quietest.
THEOREM QuietestOfFew ==
  ASSUME IsFiniteSet(Circuits), Cardinality(Circuits) <= 5
  PROVE  Spec => QuietestIsPicked
<1>1. Init => IdInv /\ CountInv
  BY InitIdInv, InitCounts
<1>2. IdInv /\ CountInv /\ [Next]_vars => (IdInv /\ CountInv)'
  BY NextIdInv, NextCounts
<1>3. IdInv /\ CountInv => Len(mux.heap) <= 5
  <2> SUFFICES ASSUME IdInv, CountInv PROVE Len(mux.heap) <= 5
    OBVIOUS
  <2> DEFINE h == mux.heap
             f == [k \in 1..Len(h) |-> entry[h[k]].circ]
  <2>1. h \in Seq(Ids) /\ Distinct(h) /\ Items(h) = ActiveIn(entry)
    BY DEF State, CountInv, MuxCounts, HeapHolds
  <2>2. Len(h) \in Nat /\ \A k \in 1..Len(h) : h[k] \in Ids /\ h[k] \in Items(h)
    BY <2>1 DEF Items
  <2>3. \A i \in ActiveIn(entry) : entry[i].circ \in Circuits /\ circ[entry[i].circ].id = i
    <3> SUFFICES ASSUME NEW i \in Ids, entry[i].cell_count > 0
                 PROVE  entry[i].circ \in Circuits /\ circ[entry[i].circ].id = i
      BY DEF ActiveIn
    <3>1. entry[i].circ # "none"
      BY DEF CountInv, QueuesCounted
    <3> QED BY <3>1 DEF IdInv, NamesAgree
  <2> HIDE DEF h
  <2>4. f \in [1..Len(h) -> Circuits] /\ \A k \in 1..Len(h) : circ[f[k]].id = h[k]
    BY <2>1, <2>2, <2>3
  <2> HIDE DEF f
  <2>5. f \in Injection(1..Len(h), Circuits)
    <3>1. \A a, b \in 1..Len(h) : f[a] = f[b] => a = b
      BY <2>1, <2>4 DEF Distinct
    <3> QED BY <2>4, <3>1 DEF Injection, IsInjective
  <2>6. Cardinality(1..Len(h)) <= Cardinality(Circuits)
    <3>1. ExistsInjection(1..Len(h), Circuits)
      BY <2>5 DEF ExistsInjection
    <3> QED BY <2>5, FS_Injection
  <2>7. Cardinality(1..Len(h)) = Len(h)
    BY <2>2, FS_Interval
  <2> QED BY <2>2, <2>6, <2>7, FS_CardinalityType DEF h
<1>4. Init /\ [][Next]_vars => [](Len(mux.heap) <= 5)
  BY <1>1, <1>2, <1>3, PTL
<1>5. Spec => Spec /\ [](Len(mux.heap) <= 5)
  BY <1>4, PTL DEF Spec
<1> QED BY <1>5, QuietestServed, PTL
=============================================================================

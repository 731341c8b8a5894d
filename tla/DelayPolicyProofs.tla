------------------------- MODULE DelayPolicyProofs -------------------------
(***************************************************************************)
(* Proofs about DelayPolicy, for circuits of any length, any policies, any  *)
(* number of changes of options.  The argument: the client asks for one hop *)
(* at a time, so one question or answer at most is on its way (OneAtATime), *)
(* and it is about the hop the client waits for (ClientInv).  That an       *)
(* answer is counted for the right hop is what makes its acknowledgement    *)
(* worth something; the cells themselves only carry a policy and a bit.     *)
(***************************************************************************)
EXTENDS DelayPolicy, WellFoundedInduction, TLAPS

Requests == {"CREATE", "EXTEND"}
Replies == {"CREATED", "EXTENDED"}

CellsOf(links, i) == {links[i][j] : j \in 1..Len(links[i])}

\* No cell, or one at most, of the types of T on any link.
Clean(links, T) ==
  \A i \in Hops : \A j \in 1..Len(links[i]) : links[i][j].type \notin T

Single(links, T) ==
  \A i1, i2 \in Hops : \A j1 \in 1..Len(links[i1]), j2 \in 1..Len(links[i2]) :
    links[i1][j1].type \in T /\ links[i2][j2].type \in T => i1 = i2 /\ j1 = j2

Pending(k) == relay[k].state = "ONIONSKIN_PENDING"

OneAtATime ==
  /\ Single(fwd, Requests)
  /\ Single(back, Replies)
  /\ \A k, l \in Hops : Pending(k) /\ Pending(l) => k = l
  /\ Clean(fwd, Requests) \/ Clean(back, Replies)
  /\ \A k \in Hops : Pending(k) => Clean(fwd, Requests) /\ Clean(back, Replies)

Quiet ==
  /\ Clean(fwd, Requests)
  /\ Clean(back, Replies)
  /\ \A k \in Hops : ~Pending(k)

\* Whatever is on its way is about hop h.
AllFor(h) ==
  /\ \A i \in Hops : \A m \in CellsOf(fwd, i) : m.type \in Requests => m.hop = h
  /\ \A i \in Hops : \A m \in CellsOf(back, i) : m.type \in Replies => m.hop = h
  /\ \A k \in Hops : Pending(k) => k = h

ClientInv ==
  /\ client.state = "BUILDING" => NonOpen(client) # {} /\ AllFor(NextHop(client))
  /\ client.state = "OPEN" => NonOpen(client) = {} /\ Quiet
  /\ \A j \in Hops : client.hop[j] = "AWAITING_KEYS" =>
       /\ client.state # "OPEN"
       /\ client.state = "BUILDING" => j = NextHop(client)

\* What hop h may be asked to do.
PolicyAllowed(h, p) ==
  /\ h = 1 => p = "unset"
  /\ h >= 3 => p \in {"NONE", "unset"}

FwdCell(i, m) ==
  /\ m.type \in Requests \cup {"DESTROY"}
  /\ m.type = "CREATE" => m.hop = i
  /\ m.type = "EXTEND" => m.hop \in (i + 1)..N
  /\ m.type \in Requests =>
       /\ PolicyAllowed(m.hop, m.policy)
       /\ changes = 0 /\ m.hop = 2 => m.policy = offered_policy(TRUE)

BackCell(m) ==
  /\ m.type \in Replies \cup {"DESTROY"}
  /\ m.type \in Replies =>
       /\ m.hop \in Hops
       /\ relay[m.hop].state # "none"
       /\ m.acked = (relay[m.hop].policy # "unset")

ForwardCells == \A i \in Hops : \A m \in CellsOf(fwd, i) : FwdCell(i, m)
BackwardCells == \A i \in Hops : \A m \in CellsOf(back, i) : BackCell(m)

RelayInv(k) ==
  /\ relay[k].state = "none" => relay[k].policy = "unset"
  /\ PolicyAllowed(k, relay[k].policy)
  /\ changes = 0 /\ k = 2 /\ relay[k].state # "none"
       => relay[k].policy = accepted_policy(k, offered_policy(TRUE))

RelaysInv == \A k \in Hops : RelayInv(k)

IInv ==
  /\ TypeOK /\ ForwardCells /\ BackwardCells /\ RelaysInv
  /\ OneAtATime /\ ClientInv /\ EnforcedPolicyIsMine
-----------------------------------------------------------------------------
(* Links                                                                    *)

LEMMA PopKeeps ==
  ASSUME NEW links \in [Hops -> Seq(Cell)], NEW i \in Hops, links[i] # <<>>
  PROVE  /\ pop(links, i) \in [Hops -> Seq(Cell)]
         /\ Head(links[i]) \in CellsOf(links, i)
         /\ Head(links[i]) \in Cell
         /\ \A h \in Hops : CellsOf(pop(links, i), h) \subseteq CellsOf(links, h)
         /\ \A h \in Hops : h # i => pop(links, i)[h] = links[h]
         /\ Len(pop(links, i)[i]) = Len(links[i]) - 1
         /\ \A j \in 1..(Len(links[i]) - 1) : pop(links, i)[i][j] = links[i][j + 1]
<1> DEFINE s == links[i]
           p == pop(links, i)
<1>1. s \in Seq(Cell) /\ s # <<>>
  OBVIOUS
<1>2. /\ Tail(s) \in Seq(Cell) /\ Len(Tail(s)) = Len(s) - 1
      /\ \A j \in 1..(Len(s) - 1) : Tail(s)[j] = s[j + 1]
      /\ Head(s) = s[1] /\ 1 \in 1..Len(s) /\ Head(s) \in Cell
  BY <1>1
<1>3. p = [links EXCEPT ![i] = Tail(s)]
  BY DEF pop
<1>4. /\ p \in [Hops -> Seq(Cell)] /\ p[i] = Tail(s)
      /\ \A h \in Hops : h # i => p[h] = links[h]
  BY <1>2, <1>3
<1>5. ASSUME NEW h \in Hops PROVE CellsOf(p, h) \subseteq CellsOf(links, h)
  <2>1. CASE h # i
    BY <1>4, <2>1 DEF CellsOf
  <2>2. CASE h = i
    <3> SUFFICES ASSUME NEW j \in 1..Len(p[i]) PROVE p[i][j] \in CellsOf(links, i)
      BY <2>2 DEF CellsOf
    <3>1. j + 1 \in 1..Len(s) /\ p[i][j] = s[j + 1]
      BY <1>1, <1>2, <1>4
    <3> QED BY <3>1 DEF CellsOf
  <2> QED BY <2>1, <2>2
<1>6. Head(s) \in CellsOf(links, i)
  BY <1>2 DEF CellsOf
<1> QED BY <1>2, <1>4, <1>5, <1>6

LEMMA PutKeeps ==
  ASSUME NEW links \in [Hops -> Seq(Cell)], NEW i \in Nat, NEW m \in Cell
  PROVE  /\ put(links, i, m) \in [Hops -> Seq(Cell)]
         /\ \A h \in Hops : CellsOf(put(links, i, m), h)
                             \subseteq CellsOf(links, h) \cup (IF h = i THEN {m} ELSE {})
         /\ \A h \in Hops : h # i => put(links, i, m)[h] = links[h]
         /\ i \in Hops =>
              /\ Len(put(links, i, m)[i]) = Len(links[i]) + 1
              /\ \A j \in 1..Len(links[i]) : put(links, i, m)[i][j] = links[i][j]
              /\ put(links, i, m)[i][Len(links[i]) + 1] = m
<1> DEFINE p == put(links, i, m)
<1>1. CASE i \notin Hops
  <2>1. p = links
    BY <1>1 DEF put
  <2> QED BY <1>1, <2>1
<1>2. CASE i \in Hops
  <2> DEFINE s == links[i]
             t == Append(s, m)
  <2>1. s \in Seq(Cell)
    BY <1>2
  <2>2. /\ t \in Seq(Cell) /\ Len(t) = Len(s) + 1 /\ t[Len(s) + 1] = m
        /\ \A j \in 1..Len(s) : t[j] = s[j]
    BY <2>1
  <2>3. p = [links EXCEPT ![i] = t]
    BY <1>2 DEF put
  <2>4. /\ p \in [Hops -> Seq(Cell)] /\ p[i] = t
        /\ \A h \in Hops : h # i => p[h] = links[h]
    BY <1>2, <2>2, <2>3
  <2>5. ASSUME NEW h \in Hops
        PROVE  CellsOf(p, h) \subseteq CellsOf(links, h) \cup (IF h = i THEN {m} ELSE {})
    <3>1. CASE h # i
      BY <2>4, <3>1 DEF CellsOf
    <3>2. CASE h = i
      <4> SUFFICES ASSUME NEW j \in 1..Len(p[i]) PROVE p[i][j] = m \/ p[i][j] \in CellsOf(links, i)
        BY <3>2 DEF CellsOf
      <4>1. j = Len(s) + 1 \/ j \in 1..Len(s)
        BY <2>1, <2>2, <2>4
      <4> QED BY <2>2, <2>4, <4>1 DEF CellsOf
    <3> QED BY <3>1, <3>2
  <2> QED BY <1>2, <2>2, <2>4, <2>5
<1> QED BY <1>1, <1>2

LEMMA PutCells ==
  ASSUME NEW links \in [Hops -> Seq(Cell)], NEW i \in Nat, NEW m \in Cell,
         NEW h \in Hops, NEW n \in CellsOf(put(links, i, m), h)
  PROVE  n \in CellsOf(links, h) \/ n = m
BY PutKeeps

LEMMA PopCells ==
  ASSUME NEW links \in [Hops -> Seq(Cell)], NEW i \in Hops, links[i] # <<>>,
         NEW h \in Hops, NEW n \in CellsOf(pop(links, i), h)
  PROVE  n \in CellsOf(links, h)
BY PopKeeps

LEMMA CleanMeans ==
  ASSUME NEW links, NEW T
  PROVE  Clean(links, T) <=> \A i \in Hops : \A m \in CellsOf(links, i) : m.type \notin T
BY DEF Clean, CellsOf

LEMMA PopClean ==
  ASSUME NEW links \in [Hops -> Seq(Cell)], NEW i \in Hops, links[i] # <<>>, NEW T
  PROVE  /\ Clean(links, T) => Clean(pop(links, i), T)
         /\ Single(links, T) => Single(pop(links, i), T)
         /\ Single(links, T) /\ Head(links[i]).type \in T => Clean(pop(links, i), T)
<1> DEFINE p == pop(links, i)
<1>1. Clean(links, T) => Clean(p, T)
  BY PopKeeps, CleanMeans
\* Where the cell at place j of link h of p was.
<1>2. ASSUME NEW h \in Hops, NEW j \in 1..Len(p[h])
      PROVE  /\ h = i => j + 1 \in 1..Len(links[i]) /\ p[i][j] = links[i][j + 1]
             /\ h # i => p[h] = links[h]
  <2>1. links[i] \in Seq(Cell)
    OBVIOUS
  <2>2. Len(links[i]) \in Nat
    BY <2>1
  <2> QED BY <2>2, PopKeeps
<1>3. Single(links, T) => Single(p, T)
  <2> SUFFICES ASSUME Single(links, T),
                      NEW h1 \in Hops, NEW h2 \in Hops,
                      NEW j1 \in 1..Len(p[h1]), NEW j2 \in 1..Len(p[h2]),
                      p[h1][j1].type \in T, p[h2][j2].type \in T
               PROVE  h1 = h2 /\ j1 = j2
    BY DEF Single
  <2> DEFINE k1 == IF h1 = i THEN j1 + 1 ELSE j1
             k2 == IF h2 = i THEN j2 + 1 ELSE j2
  <2>1. k1 \in 1..Len(links[h1]) /\ links[h1][k1].type \in T
    BY <1>2
  <2>2. k2 \in 1..Len(links[h2]) /\ links[h2][k2].type \in T
    BY <1>2
  <2>3. h1 = h2 /\ k1 = k2
    BY <2>1, <2>2 DEF Single
  <2> QED BY <2>3
<1>4. ASSUME Single(links, T), Head(links[i]).type \in T PROVE Clean(p, T)
  <2> SUFFICES ASSUME NEW h \in Hops, NEW j \in 1..Len(p[h]), p[h][j].type \in T
               PROVE  FALSE
    BY DEF Clean
  <2>1. links[i] \in Seq(Cell) /\ links[i] # <<>>
    OBVIOUS
  <2>2. 1 \in 1..Len(links[i]) /\ links[i][1].type \in T
    BY <1>4, <2>1
  <2> DEFINE k == IF h = i THEN j + 1 ELSE j
  <2>3. k \in 1..Len(links[h]) /\ links[h][k].type \in T
    BY <1>2
  <2>4. h = i /\ k = 1
    BY <1>4, <2>2, <2>3 DEF Single
  <2> QED BY <2>4
<1> QED BY <1>1, <1>3, <1>4

LEMMA PutClean ==
  ASSUME NEW links \in [Hops -> Seq(Cell)], NEW i \in Nat, NEW m \in Cell, NEW T
  PROVE  /\ m.type \notin T /\ Clean(links, T) => Clean(put(links, i, m), T)
         /\ m.type \notin T /\ Single(links, T) => Single(put(links, i, m), T)
         /\ Clean(links, T) => Single(put(links, i, m), T)
<1> DEFINE p == put(links, i, m)
<1>1. m.type \notin T /\ Clean(links, T) => Clean(p, T)
  BY PutKeeps, CleanMeans
<1>2. ASSUME NEW h \in Hops, NEW j \in 1..Len(p[h])
      PROVE  \/ j \in 1..Len(links[h]) /\ p[h][j] = links[h][j]
             \/ h = i /\ j = Len(links[i]) + 1 /\ p[h][j] = m
  <2>1. links[h] \in Seq(Cell)
    OBVIOUS
  <2>2. Len(links[h]) \in Nat
    BY <2>1
  <2>3. CASE h # i
    BY <2>3, PutKeeps
  <2>4. CASE h = i
    <3>1. /\ Len(p[h]) = Len(links[h]) + 1
          /\ \A l \in 1..Len(links[h]) : p[h][l] = links[h][l]
          /\ p[h][Len(links[h]) + 1] = m
      BY <2>4, PutKeeps
    <3>2. j \in 1..Len(links[h]) \/ j = Len(links[h]) + 1
      BY <2>2, <3>1
    <3> QED BY <2>4, <3>1, <3>2
  <2> QED BY <2>3, <2>4
<1> HIDE DEF p
<1>3. ASSUME m.type \notin T, Single(links, T) PROVE Single(p, T)
  <2> SUFFICES ASSUME NEW h1 \in Hops, NEW h2 \in Hops,
                      NEW j1 \in 1..Len(p[h1]), NEW j2 \in 1..Len(p[h2]),
                      p[h1][j1].type \in T, p[h2][j2].type \in T
               PROVE  h1 = h2 /\ j1 = j2
    BY DEF Single
  <2>1. j1 \in 1..Len(links[h1]) /\ p[h1][j1] = links[h1][j1]
    BY <1>2, <1>3
  <2>2. j2 \in 1..Len(links[h2]) /\ p[h2][j2] = links[h2][j2]
    BY <1>2, <1>3
  <2> QED BY <1>3, <2>1, <2>2 DEF Single
<1>4. Clean(links, T) => Single(p, T)
  BY <1>2 DEF Single, Clean
<1> USE DEF p
<1> QED BY <1>1, <1>3, <1>4

\* cpath_get_next_non_open_hop finds the first of them.
LEMMA NextHopIsFirst ==
  ASSUME NEW c, c.len \in Hops, NonOpen(c) # {}
  PROVE  /\ NextHop(c) \in NonOpen(c)
         /\ \A j \in NonOpen(c) : NextHop(c) <= j
<1>1. NonOpen(c) \subseteq Nat
  BY DEF NonOpen, Hops
<1>2. \E x \in NonOpen(c) : \A y \in NonOpen(c) : ~ (<<y, x>> \in OpToRel(<, Nat))
  BY <1>1, WFMin, NatLessThanWellFounded
<1>3. PICK x \in NonOpen(c) : \A y \in NonOpen(c) : ~ (<<y, x>> \in OpToRel(<, Nat))
  BY <1>2
<1>4. ASSUME NEW y \in NonOpen(c) PROVE x <= y
  <2>1. x \in Nat /\ y \in Nat
    BY <1>1
  <2>2. y < x => <<y, x>> \in OpToRel(<, Nat)
    BY <2>1 DEF OpToRel
  <2>3. ~ (y < x)
    BY <1>3, <2>2
  <2> QED BY <2>1, <2>3
<1>5. \E k \in NonOpen(c) : \A j \in NonOpen(c) : k <= j
  BY <1>3, <1>4
<1> QED BY <1>5 DEF NextHop

-----------------------------------------------------------------------------
(* Steps that only take cells away, or close: Fades                         *)

LEMMA DestroyIsCell == Destroy \in Cell
BY PolicyParameters DEF Destroy, Cell, Handshakes, MaybePolicy

LEMMA CellsAreCells ==
  ASSUME NEW links \in [Hops -> Seq(Cell)], NEW i \in Hops, NEW m \in CellsOf(links, i)
  PROVE  m \in Cell
<1>1. links[i] \in Seq(Cell)
  OBVIOUS
<1> QED BY <1>1 DEF CellsOf

\* No question and no answer is in new that was not in old.
FadesTo(old, new) ==
  /\ new \in [Hops -> Seq(Cell)]
  /\ \A h \in Hops : CellsOf(new, h) \subseteq CellsOf(old, h) \cup {Destroy}
  /\ \A T \in {Requests, Replies} : /\ Clean(old, T) => Clean(new, T)
                                    /\ Single(old, T) => Single(new, T)

LEMMA PopFades ==
  ASSUME NEW links \in [Hops -> Seq(Cell)], NEW i \in Hops, links[i] # <<>>
  PROVE  FadesTo(links, pop(links, i))
BY PopKeeps, PopClean DEF FadesTo

LEMMA PutFades ==
  ASSUME NEW links \in [Hops -> Seq(Cell)], NEW i \in Nat
  PROVE  FadesTo(links, put(links, i, Destroy))
<1>1. Destroy.type \notin Requests /\ Destroy.type \notin Replies
  BY DEF Destroy, Requests, Replies
<1>2. \A h \in Hops : CellsOf(put(links, i, Destroy), h) \subseteq CellsOf(links, h) \cup {Destroy}
  BY PutKeeps, DestroyIsCell
<1>3. put(links, i, Destroy) \in [Hops -> Seq(Cell)]
  BY PutKeeps, DestroyIsCell
<1>4. ASSUME NEW T \in {Requests, Replies}
      PROVE  /\ Clean(links, T) => Clean(put(links, i, Destroy), T)
             /\ Single(links, T) => Single(put(links, i, Destroy), T)
  BY <1>1, PutClean, DestroyIsCell
<1> QED BY <1>2, <1>3, <1>4 DEF FadesTo

LEMMA SameFades ==
  ASSUME NEW links \in [Hops -> Seq(Cell)] PROVE FadesTo(links, links)
BY DEF FadesTo

LEMMA FadesOn ==
  ASSUME NEW a, NEW b, NEW c, FadesTo(a, b), FadesTo(b, c)
  PROVE  FadesTo(a, c)
BY DEF FadesTo

LEMMA PopPutFades ==
  ASSUME NEW links \in [Hops -> Seq(Cell)], NEW i \in Hops, links[i] # <<>>, NEW k \in Nat
  PROVE  FadesTo(links, put(pop(links, i), k, Destroy))
<1>1. pop(links, i) \in [Hops -> Seq(Cell)]
  BY PopKeeps
<1> QED BY <1>1, PopFades, PutFades, FadesOn

RelayRecord == [state : {"none", "ONIONSKIN_PENDING", "OPEN", "closed"},
                handshake : Handshakes, policy : MaybePolicy, extended : BOOLEAN]

\* A relay keeps its policy when it closes.
ClosesTo(r, s) ==
  \/ s = r
  \/ r.state # "none" /\ s = [r EXCEPT !.state = "closed"]

FadingStep ==
  /\ FadesTo(fwd, fwd')
  /\ FadesTo(back, back')
  /\ relay' \in [Hops -> RelayRecord]
  /\ \A k \in Hops : ClosesTo(relay[k], relay'[k])
  /\ client' = client \/ client' = [client EXCEPT !.state = "CLOSED"]
  /\ UNCHANGED <<options, disabled, changes>>

LEMMA FadingKeeps ==
  ASSUME IInv, FadingStep
  PROVE  IInv'
<1> USE DEF FadingStep
<1>1. TypeOK'
  BY DEF IInv, TypeOK, FadesTo, RelayRecord
<1>2. \A k \in Hops : /\ relay'[k].policy = relay[k].policy
                      /\ (relay'[k].state = "none") = (relay[k].state = "none")
                      /\ Pending(k)' => Pending(k)
  <2> SUFFICES ASSUME NEW k \in Hops
               PROVE  /\ relay'[k].policy = relay[k].policy
                      /\ (relay'[k].state = "none") = (relay[k].state = "none")
                      /\ Pending(k)' => Pending(k)
    OBVIOUS
  <2>1. relay[k] \in RelayRecord
    BY DEF IInv, TypeOK, RelayRecord
  <2>2. CASE relay'[k] = relay[k]
    BY <2>2 DEF Pending
  <2>3. CASE relay[k].state # "none" /\ relay'[k] = [relay[k] EXCEPT !.state = "closed"]
    BY <2>1, <2>3 DEF Pending, RelayRecord
  <2> QED BY <2>2, <2>3 DEF ClosesTo
<1>3. /\ Clean(fwd, Requests) => Clean(fwd', Requests)
      /\ Single(fwd, Requests) => Single(fwd', Requests)
      /\ Clean(back, Replies) => Clean(back', Replies)
      /\ Single(back, Replies) => Single(back', Replies)
  BY DEF FadesTo
<1>4. ForwardCells'
  <2> SUFFICES ASSUME NEW i \in Hops, NEW m \in CellsOf(fwd', i)
               PROVE  FwdCell(i, m)'
    BY DEF ForwardCells
  <2>1. CASE m = Destroy
    BY <2>1 DEF Destroy, FwdCell, Requests
  <2>2. CASE m \in CellsOf(fwd, i)
    BY <2>2 DEF IInv, ForwardCells, FwdCell, offered_policy
  <2> QED BY <2>1, <2>2 DEF FadesTo
<1>5. BackwardCells'
  <2> SUFFICES ASSUME NEW i \in Hops, NEW m \in CellsOf(back', i)
               PROVE  BackCell(m)'
    BY DEF BackwardCells
  <2>1. CASE m = Destroy
    BY <2>1 DEF Destroy, BackCell, Replies
  <2>2. CASE m \in CellsOf(back, i)
    BY <1>2, <2>2 DEF IInv, BackwardCells, BackCell
  <2> QED BY <2>1, <2>2 DEF FadesTo
<1>6. RelaysInv'
  BY <1>2 DEF IInv, RelaysInv, RelayInv, accepted_policy, offered_policy
<1>7. OneAtATime'
  BY <1>2, <1>3 DEF IInv, OneAtATime
<1>8. \A h : AllFor(h) => AllFor(h)'
  <2> SUFFICES ASSUME NEW h, AllFor(h) PROVE AllFor(h)'
    OBVIOUS
  <2>1. Destroy.type \notin Requests /\ Destroy.type \notin Replies
    BY DEF Destroy, Requests, Replies
  <2> QED BY <1>2, <2>1 DEF AllFor, FadesTo
<1>9. ClientInv'
  <2>1. CASE client' = client
    BY <1>2, <1>3, <1>8, <2>1 DEF IInv, ClientInv, Quiet
  <2>2. CASE client' = [client EXCEPT !.state = "CLOSED"]
    BY <2>2 DEF IInv, TypeOK, ClientInv
  <2> QED BY <2>1, <2>2
<1>10. EnforcedPolicyIsMine'
  <2>1. client'.hop = client.hop
    BY DEF IInv, TypeOK
  <2>2. 2 \in Hops
    BY PolicyParameters DEF Hops
  <2> QED BY <1>2, <2>1, <2>2 DEF IInv, EnforcedPolicyIsMine
<1> QED BY <1>1, <1>4, <1>5, <1>6, <1>7, <1>9, <1>10 DEF IInv

LEMMA DestroysKeep ==
  ASSUME IInv, NEW k \in Hops,
         RelayCloses(k) \/ DestroyFromBehind(k) \/ DestroyFromAhead(k)
  PROVE  IInv'
<1>1. k \in Nat /\ k + 1 \in Nat
  BY DEF Hops
<1>2. fwd \in [Hops -> Seq(Cell)] /\ back \in [Hops -> Seq(Cell)]
  BY DEF IInv, TypeOK
<1>3. \A h \in Hops : ClosesTo(relay[h], relay[h])
  BY DEF ClosesTo
<1>4. ASSUME Alive(k), relay' = [relay EXCEPT ![k].state = "closed"]
      PROVE  relay' \in [Hops -> RelayRecord] /\ \A h \in Hops : ClosesTo(relay[h], relay'[h])
  <2>1. relay \in [Hops -> RelayRecord]
    BY DEF IInv, TypeOK, RelayRecord
  <2> DEFINE s == [relay[k] EXCEPT !.state = "closed"]
  <2>2. s \in RelayRecord
    BY <2>1 DEF RelayRecord
  <2>3. relay' = [relay EXCEPT ![k] = s]
    BY <1>4
  <2>4. relay[k].state # "none"
    BY <1>4 DEF Alive
  <2> HIDE DEF s
  <2>5. relay' \in [Hops -> RelayRecord] /\ relay'[k] = s
        /\ \A h \in Hops : h # k => relay'[h] = relay[h]
    BY <2>1, <2>2, <2>3
  <2> QED BY <2>4, <2>5 DEF ClosesTo, s
<1>5. ASSUME relay' = relay
      PROVE  relay' \in [Hops -> RelayRecord] /\ \A h \in Hops : ClosesTo(relay[h], relay'[h])
  BY <1>3, <1>5 DEF IInv, TypeOK, RelayRecord
<1>6. CASE RelayCloses(k)
  <2>1. FadesTo(fwd, fwd') /\ FadesTo(back, back')
    BY <1>1, <1>2, <1>6, PutFades, SameFades DEF RelayCloses
  <2> QED BY <1>4, <1>6, <2>1, FadingKeeps DEF RelayCloses, FadingStep
<1>7. CASE DestroyFromBehind(k)
  <2>1. FadesTo(fwd, fwd') /\ FadesTo(back, back')
    BY <1>1, <1>2, <1>7, PopPutFades, PopFades, SameFades DEF DestroyFromBehind
  <2> QED BY <1>4, <1>5, <1>7, <2>1, FadingKeeps DEF DestroyFromBehind, FadingStep
<1>8. CASE DestroyFromAhead(k)
  <2>1. FadesTo(fwd, fwd') /\ FadesTo(back, back')
    BY <1>1, <1>2, <1>8, PopPutFades, PopFades, SameFades DEF DestroyFromAhead
  <2> QED BY <1>4, <1>5, <1>8, <2>1, FadingKeeps DEF DestroyFromAhead, FadingStep
<1> QED BY <1>6, <1>7, <1>8

LEMMA ClientClosesKeep ==
  ASSUME IInv, ClientReceiveDestroy \/ ClientCloses
  PROVE  IInv'
<1>1. 1 \in Hops /\ 1 \in Nat
  BY PolicyParameters DEF Hops
<1>2. fwd \in [Hops -> Seq(Cell)] /\ back \in [Hops -> Seq(Cell)]
  BY DEF IInv, TypeOK
<1>3. relay \in [Hops -> RelayRecord] /\ \A h \in Hops : ClosesTo(relay[h], relay[h])
  BY DEF IInv, TypeOK, ClosesTo, RelayRecord
<1>4. CASE ClientReceiveDestroy
  <2>1. FadesTo(fwd, fwd') /\ FadesTo(back, back')
    BY <1>1, <1>2, <1>4, PopFades, SameFades DEF ClientReceiveDestroy
  <2> QED BY <1>3, <1>4, <2>1, FadingKeeps DEF ClientReceiveDestroy, FadingStep
<1>5. CASE ClientCloses
  <2>1. FadesTo(fwd, fwd') /\ FadesTo(back, back')
    BY <1>1, <1>2, <1>5, PutFades, SameFades DEF ClientCloses, CloseClient
  <2> QED BY <1>3, <1>5, <2>1, FadingKeeps DEF ClientCloses, CloseClient, FadingStep
<1> QED BY <1>4, <1>5

-----------------------------------------------------------------------------
(* Steps of a relay that hand a question or an answer on                    *)

\* What a relay's step leaves alone: everything the client knows.
RelayStep ==
  /\ TypeOK'
  /\ UNCHANGED <<options, disabled, client, changes>>
  /\ \A k \in Hops : relay[k].state # "none" =>
       relay'[k].state # "none" /\ relay'[k].policy = relay[k].policy

\* It is enough to look at cells, relays, and the one token.
LEMMA RelayStepKeeps ==
  ASSUME IInv, RelayStep, ForwardCells', BackwardCells', RelaysInv', OneAtATime',
         Quiet => Quiet',
         \A h : AllFor(h) => AllFor(h)'
  PROVE  IInv'
<1> USE DEF RelayStep
<1>1. ClientInv'
  BY DEF IInv, ClientInv
<1>2. EnforcedPolicyIsMine'
  <2>1. 2 \in Hops
    BY PolicyParameters DEF Hops
  <2>2. options.policy # "unset"
    BY PolicyParameters DEF IInv, TypeOK, Policy
  <2>3. SUFFICES ASSUME changes = 0, options.enforce, client.hop[2] = "OPEN"
                 PROVE  relay'[2].policy = options.policy /\ ~disabled[2]
    BY DEF EnforcedPolicyIsMine
  <2>4. relay[2].policy = options.policy /\ ~disabled[2]
    BY <2>3 DEF IInv, EnforcedPolicyIsMine
  <2>5. relay[2].state # "none"
    BY <2>1, <2>2, <2>4 DEF IInv, RelaysInv, RelayInv
  <2> QED BY <2>1, <2>4, <2>5
<1> QED BY <1>1, <1>2 DEF IInv

\* command_process_create_cell, when the circuit is made.
LEMMA CreateKeeps ==
  ASSUME IInv, NEW k \in Hops, ReceiveCreate(k)
  PROVE  IInv'
<1>1. k \in Nat
  BY DEF Hops
<1>2. fwd \in [Hops -> Seq(Cell)] /\ back \in [Hops -> Seq(Cell)] /\ relay \in [Hops -> RelayRecord]
  BY DEF IInv, TypeOK, RelayRecord
<1> DEFINE m == Head(fwd[k])
           p == accepted_policy(k, m.policy)
           r == [state |-> IF m.handshake = "FAST" THEN "OPEN" ELSE "ONIONSKIN_PENDING",
                 handshake |-> m.handshake, policy |-> p, extended |-> FALSE]
           answer == [m EXCEPT !.type = "CREATED", !.acked = p # "unset"]
<1>3. /\ fwd[k] # <<>> /\ m.type = "CREATE" /\ relay[k].state = "none"
      /\ fwd' = pop(fwd, k)
      /\ UNCHANGED <<options, disabled, client, changes>>
  BY DEF ReceiveCreate
<1>4. m \in Cell /\ m \in CellsOf(fwd, k) /\ fwd' \in [Hops -> Seq(Cell)]
  BY <1>2, <1>3, PopKeeps
<1>5. CASE back' = put(back, k, Destroy) /\ UNCHANGED relay
  <2>1. FadesTo(fwd, fwd') /\ FadesTo(back, back')
    BY <1>1, <1>2, <1>3, <1>5, PopFades, PutFades
  <2>2. \A h \in Hops : ClosesTo(relay[h], relay'[h])
    BY <1>5 DEF ClosesTo
  <2> QED BY <1>2, <1>3, <1>5, <2>1, <2>2, FadingKeeps DEF FadingStep
<1>6. CASE /\ relay' = [relay EXCEPT ![k] = r]
           /\ back' = IF m.handshake = "FAST" THEN put(back, k, answer) ELSE back
  <2>1. m.hop = k /\ m.hop \in Hops
    BY <1>3, <1>4 DEF IInv, ForwardCells, FwdCell
  <2>2. /\ PolicyAllowed(k, m.policy)
        /\ changes = 0 /\ k = 2 => m.policy = offered_policy(TRUE)
    BY <1>3, <1>4, <2>1 DEF IInv, ForwardCells, FwdCell, Requests
  <2>3. p \in MaybePolicy /\ m.policy \in MaybePolicy /\ m.handshake \in Handshakes
    BY <1>4 DEF accepted_policy, Cell, MaybePolicy
  <2>4. r \in RelayRecord /\ answer \in Cell
    BY <1>4, <2>3 DEF RelayRecord, Cell
  <2>5. /\ relay' \in [Hops -> RelayRecord] /\ relay'[k] = r
        /\ \A h \in Hops : h # k => relay'[h] = relay[h]
    BY <1>2, <1>6, <2>4
  <2>6. back' \in [Hops -> Seq(Cell)]
    BY <1>1, <1>2, <1>6, <2>4, PutKeeps
  <2>7. r.state # "none" /\ r.policy = p
        /\ (r.state = "ONIONSKIN_PENDING" <=> m.handshake # "FAST")
    OBVIOUS
  <2>8. answer.type = "CREATED" /\ answer.hop = k /\ answer.acked = (p # "unset")
    BY <1>4, <2>1 DEF Cell
  <2>9. RelayStep
    BY <1>3, <1>4, <2>5, <2>6, <2>7 DEF RelayStep, IInv, TypeOK, RelayRecord
  <2> HIDE DEF r, answer, p
  <2>10. ForwardCells'
    <3> SUFFICES ASSUME NEW i \in Hops, NEW n \in CellsOf(fwd', i) PROVE FwdCell(i, n)'
      BY DEF ForwardCells
    <3>1. n \in CellsOf(fwd, i)
      BY <1>2, <1>3, PopCells
    <3> QED BY <1>3, <3>1 DEF IInv, ForwardCells, FwdCell, offered_policy
  <2>18. ASSUME NEW i \in Hops, NEW n \in CellsOf(back', i)
         PROVE  n \in CellsOf(back, i) \/ n = answer
    <3>1. CASE back' = back
      BY <2>18, <3>1
    <3>2. CASE back' = put(back, k, answer)
      BY <1>1, <1>2, <2>4, <2>18, <3>2, PutCells
    <3> QED BY <1>6, <3>1, <3>2
  <2>11. BackwardCells'
    <3> SUFFICES ASSUME NEW i \in Hops, NEW n \in CellsOf(back', i) PROVE BackCell(n)'
      BY DEF BackwardCells
    <3>1. CASE n \in CellsOf(back, i)
      BY <1>3, <2>5, <3>1 DEF IInv, BackwardCells, BackCell
    <3>2. CASE n = answer
      BY <2>1, <2>5, <2>7, <2>8, <3>2 DEF BackCell, Replies
    <3> QED BY <2>18, <3>1, <3>2
  <2>12. RelaysInv'
    <3> SUFFICES ASSUME NEW h \in Hops PROVE RelayInv(h)'
      BY DEF RelaysInv
    <3>1. CASE h # k
      BY <1>3, <2>5, <3>1 DEF IInv, RelaysInv, RelayInv, accepted_policy, offered_policy
    <3>2. CASE h = k
      <4>1. PolicyAllowed(k, p)
        BY <2>2 DEF PolicyAllowed, accepted_policy, p
      <4>2. p = accepted_policy(k, m.policy)
        BY DEF p
      <4> QED BY <1>3, <2>2, <2>5, <2>7, <3>2, <4>1, <4>2
              DEF RelayInv, accepted_policy, offered_policy
    <3> QED BY <3>1, <3>2
\* The CREATE was the only token.
  <2>13. /\ Clean(fwd', Requests) /\ Clean(back, Replies)
         /\ \A h \in Hops : ~Pending(h)
    <3>1. m.type \in Requests
      BY <1>3 DEF Requests
    <3>2. ~Clean(fwd, Requests)
      BY <1>4, <3>1, CleanMeans
    <3> QED BY <1>2, <1>3, <3>1, <3>2, PopClean DEF IInv, OneAtATime
  <2>14. \A h \in Hops : Pending(h)' <=> h = k /\ m.handshake # "FAST"
    BY <2>5, <2>7, <2>13 DEF Pending
  <2>15. OneAtATime'
    <3>1. Single(back', Replies) /\ (m.handshake # "FAST" => Clean(back', Replies))
      BY <1>1, <1>2, <1>6, <2>4, <2>13, PutClean DEF IInv, OneAtATime
    <3>2. Single(fwd', Requests)
      BY <1>2, <1>3, PopClean DEF IInv, OneAtATime
    <3> QED BY <2>13, <2>14, <3>1, <3>2 DEF OneAtATime
  <2>16. Quiet => Quiet'
    <3>1. ~Clean(fwd, Requests)
      BY <1>3, <1>4, CleanMeans DEF Requests
    <3> QED BY <3>1 DEF Quiet
  <2>17. ASSUME NEW h, AllFor(h) PROVE AllFor(h)'
    <3>1. h = k
      BY <1>3, <1>4, <2>1, <2>17 DEF AllFor, Requests
    <3>2. \A i \in Hops : \A n \in CellsOf(fwd', i) : n.type \in Requests => n.hop = h
      BY <2>13, CleanMeans
    <3>3. \A i \in Hops : \A n \in CellsOf(back', i) : n.type \in Replies => n.hop = h
      BY <2>8, <2>17, <2>18, <3>1 DEF AllFor
    <3> QED BY <2>14, <3>1, <3>2, <3>3 DEF AllFor
  <2> QED BY <2>9, <2>10, <2>11, <2>12, <2>15, <2>16, <2>17, RelayStepKeeps
<1> QED BY <1>5, <1>6 DEF ReceiveCreate

\* cpuworker_onion_handshake_replyfn
LEMMA CpuworkerKeeps ==
  ASSUME IInv, NEW k \in Hops, CpuworkerReply(k)
  PROVE  IInv'
<1>1. k \in Nat
  BY DEF Hops
<1>2. fwd \in [Hops -> Seq(Cell)] /\ back \in [Hops -> Seq(Cell)] /\ relay \in [Hops -> RelayRecord]
  BY DEF IInv, TypeOK, RelayRecord
<1> DEFINE answer == [type |-> "CREATED", hop |-> k, handshake |-> relay[k].handshake,
                      policy |-> "unset", acked |-> delay_policy_acked(k)]
           r == [relay[k] EXCEPT !.state = "OPEN"]
<1>3. /\ relay[k].state = "ONIONSKIN_PENDING"
      /\ back' = put(back, k, answer)
      /\ UNCHANGED <<options, disabled, client, fwd, changes>>
      /\ relay' = [relay EXCEPT ![k] = r]
  BY DEF CpuworkerReply
<1>4. answer \in Cell
  <2>1. relay[k].handshake \in Handshakes /\ k \in 0..N /\ "unset" \in MaybePolicy
    BY <1>2 DEF RelayRecord, MaybePolicy, Hops
  <2>2. delay_policy_acked(k) \in BOOLEAN
    BY DEF delay_policy_acked
  <2> QED BY <2>1, <2>2 DEF Cell
<1>5. r \in RelayRecord /\ r.state = "OPEN" /\ r.policy = relay[k].policy
  BY <1>2 DEF RelayRecord
<1>6. /\ answer.type = "CREATED" /\ answer.hop = k
      /\ answer.acked = (relay[k].policy # "unset")
  BY DEF delay_policy_acked
<1> HIDE DEF r, answer
<1>7. /\ relay' \in [Hops -> RelayRecord] /\ relay'[k] = r
      /\ \A h \in Hops : h # k => relay'[h] = relay[h]
  BY <1>2, <1>3, <1>5
<1>8. back' \in [Hops -> Seq(Cell)]
  BY <1>1, <1>2, <1>3, <1>4, PutKeeps
<1>9. RelayStep
  BY <1>3, <1>5, <1>7, <1>8 DEF RelayStep, IInv, TypeOK, RelayRecord
<1>10. ForwardCells'
  BY <1>3 DEF IInv, ForwardCells, FwdCell, offered_policy
<1>17. ASSUME NEW i \in Hops, NEW n \in CellsOf(back', i)
       PROVE  n \in CellsOf(back, i) \/ n = answer
  BY <1>1, <1>2, <1>3, <1>4, <1>17, PutCells
<1>11. BackwardCells'
  <2> SUFFICES ASSUME NEW i \in Hops, NEW n \in CellsOf(back', i) PROVE BackCell(n)'
    BY DEF BackwardCells
  <2>1. CASE n \in CellsOf(back, i)
    BY <1>3, <1>5, <1>7, <2>1 DEF IInv, BackwardCells, BackCell
  <2>2. CASE n = answer
    BY <1>5, <1>6, <1>7, <2>2 DEF BackCell, Replies
  <2> QED BY <1>17, <2>1, <2>2
<1>12. RelaysInv'
  BY <1>3, <1>5, <1>7 DEF IInv, RelaysInv, RelayInv, accepted_policy, offered_policy
<1>13. Pending(k) /\ \A h \in Hops : ~Pending(h)'
  BY <1>3, <1>5, <1>7 DEF Pending, IInv, OneAtATime
<1>14. OneAtATime'
  <2>1. Clean(fwd, Requests) /\ Clean(back, Replies)
    BY <1>13 DEF IInv, OneAtATime
  <2>2. Single(back', Replies)
    BY <1>1, <1>2, <1>3, <1>4, <2>1, PutClean
  <2> QED BY <1>3, <1>13, <2>1, <2>2 DEF IInv, OneAtATime
<1>15. ASSUME NEW h, AllFor(h) PROVE AllFor(h)'
  <2>1. h = k
    BY <1>13, <1>15 DEF AllFor
  <2>2. \A i \in Hops : \A n \in CellsOf(back', i) : n.type \in Replies => n.hop = h
    BY <1>6, <1>15, <1>17, <2>1 DEF AllFor
  <2> QED BY <1>3, <1>13, <1>15, <2>2 DEF AllFor
<1>16. ~Quiet
  BY <1>13 DEF Quiet
<1> QED BY <1>9, <1>10, <1>11, <1>12, <1>14, <1>15, <1>16, RelayStepKeeps

\* circuit_extend: at the last hop the EXTEND becomes a CREATE.
LEMMA ExtendKeeps ==
  ASSUME IInv, NEW k \in Hops, RelayExtend(k)
  PROVE  IInv'
<1>1. k \in Nat /\ k + 1 \in Nat
  BY DEF Hops
<1>2. fwd \in [Hops -> Seq(Cell)] /\ back \in [Hops -> Seq(Cell)] /\ relay \in [Hops -> RelayRecord]
  BY DEF IInv, TypeOK, RelayRecord
<1> DEFINE m == Head(fwd[k])
           left == pop(fwd, k)
           n == IF m.hop = k + 1 THEN [m EXCEPT !.type = "CREATE"] ELSE m
<1>3. /\ fwd[k] # <<>> /\ m.type = "EXTEND"
      /\ UNCHANGED <<options, disabled, client, back, changes>>
  BY DEF RelayExtend
<1>4. m \in Cell /\ m \in CellsOf(fwd, k) /\ left \in [Hops -> Seq(Cell)]
  BY <1>2, <1>3, PopKeeps
<1>5. FwdCell(k, m)
  BY <1>4 DEF IInv, ForwardCells
<1>6. CASE fwd' = left /\ UNCHANGED relay
  <2>1. FadesTo(fwd, fwd') /\ FadesTo(back, back')
    BY <1>2, <1>3, <1>6, PopFades, SameFades
  <2>2. \A h \in Hops : ClosesTo(relay[h], relay'[h])
    BY <1>6 DEF ClosesTo
  <2> QED BY <1>2, <1>3, <1>6, <2>1, <2>2, FadingKeeps DEF FadingStep
<1>7. CASE fwd' = put(left, k + 1, n) /\ relay' = [relay EXCEPT ![k].extended = TRUE]
  <2>1. n \in Cell /\ n.type \in Requests /\ n.hop = m.hop /\ n.policy = m.policy
    BY <1>3, <1>4 DEF Cell, Requests
  <2>2. /\ relay' \in [Hops -> RelayRecord]
        /\ \A h \in Hops : relay'[h].state = relay[h].state /\ relay'[h].policy = relay[h].policy
    BY <1>2, <1>7 DEF RelayRecord
  <2>3. fwd' \in [Hops -> Seq(Cell)]
    BY <1>1, <1>4, <1>7, <2>1, PutKeeps
  <2>4. RelayStep
    BY <1>3, <2>2, <2>3 DEF RelayStep, IInv, TypeOK, RelayRecord
  <2>5. FwdCell(k + 1, n)
    <3>1. m.hop \in (k + 1)..N
      BY <1>3, <1>5 DEF FwdCell
    <3>2. CASE m.hop = k + 1
      BY <1>3, <1>4, <1>5, <2>1, <3>2 DEF FwdCell, Requests, Cell
    <3>3. CASE m.hop # k + 1
      <4>1. n = m /\ m.hop \in (k + 1 + 1)..N
        BY <1>1, <3>1, <3>3, PolicyParameters
      <4> QED BY <1>3, <1>5, <4>1 DEF FwdCell, Requests
    <3> QED BY <3>2, <3>3
  <2> HIDE DEF n, m, left
\* n came to link k + 1.
  <2>6. ASSUME NEW i \in Hops, NEW x \in CellsOf(fwd', i)
        PROVE  x \in CellsOf(fwd, i) \/ (x = n /\ i = k + 1)
    <3>1. CellsOf(fwd', i) \subseteq CellsOf(left, i) \cup (IF i = k + 1 THEN {n} ELSE {})
      BY <1>1, <1>4, <1>7, <2>1, PutKeeps
    <3>2. x \in CellsOf(left, i) => x \in CellsOf(fwd, i)
      BY <1>2, <1>3, PopCells DEF left
    <3> QED BY <3>1, <3>2
  <2>7. ForwardCells'
    <3> SUFFICES ASSUME NEW i \in Hops, NEW x \in CellsOf(fwd', i) PROVE FwdCell(i, x)'
      BY DEF ForwardCells
    <3>1. FwdCell(i, x)
      BY <2>5, <2>6 DEF IInv, ForwardCells
    <3> QED BY <1>3, <3>1 DEF FwdCell, offered_policy
  <2>8. BackwardCells'
    BY <1>3, <2>2 DEF IInv, BackwardCells, BackCell
  <2>9. RelaysInv'
    BY <1>3, <2>2 DEF IInv, RelaysInv, RelayInv, accepted_policy, offered_policy
  <2>10. /\ Clean(left, Requests) /\ Clean(back, Replies) /\ ~Clean(fwd, Requests)
         /\ \A h \in Hops : ~Pending(h)
    <3>1. m.type \in Requests
      BY <1>3 DEF Requests
    <3>2. ~Clean(fwd, Requests)
      BY <1>4, <3>1, CleanMeans
    <3> QED BY <1>2, <1>3, <3>1, <3>2, PopClean DEF IInv, OneAtATime, left, m
  <2>11. \A h \in Hops : ~Pending(h)'
    BY <2>2, <2>10 DEF Pending
  <2>12. OneAtATime'
    <3>1. Single(fwd', Requests)
      BY <1>1, <1>4, <1>7, <2>1, <2>10, PutClean
    <3> QED BY <1>3, <2>10, <2>11, <3>1 DEF IInv, OneAtATime
  <2>13. ASSUME NEW h, AllFor(h) PROVE AllFor(h)'
    <3>1. m.hop = h
      BY <1>3, <1>4, <2>13 DEF AllFor, Requests
    <3>2. \A i \in Hops : \A x \in CellsOf(fwd', i) : x.type \in Requests => x.hop = h
      BY <2>1, <2>6, <2>13, <3>1 DEF AllFor
    <3> QED BY <1>3, <2>11, <2>13, <3>2 DEF AllFor
  <2>14. ~Quiet
    BY <2>10 DEF Quiet
  <2> QED BY <2>4, <2>7, <2>8, <2>9, <2>12, <2>13, <2>14, RelayStepKeeps
<1> QED BY <1>6, <1>7 DEF RelayExtend

\* command_process_created_cell: a CREATED becomes an EXTENDED.
LEMMA ReplyKeeps ==
  ASSUME IInv, NEW k \in Hops, RelayReply(k)
  PROVE  IInv'
<1>1. k \in Nat /\ k + 1 \in Hops
  BY DEF Hops, RelayReply
<1>2. fwd \in [Hops -> Seq(Cell)] /\ back \in [Hops -> Seq(Cell)] /\ relay \in [Hops -> RelayRecord]
  BY DEF IInv, TypeOK, RelayRecord
<1> DEFINE m == Head(back[k + 1])
           left == pop(back, k + 1)
           n == extended_from(m)
<1>3. /\ back[k + 1] # <<>> /\ m.type # "DESTROY"
      /\ UNCHANGED <<options, disabled, client, relay, fwd, changes>>
  BY DEF RelayReply
<1>4. m \in Cell /\ m \in CellsOf(back, k + 1) /\ left \in [Hops -> Seq(Cell)]
  BY <1>1, <1>2, <1>3, PopKeeps
<1>5. BackCell(m) /\ m.type \in Replies
  BY <1>1, <1>3, <1>4 DEF IInv, BackwardCells, BackCell
<1>6. CASE back' = left
  <2>1. FadesTo(fwd, fwd') /\ FadesTo(back, back')
    BY <1>1, <1>2, <1>3, <1>6, PopFades, SameFades
  <2>2. \A h \in Hops : ClosesTo(relay[h], relay'[h])
    BY <1>3 DEF ClosesTo
  <2> QED BY <1>2, <1>3, <1>6, <2>1, <2>2, FadingKeeps DEF FadingStep
<1>7. CASE back' = put(left, k, n)
  <2>1. n \in Cell /\ n.type \in Replies /\ n.hop = m.hop /\ n.acked = m.acked
    BY <1>4 DEF extended_from, Cell, Replies
  <2>2. back' \in [Hops -> Seq(Cell)]
    BY <1>1, <1>4, <1>7, <2>1, PutKeeps
  <2>3. RelayStep
    BY <1>3, <2>2 DEF RelayStep, IInv, TypeOK
  <2>4. BackCell(n)
    BY <1>5, <2>1 DEF BackCell
  <2> HIDE DEF n, m, left
  <2>5. ASSUME NEW i \in Hops, NEW x \in CellsOf(back', i)
        PROVE  x \in CellsOf(back, i) \/ x = n
    <3>1. x \in CellsOf(left, i) \/ x = n
      BY <1>1, <1>4, <1>7, <2>1, <2>5, PutCells
    <3>2. x \in CellsOf(left, i) => x \in CellsOf(back, i)
      BY <1>1, <1>2, <1>3, PopCells DEF left
    <3> QED BY <3>1, <3>2
  <2>6. BackwardCells'
    <3> SUFFICES ASSUME NEW i \in Hops, NEW x \in CellsOf(back', i) PROVE BackCell(x)'
      BY DEF BackwardCells
    <3>1. BackCell(x)
      BY <2>4, <2>5 DEF IInv, BackwardCells
    <3> QED BY <1>3, <3>1 DEF BackCell
  <2>7. ForwardCells' /\ RelaysInv'
    BY <1>3 DEF IInv, ForwardCells, FwdCell, RelaysInv, RelayInv, accepted_policy, offered_policy
  <2>8. /\ Clean(left, Replies) /\ Clean(fwd, Requests) /\ ~Clean(back, Replies)
        /\ \A h \in Hops : ~Pending(h)
    <3>1. ~Clean(back, Replies)
      BY <1>1, <1>4, <1>5, CleanMeans
    <3> QED BY <1>1, <1>2, <1>3, <1>5, <3>1, PopClean DEF IInv, OneAtATime, left, m
  <2>9. \A h \in Hops : ~Pending(h)'
    BY <1>3, <2>8 DEF Pending
  <2>10. OneAtATime'
    <3>1. Single(back', Replies)
      BY <1>1, <1>4, <1>7, <2>1, <2>8, PutClean
    <3> QED BY <1>3, <2>8, <2>9, <3>1 DEF IInv, OneAtATime
  <2>11. ASSUME NEW h, AllFor(h) PROVE AllFor(h)'
    <3>1. m.hop = h
      BY <1>1, <1>4, <1>5, <2>11 DEF AllFor
    <3>2. \A i \in Hops : \A x \in CellsOf(back', i) : x.type \in Replies => x.hop = h
      BY <2>1, <2>5, <2>11, <3>1 DEF AllFor
    <3> QED BY <1>3, <2>9, <2>11, <3>2 DEF AllFor
  <2>12. ~Quiet
    BY <2>8 DEF Quiet
  <2> QED BY <2>3, <2>6, <2>7, <2>10, <2>11, <2>12, RelayStepKeeps
<1> QED BY <1>6, <1>7 DEF RelayReply

-----------------------------------------------------------------------------
(* Steps of the client                                                      *)

ClientRecord == [state : {"BUILDING", "OPEN", "CLOSED"}, len : Hops,
                 hop : [Hops -> {"CLOSED", "AWAITING_KEYS", "OPEN"}]]

\* Nothing is on its way, c is between two hops, and its first is open.
MayAsk(c, links) ==
  /\ c \in ClientRecord
  /\ c.state = "BUILDING" /\ c.hop[1] = "OPEN"
  /\ \A j \in Hops : c.hop[j] # "AWAITING_KEYS"
  /\ links \in [Hops -> Seq(Cell)]
  /\ Clean(links, Requests)
  /\ \A i \in Hops : \A m \in CellsOf(links, i) : m \in CellsOf(fwd, i)
  /\ \A k \in Hops : ~Pending(k)
  /\ Clean(back', Replies)
  /\ back' \in [Hops -> Seq(Cell)]
  /\ \A i \in Hops : \A m \in CellsOf(back', i) : m \in CellsOf(back, i)
  /\ UNCHANGED <<options, disabled, relay, changes>>

\* circuit_send_next_onion_skin
LEMMA AskKeeps ==
  ASSUME IInv, NEW c, NEW links, MayAsk(c, links), SendNextOnionSkin(c, links),
         changes = 0 /\ options.enforce /\ c.hop[2] = "OPEN"
           => relay[2].policy = options.policy /\ ~disabled[2]
  PROVE  IInv' /\ (client'.hop[2] = "OPEN" => c.hop[2] = "OPEN")
<1> USE DEF MayAsk
<1>1. 1 \in Hops /\ 2 \in Hops /\ 1 \in Nat /\ N \in Nat
  BY PolicyParameters DEF Hops
<1>2. \A i \in Hops : \A m \in CellsOf(back', i) : BackCell(m)'
  BY DEF IInv, BackwardCells, BackCell
<1>3. \A i \in Hops : \A m \in CellsOf(links, i) : FwdCell(i, m)'
  BY DEF IInv, ForwardCells, FwdCell, offered_policy
<1>4. RelaysInv' /\ BackwardCells' /\ Single(back', Replies)
  <2>1. RelaysInv'
    BY DEF IInv, RelaysInv, RelayInv, accepted_policy, offered_policy
  <2>2. Single(back', Replies)
    BY DEF Clean, Single
  <2> QED BY <1>2, <2>1, <2>2 DEF BackwardCells
<1>5. \A k \in Hops : ~Pending(k)'
  BY DEF Pending
<1>6. CASE NonOpen(c) = {}
  <2>1. client' = [c EXCEPT !.state = "OPEN"] /\ fwd' = links
    BY <1>6 DEF SendNextOnionSkin
  <2>2. client' \in ClientRecord /\ client'.hop = c.hop /\ client'.len = c.len
        /\ client'.state = "OPEN"
    BY <2>1 DEF ClientRecord
  <2>3. NonOpen(client') = {}
    BY <1>6, <2>2 DEF NonOpen
  <2>4. TypeOK'
    BY <2>1, <2>2 DEF IInv, TypeOK, ClientRecord
  <2>5. ForwardCells'
    BY <1>3, <2>1 DEF ForwardCells
  <2>6. Quiet' /\ OneAtATime'
    <3>1. Single(fwd', Requests)
      BY <2>1 DEF Clean, Single
    <3> QED BY <1>4, <1>5, <2>1, <3>1 DEF Quiet, OneAtATime
  <2>7. ClientInv'
    BY <2>2, <2>3, <2>6 DEF ClientInv
  <2>8. EnforcedPolicyIsMine'
    BY <2>2 DEF EnforcedPolicyIsMine
  <2> QED BY <1>4, <2>2, <2>4, <2>5, <2>6, <2>7, <2>8 DEF IInv
<1>7. CASE NonOpen(c) # {}
  <2> DEFINE k == NextHop(c)
  <2>1. PICK h \in HandshakeFor(k) :
          /\ client' = [c EXCEPT !.hop[k] = "AWAITING_KEYS"]
          /\ fwd' = put(links, 1, [type |-> "EXTEND", hop |-> k, handshake |-> h,
                                   policy |-> offered_policy(c.hop[2] = "CLOSED"),
                                   acked |-> FALSE])
    BY <1>7 DEF SendNextOnionSkin
  <2>23. PICK n : n = [type |-> "EXTEND", hop |-> k, handshake |-> h,
                       policy |-> offered_policy(c.hop[2] = "CLOSED"), acked |-> FALSE]
    OBVIOUS
  <2>2. c.len \in Hops
    BY DEF ClientRecord
  <2>3. k \in NonOpen(c) /\ \A j \in NonOpen(c) : k <= j
    BY <1>7, <2>2, NextHopIsFirst
  <2> HIDE DEF k
  <2>4. k \in Hops /\ k >= 2 /\ k \in 2..N /\ k \in 1..c.len /\ c.hop[k] # "OPEN"
    BY <1>1, <2>2, <2>3 DEF NonOpen, Hops
  <2>5. offered_policy(c.hop[2] = "CLOSED") \in MaybePolicy
    BY DEF offered_policy, MaybePolicy, Policy, IInv, TypeOK
  <2>6. n \in Cell
    <3>1. h \in Handshakes
      BY <2>1 DEF HandshakeFor, Handshakes
    <3>2. k \in 0..N
      BY <2>4
    <3> QED BY <2>5, <2>23, <3>1, <3>2 DEF Cell
  <2>7. c.hop[2] = "CLOSED" => k = 2
    <3>1. ASSUME c.hop[2] = "CLOSED" PROVE 2 \in NonOpen(c)
      BY <1>1, <2>2, <2>4, <3>1 DEF NonOpen, Hops
    <3> QED BY <1>1, <2>3, <2>4, <3>1 DEF Hops
  <2>8. k = 2 => c.hop[2] = "CLOSED"
    BY <1>1, <2>4 DEF ClientRecord
  <2>9. FwdCell(1, n)'
    <3>1. PolicyAllowed(k, offered_policy(c.hop[2] = "CLOSED"))
      BY <2>4, <2>7 DEF PolicyAllowed, offered_policy
    <3>2. k = 2 => offered_policy(c.hop[2] = "CLOSED") = offered_policy(TRUE)'
      BY <2>8 DEF offered_policy
    <3>3. k \in (1 + 1)..N
      BY <2>4
    <3> QED BY <2>23, <3>1, <3>2, <3>3 DEF FwdCell, Requests
  <2>10. n.type = "EXTEND" /\ n.hop = k /\ fwd' = put(links, 1, n)
    BY <2>1, <2>23
  <2>11. fwd' \in [Hops -> Seq(Cell)]
    BY <1>1, <2>6, <2>10, PutKeeps
  <2>12. /\ client' \in ClientRecord /\ client'.state = "BUILDING" /\ client'.len = c.len
         /\ client'.hop = [c.hop EXCEPT ![k] = "AWAITING_KEYS"]
    BY <2>1, <2>4 DEF ClientRecord
  <2>13. ASSUME NEW i \in Hops, NEW x \in CellsOf(fwd', i)
         PROVE  x \in CellsOf(links, i) \/ (x = n /\ i = 1)
    <3>1. CellsOf(fwd', i) \subseteq CellsOf(links, i) \cup (IF i = 1 THEN {n} ELSE {})
      BY <1>1, <2>6, <2>10, PutKeeps
    <3> QED BY <3>1
  <2>14. ForwardCells'
    <3> SUFFICES ASSUME NEW i \in Hops, NEW x \in CellsOf(fwd', i) PROVE FwdCell(i, x)'
      BY DEF ForwardCells
    <3> QED BY <1>3, <2>9, <2>13
  <2>15. OneAtATime'
    <3>1. Single(fwd', Requests)
      BY <1>1, <2>6, <2>10, PutClean
    <3> QED BY <1>4, <1>5, <3>1 DEF OneAtATime
  <2>16. NonOpen(client') = NonOpen(c)
    BY <2>4, <2>12 DEF NonOpen, ClientRecord
  <2>17. NextHop(client') = k
    BY <2>16 DEF NextHop, k
  <2>18. AllFor(k)'
    <3>1. \A i \in Hops : \A x \in CellsOf(fwd', i) : x.type \in Requests => x.hop = k
      BY <2>10, <2>13, CleanMeans
    <3>2. \A i \in Hops : \A x \in CellsOf(back', i) : x.type \in Replies => x.hop = k
      BY CleanMeans
    <3> QED BY <1>5, <3>1, <3>2 DEF AllFor
  <2>19. ClientInv'
    <3>1. \A j \in Hops : client'.hop[j] = "AWAITING_KEYS" => j = k
      BY <2>4, <2>12 DEF ClientRecord
    <3> QED BY <1>7, <2>12, <2>16, <2>17, <2>18, <3>1 DEF ClientInv
  <2>20. client'.hop[2] = "OPEN" => c.hop[2] = "OPEN"
    BY <1>1, <2>4, <2>12 DEF ClientRecord
  <2>21. EnforcedPolicyIsMine'
    BY <2>20 DEF EnforcedPolicyIsMine
  <2>22. TypeOK'
    BY <2>11, <2>12 DEF IInv, TypeOK, ClientRecord
  <2> QED BY <1>4, <2>14, <2>15, <2>19, <2>20, <2>21, <2>22 DEF IInv
<1> QED BY <1>6, <1>7

\* circuit_finish_handshake, and the next question.
LEMMA ClientReplyKeeps ==
  ASSUME IInv, ClientReceiveReply
  PROVE  /\ IInv'
         /\ client.hop[2] # "OPEN" /\ client'.hop[2] = "OPEN" /\ options.enforce
              => relay[2].policy # "unset"
<1> DEFINE m == Head(back[1])
           k == NextHop(client)
           c == [client EXCEPT !.hop[k] = "OPEN"]
<1>1. 1 \in Hops /\ 2 \in Hops /\ 1 \in Nat
  BY PolicyParameters DEF Hops
<1>2. /\ fwd \in [Hops -> Seq(Cell)] /\ back \in [Hops -> Seq(Cell)]
      /\ relay \in [Hops -> RelayRecord] /\ client \in ClientRecord
  BY DEF IInv, TypeOK, RelayRecord, ClientRecord
<1>3. /\ back[1] # <<>> /\ m.type # "DESTROY" /\ back' = pop(back, 1)
      /\ UNCHANGED <<options, disabled, relay, changes>>
  BY DEF ClientReceiveReply
<1>4. \A h \in Hops : ClosesTo(relay[h], relay'[h])
  BY <1>3 DEF ClosesTo
<1>5. CASE client.state # "BUILDING"
  <2>1. UNCHANGED <<client, fwd>>
    BY <1>5 DEF ClientReceiveReply
  <2>2. FadesTo(fwd, fwd') /\ FadesTo(back, back')
    BY <1>1, <1>2, <1>3, <2>1, PopFades, SameFades
  <2> QED BY <1>2, <1>3, <1>4, <2>1, <2>2, FadingKeeps DEF FadingStep
<1>6. CASE client.state = "BUILDING" /\ (Unparseable(m) \/ policy_missing(k, m))
  <2>1. CloseClient
    BY <1>6 DEF ClientReceiveReply
  <2>2. FadesTo(fwd, fwd') /\ FadesTo(back, back')
    BY <1>1, <1>2, <1>3, <2>1, PopFades, PutFades DEF CloseClient
  <2>3. client' = [client EXCEPT !.state = "CLOSED"] /\ client'.hop = client.hop
    BY <1>2, <2>1 DEF CloseClient, ClientRecord
  <2> QED BY <1>2, <1>3, <1>4, <2>2, <2>3, FadingKeeps DEF FadingStep
<1>7. CASE client.state = "BUILDING" /\ ~Unparseable(m) /\ ~policy_missing(k, m)
  <2>1. SendNextOnionSkin(c, fwd)
    BY <1>7 DEF ClientReceiveReply
  <2>2. m \in CellsOf(back, 1)
    BY <1>1, <1>2, <1>3, PopKeeps
  <2>3. BackCell(m) /\ m.type \in Replies
    BY <1>1, <1>3, <2>2 DEF IInv, BackwardCells, BackCell
  <2>4. NonOpen(client) # {} /\ AllFor(k)
    BY <1>7 DEF IInv, ClientInv
  <2>5. m.hop = k
    BY <1>1, <2>2, <2>3, <2>4 DEF AllFor
  <2>6. client.len \in Hops
    BY <1>2 DEF ClientRecord
  <2>7. k \in NonOpen(client) /\ \A j \in NonOpen(client) : k <= j
    BY <2>4, <2>6, NextHopIsFirst
  <2> HIDE DEF k
  <2>8. k \in Hops
    BY <2>6, <2>7, PolicyParameters DEF NonOpen, Hops
\* The answer was the only token.
  <2>9. /\ Clean(back', Replies) /\ Clean(fwd, Requests)
        /\ \A h \in Hops : ~Pending(h)
    <3>1. ~Clean(back, Replies)
      BY <1>1, <2>2, <2>3, CleanMeans
    <3> QED BY <1>1, <1>2, <1>3, <2>3, <3>1, PopClean DEF IInv, OneAtATime
  <2>10. /\ c \in ClientRecord /\ c.state = "BUILDING"
         /\ c.hop = [client.hop EXCEPT ![k] = "OPEN"]
    BY <1>2, <1>7, <2>8 DEF ClientRecord
  <2> HIDE DEF c
  <2>11. c.hop[1] = "OPEN"
    <3>1. CASE k = 1
      BY <1>1, <1>2, <2>10, <3>1 DEF ClientRecord
    <3>2. CASE k # 1
      <4>1. 1 \notin NonOpen(client)
        BY <2>7, <2>8, <3>2 DEF Hops
      <4>2. 1 \in 1..client.len
        BY <2>6 DEF Hops
      <4> QED BY <1>1, <1>2, <2>10, <3>2, <4>1, <4>2 DEF NonOpen, ClientRecord
    <3> QED BY <3>1, <3>2
  <2>12. \A j \in Hops : c.hop[j] # "AWAITING_KEYS"
    <3>1. \A j \in Hops : client.hop[j] = "AWAITING_KEYS" => j = k
      BY <1>7 DEF IInv, ClientInv, k
    <3> QED BY <1>2, <2>8, <2>10, <3>1 DEF ClientRecord
  <2>13. back' \in [Hops -> Seq(Cell)]
         /\ \A i \in Hops : \A x \in CellsOf(back', i) : x \in CellsOf(back, i)
    BY <1>1, <1>2, <1>3, PopKeeps
  <2>14. MayAsk(c, fwd)
    BY <1>2, <1>3, <2>9, <2>10, <2>11, <2>12, <2>13 DEF MayAsk
\* What the acknowledgement of the second hop proves.
  <2>15. ASSUME client.hop[2] # "OPEN", c.hop[2] = "OPEN", options.enforce
         PROVE  relay[2].policy # "unset" /\ relay[2].state # "none"
    <3>1. k = 2
      BY <1>1, <1>2, <2>8, <2>10, <2>15 DEF ClientRecord
    <3>2. m.acked
      BY <1>7, <2>15, <3>1 DEF policy_missing
    <3> QED BY <2>3, <2>5, <3>1, <3>2 DEF BackCell
  <2>16. changes = 0 /\ options.enforce /\ c.hop[2] = "OPEN"
           => relay[2].policy = options.policy /\ ~disabled[2]
    <3>1. CASE client.hop[2] = "OPEN"
      BY <3>1 DEF IInv, EnforcedPolicyIsMine
    <3>2. ASSUME client.hop[2] # "OPEN", changes = 0, options.enforce, c.hop[2] = "OPEN"
          PROVE  relay[2].policy = options.policy /\ ~disabled[2]
      <4>1. relay[2].policy = accepted_policy(2, offered_policy(TRUE))
        BY <1>1, <2>15, <3>2 DEF IInv, RelaysInv, RelayInv
      <4> QED BY <2>15, <3>2, <4>1 DEF accepted_policy, offered_policy
    <3> QED BY <3>1, <3>2
  <2>17. IInv' /\ (client'.hop[2] = "OPEN" => c.hop[2] = "OPEN")
    BY <2>1, <2>14, <2>16, AskKeeps
  <2> QED BY <2>15, <2>17
<1> QED BY <1>5, <1>6, <1>7

LEMMA NewExitKeeps ==
  ASSUME IInv, ExtendToNewExit
  PROVE  IInv' /\ (client'.hop[2] = "OPEN" => client.hop[2] = "OPEN")
<1> DEFINE c == [client EXCEPT !.state = "BUILDING", !.len = @ + 1]
<1>1. 1 \in Hops /\ N \in Nat
  BY PolicyParameters DEF Hops
<1>2. /\ fwd \in [Hops -> Seq(Cell)] /\ back \in [Hops -> Seq(Cell)]
      /\ client \in ClientRecord
  BY DEF IInv, TypeOK, ClientRecord
<1>3. /\ client.state = "OPEN" /\ client.len < N /\ SendNextOnionSkin(c, fwd)
      /\ UNCHANGED <<options, disabled, relay, back, changes>>
  BY DEF ExtendToNewExit
<1>4. NonOpen(client) = {} /\ Quiet
  BY <1>3 DEF IInv, ClientInv
<1>5. c \in ClientRecord /\ c.state = "BUILDING" /\ c.hop = client.hop
  <2>1. client.len + 1 \in Hops
    BY <1>1, <1>2, <1>3 DEF ClientRecord, Hops
  <2> QED BY <1>2, <2>1 DEF ClientRecord
<1> HIDE DEF c
<1>6. client.hop[1] = "OPEN"
  <2>1. 1 \in 1..client.len
    BY <1>2 DEF ClientRecord, Hops
  <2> QED BY <1>4, <2>1 DEF NonOpen
<1>7. \A j \in Hops : client.hop[j] # "AWAITING_KEYS"
  BY <1>3 DEF IInv, ClientInv
<1>8. MayAsk(c, fwd)
  BY <1>2, <1>3, <1>4, <1>5, <1>6, <1>7 DEF MayAsk, Quiet
<1>9. changes = 0 /\ options.enforce /\ c.hop[2] = "OPEN"
        => relay[2].policy = options.policy /\ ~disabled[2]
  BY <1>5 DEF IInv, EnforcedPolicyIsMine
<1> QED BY <1>3, <1>5, <1>8, <1>9, AskKeeps

-----------------------------------------------------------------------------
(* The theorems                                                             *)

LEMMA InitIInv == Init => IInv
<1> SUFFICES ASSUME Init PROVE IInv
  OBVIOUS
<1>1. 1 \in Hops /\ 2 \in Hops /\ 1 \in 0..N
  BY PolicyParameters DEF Hops
<1>2. PICK len \in PathLengths, h \in {"FAST", "NTOR"} :
        /\ client = [state |-> "BUILDING", len |-> len,
                     hop |-> [k \in Hops |-> IF k = 1 THEN "AWAITING_KEYS" ELSE "CLOSED"]]
        /\ fwd = [i \in Hops |->
                    IF i = 1 THEN <<[type |-> "CREATE", hop |-> 1, handshake |-> h,
                                     policy |-> "unset", acked |-> FALSE]>>
                    ELSE <<>>]
  BY DEF Init
<1>3. PICK m : m = [type |-> "CREATE", hop |-> 1, handshake |-> h,
                    policy |-> "unset", acked |-> FALSE]
  OBVIOUS
<1>4. m \in Cell /\ m.type = "CREATE" /\ m.hop = 1 /\ m.policy = "unset"
  BY <1>1, <1>3 DEF Cell, Handshakes, MaybePolicy
<1>5. fwd = [i \in Hops |-> IF i = 1 THEN <<m>> ELSE <<>>]
  BY <1>2, <1>3
<1>6. fwd \in [Hops -> Seq(Cell)] /\ back = [i \in Hops |-> <<>>] /\ back \in [Hops -> Seq(Cell)]
  <2>1. <<m>> \in Seq(Cell) /\ <<>> \in Seq(Cell)
    BY <1>4
  <2>2. back = [i \in Hops |-> <<>>]
    BY DEF Init
  <2>3. fwd \in [Hops -> Seq(Cell)]
    BY <1>5, <2>1
  <2>4. back \in [Hops -> Seq(Cell)]
    BY <2>1, <2>2
  <2> QED BY <2>2, <2>3, <2>4
<1>7. \A i \in Hops : \A x \in CellsOf(fwd, i) : i = 1 /\ x = m
  BY <1>5 DEF CellsOf
<1>8. \A i \in Hops : CellsOf(back, i) = {}
  BY <1>6 DEF CellsOf
<1>9. len \in Hops
  BY PolicyParameters
<1>10. client \in ClientRecord /\ client.state = "BUILDING" /\ client.len = len
       /\ \A k \in Hops : client.hop[k] = IF k = 1 THEN "AWAITING_KEYS" ELSE "CLOSED"
  BY <1>2, <1>9 DEF ClientRecord
<1>11. \A k \in Hops : relay[k].state = "none" /\ relay[k].policy = "unset"
  BY DEF Init
<1>12. TypeOK
  <2>1. relay \in [Hops -> RelayRecord]
    BY DEF Init, RelayRecord, Handshakes, MaybePolicy
  <2>2. changes \in 0..MaxChanges
    BY PolicyParameters DEF Init
  <2> QED BY <1>6, <1>10, <2>1, <2>2 DEF Init, TypeOK, ClientRecord, RelayRecord
<1>13. ForwardCells /\ BackwardCells
  <2>1. FwdCell(1, m)
    BY <1>4 DEF FwdCell, Requests, PolicyAllowed
  <2> QED BY <1>7, <1>8, <2>1 DEF ForwardCells, BackwardCells
<1>14. RelaysInv
  BY <1>11 DEF RelaysInv, RelayInv, PolicyAllowed
<1>15. Clean(back, Replies)
  BY <1>8, CleanMeans
<1>16. OneAtATime
  <2>1. Single(fwd, Requests)
    BY <1>5 DEF Single
  <2>2. Single(back, Replies)
    BY <1>15 DEF Single, Clean
  <2> QED BY <1>11, <1>15, <2>1, <2>2 DEF OneAtATime, Pending
<1>17. ClientInv
  <2>1. 1 \in NonOpen(client)
    BY <1>1, <1>9, <1>10 DEF NonOpen, Hops
  <2>2. NextHop(client) \in NonOpen(client) /\ NextHop(client) <= 1
    BY <1>9, <1>10, <2>1, NextHopIsFirst
  <2>3. NextHop(client) = 1
    BY <1>9, <1>10, <2>2 DEF NonOpen, Hops
  <2>4. AllFor(1)
    BY <1>4, <1>7, <1>8, <1>11 DEF AllFor, Pending
  <2> QED BY <1>10, <2>1, <2>3, <2>4 DEF ClientInv
<1>18. EnforcedPolicyIsMine
  BY <1>1, <1>10 DEF EnforcedPolicyIsMine
<1> QED BY <1>12, <1>13, <1>14, <1>16, <1>17, <1>18 DEF IInv

LEMMA OptionsKeep ==
  ASSUME IInv, SetClientOptions \/ \E k \in Hops : SetDisableDelays(k)
  PROVE  IInv'
<1>1. /\ UNCHANGED <<client, relay, fwd, back>>
      /\ changes' = changes + 1 /\ changes < MaxChanges
  BY DEF SetClientOptions, SetDisableDelays
<1>2. changes' # 0 /\ changes' \in 0..MaxChanges
  BY <1>1, PolicyParameters DEF IInv, TypeOK
<1>3. /\ options' \in [enforce : BOOLEAN, policy : Policy]
      /\ disabled' \in [Hops -> BOOLEAN]
  BY DEF IInv, TypeOK, SetClientOptions, SetDisableDelays
<1>4. TypeOK'
  BY <1>1, <1>2, <1>3 DEF IInv, TypeOK
<1>5. ForwardCells' /\ BackwardCells' /\ RelaysInv' /\ EnforcedPolicyIsMine'
  BY <1>1, <1>2 DEF IInv, ForwardCells, BackwardCells, RelaysInv, FwdCell, BackCell, RelayInv,
                    EnforcedPolicyIsMine
<1>6. OneAtATime' /\ ClientInv'
  BY <1>1 DEF IInv, OneAtATime, ClientInv, Pending, Quiet, AllFor
<1> QED BY <1>4, <1>5, <1>6 DEF IInv

\* The step that opens the second hop of a client that enforces its policy.
Opens ==
  client.hop[2] # "OPEN" /\ client'.hop[2] = "OPEN" /\ options.enforce
    => relay[2].policy # "unset"

LEMMA StepKeeps ==
  ASSUME IInv, [Next]_vars
  PROVE  IInv' /\ Opens
<1>1. ASSUME UNCHANGED client PROVE Opens
  BY <1>1 DEF Opens
<1>2. CASE ClientReceiveReply
  BY <1>2, ClientReplyKeeps DEF Opens
<1>3. CASE ExtendToNewExit
  BY <1>3, NewExitKeeps DEF Opens
<1>4. CASE ClientReceiveDestroy \/ ClientCloses
  <2>1. client' = [client EXCEPT !.state = "CLOSED"]
    BY <1>4 DEF ClientReceiveDestroy, ClientCloses, CloseClient
  <2>2. client'.hop = client.hop
    BY <2>1 DEF IInv, TypeOK
  <2> QED BY <1>4, <2>2, ClientClosesKeep DEF Opens
<1>5. ASSUME NEW k \in Hops, Deliver(k) \/ CpuworkerReply(k) \/ RelayCloses(k)
      PROVE  IInv' /\ UNCHANGED client
  <2>1. UNCHANGED client
    BY <1>5 DEF Deliver, ReceiveCreate, RelayExtend, RelayReply, DestroyFromBehind,
                DestroyFromAhead, CpuworkerReply, RelayCloses
  <2>2. IInv'
    BY <1>5, CreateKeeps, ExtendKeeps, ReplyKeeps, DestroysKeep, CpuworkerKeeps DEF Deliver
  <2> QED BY <2>1, <2>2
<1>6. CASE SetClientOptions \/ \E k \in Hops : SetDisableDelays(k)
  BY <1>1, <1>6, OptionsKeep DEF SetClientOptions, SetDisableDelays
<1>7. CASE UNCHANGED vars
  <2>1. IInv'
    BY <1>7 DEF vars, IInv, TypeOK, ForwardCells, BackwardCells, RelaysInv, FwdCell, BackCell,
                RelayInv, EnforcedPolicyIsMine, OneAtATime, ClientInv, Pending, Quiet, AllFor,
                accepted_policy, offered_policy
  <2> QED BY <1>1, <1>7, <2>1 DEF vars
<1> QED BY <1>1, <1>2, <1>3, <1>4, <1>5, <1>6, <1>7 DEF Next

\* The invariant of a circuit that is being built: one question or answer at
\* a time, about the hop the client waits for (circuit_finish_handshake).
THEOREM BuildInvariant == Spec => []IInv
<1>1. Init => IInv
  BY InitIInv
<1>2. IInv /\ [Next]_vars => IInv'
  BY StepKeeps
<1> QED BY <1>1, <1>2, PTL DEF Spec

\* Type correctness.
THEOREM PolicyTypeCorrect == Spec => []TypeOK
<1>1. IInv => TypeOK
  BY DEF IInv
<1> QED BY <1>1, BuildInvariant, PTL

\* Only the second hop may delay, however often a circuit is extended and
\* whatever becomes of the options (extend_cell_format).
THEOREM OthersNeverDelay == Spec => []OnlySecondHopDelays
<1>1. IInv => OnlySecondHopDelays
  <2>1. 1 \in Hops
    BY PolicyParameters DEF Hops
  <2>2. \A k \in Hops \ {1, 2} : k >= 3
    BY PolicyParameters DEF Hops
  <2> QED BY <2>1, <2>2 DEF IInv, RelaysInv, RelayInv, PolicyAllowed, OnlySecondHopDelays
<1> QED BY <1>1, BuildInvariant, PTL

\* No acknowledgement on any link lies (cpuworker_onion_handshake_replyfn,
\* command_process_created_cell).
THEOREM AcknowledgementsAreTrue == Spec => []AckIsTrue
<1>1. IInv => AckIsTrue
  BY DEF IInv, BackwardCells, BackCell, CellsOf, AckIsTrue
<1> QED BY <1>1, BuildInvariant, PTL

\* While options are left alone an enforcing client gets its own policy
\* (command_process_create_cell, circuit_finish_handshake).
THEOREM MyPolicyIsEnforced == Spec => []EnforcedPolicyIsMine
<1>1. IInv => EnforcedPolicyIsMine
  BY DEF IInv
<1> QED BY <1>1, BuildInvariant, PTL

\* An enforcing client never goes past a second hop without a policy, even if
\* options change while cells travel (circuit_finish_handshake).
THEOREM NeverPastAHopWithoutPolicy == Spec => EnforcedHopDelays
<1>1. IInv /\ [Next]_vars
        => [client.hop[2] # "OPEN" /\ client'.hop[2] = "OPEN" /\ options.enforce
              => relay[2].policy # "unset"]_vars
  BY StepKeeps DEF Opens
<1> QED BY <1>1, BuildInvariant, PTL DEF Spec, EnforcedHopDelays
=============================================================================

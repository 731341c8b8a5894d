------------------------ MODULE DelayedCircuitProofs ------------------------
(* The inductive invariant of DelayedCircuit and the theorems it gives, for *)
(* every number of cells, streams, hops, delays and every length of a tick. *)
EXTENDS DelayedCircuit, CellQueuesProofs

\* Replacing one direction of a circuit leaves the rest alone.
LEMMA SetHalf ==
  ASSUME NEW c \in CircType, NEW d \in Dirs, NEW h \in Half
  PROVE  LET r == [c EXCEPT !.half[d] = h] IN
         /\ r \in CircType
         /\ r.phase = c.phase /\ r.n_hop = c.n_hop
         /\ r.streams = c.streams /\ r.stopped = c.stopped
         /\ r.half[d] = h
         /\ \A e \in Dirs : e # d => r.half[e] = c.half[e]
<1>. DEFINE f == [c.half EXCEPT ![d] = h]
            r == [c EXCEPT !.half = f]
<1>1. c.half \in [Dirs -> Half]
  BY DEF CircType
<1>2. /\ f \in [Dirs -> Half]
      /\ f[d] = h
      /\ \A e \in Dirs : e # d => f[e] = c.half[e]
  BY <1>1
<1>3. [c EXCEPT !.half[d] = h] = r
  OBVIOUS
<1>. HIDE DEF f
<1>4. /\ r \in CircType
      /\ r.phase = c.phase /\ r.n_hop = c.n_hop
      /\ r.streams = c.streams /\ r.stopped = c.stopped
      /\ r.half = f
  BY <1>2 DEF CircType
<1>. HIDE DEF r
<1>. QED
  BY <1>2, <1>3, <1>4

\* What is sound for an open circuit is sound for a marked one.
LEMMA MarkedHalves ==
  ASSUME NEW c, CircInv(c), c.phase # "freed", NEW d \in Dirs
  PROVE  HalfInv(c.half[d], "marked")
<1>1. HalfInv(c.half[d], c.phase) /\ c.phase \in {"open", "marked"}
  BY DEF CircInv, CircType
<1>. QED
  BY <1>1, Marking

\* circuit_mark_for_close
LEMMA MarkCirc ==
  ASSUME NEW c \in CircType, c.stopped \subseteq c.streams, c.phase # "freed",
         \A d \in Dirs : HalfInv(c.half[d], "marked")
  PROVE  LET m == circuit_mark_for_close(c) IN
         CircInv(m) /\ m.phase = "marked" /\ m.half = c.half
<1>. DEFINE m == circuit_mark_for_close(c)
<1>1. /\ m \in CircType
      /\ m.phase = "marked"
      /\ m.half = c.half
      /\ m.streams = c.streams
      /\ m.stopped = c.stopped
  BY DEF circuit_mark_for_close, CircType
<1>. HIDE DEF m
<1>. QED
  BY <1>1 DEF CircInv, m

\* One direction changes and the circuit is marked, or keeps its phase.
LEMMA SetHalfMark ==
  ASSUME NEW c, CircInv(c), c.phase # "freed", NEW d \in Dirs,
         NEW h, HalfInv(h, "marked")
  PROVE  CircInv(circuit_mark_for_close([c EXCEPT !.half[d] = h]))
<1>. DEFINE r == [c EXCEPT !.half[d] = h]
<1>1. c \in CircType /\ c.stopped \subseteq c.streams /\ h \in Half
  BY DEF CircInv, HalfInv
<1>2. /\ r \in CircType
      /\ r.phase = c.phase
      /\ r.streams = c.streams /\ r.stopped = c.stopped
      /\ r.half[d] = h
      /\ \A e \in Dirs : e # d => r.half[e] = c.half[e]
  BY <1>1, SetHalf
<1>. HIDE DEF r
<1>3. \A e \in Dirs : HalfInv(r.half[e], "marked")
  BY <1>2, MarkedHalves
<1>4. CircInv(circuit_mark_for_close(r))
  BY <1>1, <1>2, <1>3, MarkCirc
<1>. QED
  BY <1>4 DEF r

LEMMA SetHalfInv ==
  ASSUME NEW c, CircInv(c), NEW d \in Dirs,
         NEW h, HalfInv(h, c.phase),
         c.phase = "open" => (h.chan = "none" <=> c.half[d].chan = "none")
  PROVE  CircInv([c EXCEPT !.half[d] = h])
<1>. DEFINE r == [c EXCEPT !.half[d] = h]
<1>1. c \in CircType /\ h \in Half
  BY DEF CircInv, HalfInv
<1>2. /\ r \in CircType
      /\ r.phase = c.phase /\ r.n_hop = c.n_hop
      /\ r.streams = c.streams /\ r.stopped = c.stopped
      /\ r.half[d] = h
      /\ \A e \in Dirs : e # d => r.half[e] = c.half[e]
  BY <1>1, SetHalf
<1>. HIDE DEF r
<1>3. \A e \in Dirs : HalfInv(r.half[e], r.phase)
  BY <1>2 DEF CircInv
<1>4. /\ "IN" \in Dirs /\ "OUT" \in Dirs
      /\ r.phase = "open" =>
           \A e \in Dirs : r.half[e].chan = "none" <=> c.half[e].chan = "none"
  BY <1>2 DEF Dirs
<1>5. CircInv(r)
  BY <1>2, <1>3, <1>4 DEF CircInv
<1>. QED
  BY <1>5 DEF r

\* marked_circuit_free_cells on a circuit just marked.
LEMMA FreeCellsCirc ==
  ASSUME NEW c \in CircType, c.stopped \subseteq c.streams, c.phase # "freed",
         \A d \in Dirs : Reclaimable(c.half[d])
  PROVE  CircInv(marked_circuit_free_cells(circuit_mark_for_close(c)))
<1>. DEFINE m == circuit_mark_for_close(c)
            g == [d \in Dirs |-> free_cells(m.half[d])]
            r == [m EXCEPT !.half = g]
<1>1. /\ m \in CircType
      /\ m.phase = "marked"
      /\ m.half = c.half
      /\ m.streams = c.streams
      /\ m.stopped = c.stopped
  BY DEF circuit_mark_for_close, CircType
<1>. HIDE DEF m
<1>2. \A d \in Dirs : HalfInv(g[d], "marked")
  BY <1>1, FreeCells
<1>3. g \in [Dirs -> Half]
  BY <1>2 DEF HalfInv
<1>. HIDE DEF g
<1>4. /\ r \in CircType
      /\ r.phase = "marked"
      /\ r.half = g
      /\ r.streams = c.streams
      /\ r.stopped = c.stopped
  BY <1>1, <1>3 DEF CircType
<1>. HIDE DEF r
<1>5. CircInv(r)
  BY <1>2, <1>4 DEF CircInv
<1>. QED
  BY <1>5 DEF r, g, m, marked_circuit_free_cells

\* What a handler that queues a cell finds: an open circuit whose direction d
\* has a channel, set just before or long ago.
CanAppend(c, d) ==
  /\ c \in CircType
  /\ c.phase = "open"
  /\ c.stopped \subseteq c.streams
  /\ Appendable(c.half[d])
  /\ \A e \in Dirs : HalfInv(c.half[e], "marked")
  /\ \A e \in Dirs : e # d => HalfInv(c.half[e], "open")
  /\ c.half["IN"].chan # "none"
  /\ c.n_hop => c.half["OUT"].chan = "none"

\* append_cell_to_circuit_queue ends in a sound circuit on each of its paths:
\* queue full, out of memory, cell queued.
LEMMA AppendCirc ==
  ASSUME NEW c, NEW d \in Dirs, CanAppend(c, d), NEW command \in Commands,
         NEW s, NEW delay \in Nat, NEW oom \in BOOLEAN, mono \in Nat, wall \in Nat
  PROVE  CircInv(append_cell_to_circuit_queue(c, d, command, s, delay, oom))
<1>. DEFINE h == c.half[d]
            added == cell_queue_append_packed_copy(h, command, delay, mono, wall)
            done == append_tail(added)
            stop == IF d = "OUT" THEN {}
                    ELSE IF h.streams_blocked THEN {s} \cap c.streams
                    ELSE IF done.streams_blocked THEN c.streams
                    ELSE {}
            r == append_cell_to_circuit_queue(c, d, command, s, delay, oom)
            full == Len(h.queue) >= MaxQueueSize
            a == [c EXCEPT !.half[d] = added]
            q == [c EXCEPT !.half[d] = done]
            b == [q EXCEPT !.stopped = @ \cup stop]
<1>1. /\ c \in CircType
      /\ c.phase = "open"
      /\ c.stopped \subseteq c.streams
      /\ Appendable(h)
  BY DEF CanAppend
<1>2. /\ Appendable(added)
      /\ added.chan = h.chan
      /\ HalfInv(done, "open")
      /\ done.chan = h.chan
  <2>. HIDE DEF h
  <2>1. mono \in Nat /\ wall \in Nat
    OBVIOUS
  <2>. QED
    BY <1>1, <2>1, AppendCell
<1>3. r = IF full THEN circuit_mark_for_close(c)
          ELSE IF oom
               THEN marked_circuit_free_cells(circuit_mark_for_close(a))
          ELSE [c EXCEPT !.half[d] = done, !.stopped = @ \cup stop]
  BY <1>1 DEF append_cell_to_circuit_queue, QueueFull
<1>4. [c EXCEPT !.half[d] = done, !.stopped = @ \cup stop] = b
  <2>. HIDE DEF done, stop
  <2>1. q.stopped = c.stopped
    BY <1>1 DEF CircType
  <2>. QED
    BY <2>1
<1>5. stop \subseteq c.streams
  OBVIOUS
<1>. HIDE DEF added, done, stop, r, full
<1>6. CASE full
  <2>1. CircInv(circuit_mark_for_close(c))
    BY <1>1, MarkCirc DEF CanAppend
  <2>. QED
    BY <1>3, <1>6, <2>1 DEF r
<1>7. CASE ~full /\ oom
  <2>1. added \in Half /\ Reclaimable(added)
    BY <1>2 DEF Appendable, Reclaimable
  <2>2. /\ a \in CircType
        /\ a.phase = "open"
        /\ a.streams = c.streams /\ a.stopped = c.stopped
        /\ a.half[d] = added
        /\ \A e \in Dirs : e # d => a.half[e] = c.half[e]
    BY <1>1, <2>1, SetHalf
  <2>. HIDE DEF a
  <2>3. \A e \in Dirs : Reclaimable(a.half[e])
    <3>. SUFFICES ASSUME NEW e \in Dirs
                  PROVE  Reclaimable(a.half[e])
      OBVIOUS
    <3>1. CASE e = d
      BY <2>1, <2>2, <3>1
    <3>2. CASE e # d
      BY <2>2, <3>2, Reclaiming DEF CanAppend
    <3>. QED
      BY <3>1, <3>2
  <2>4. CircInv(marked_circuit_free_cells(circuit_mark_for_close(a)))
    BY <1>1, <2>2, <2>3, FreeCellsCirc
  <2>. QED
    BY <1>3, <1>7, <2>4 DEF r
<1>8. CASE ~full /\ ~oom
  <2>1. done \in Half
    BY <1>2 DEF HalfInv
  <2>2. /\ q \in CircType
        /\ q.phase = "open" /\ q.n_hop = c.n_hop
        /\ q.streams = c.streams /\ q.stopped = c.stopped
        /\ q.half[d] = done
        /\ \A e \in Dirs : e # d => q.half[e] = c.half[e]
    BY <1>1, <2>1, SetHalf
  <2>. HIDE DEF q
  <2>3. /\ b \in CircType
        /\ b.phase = "open" /\ b.n_hop = c.n_hop
        /\ b.streams = c.streams /\ b.stopped = c.stopped \cup stop
        /\ b.half = q.half
    <3>1. c.stopped \cup stop \in SUBSET Streams
      BY <1>1, <1>5 DEF CircType
    <3>. QED
      BY <2>2, <3>1 DEF CircType
  <2>. HIDE DEF b
  <2>4. \A e \in Dirs : HalfInv(b.half[e], "open")
    BY <1>2, <2>2, <2>3 DEF CanAppend
  <2>5. \A e \in Dirs : b.half[e].chan = c.half[e].chan
    BY <1>2, <2>2, <2>3
  <2>6. "IN" \in Dirs /\ "OUT" \in Dirs
    BY DEF Dirs
  <2>7. CircInv(b)
    BY <1>1, <1>5, <2>3, <2>4, <2>5, <2>6 DEF CanAppend, CircInv
  <2>. QED
    BY <1>3, <1>4, <1>8, <2>7 DEF r
<1>. QED
  BY <1>6, <1>7, <1>8

\* A circuit with a channel in direction d takes a cell.
LEMMA OpenCanAppend ==
  ASSUME NEW c, CircInv(c), c.phase = "open", NEW d \in Dirs,
         c.half[d].chan # "none"
  PROVE  CanAppend(c, d)
<1>1. \A e \in Dirs : HalfInv(c.half[e], "open") /\ HalfInv(c.half[e], "marked")
  BY Marking DEF CircInv
<1>2. Appendable(c.half[d])
  BY <1>1, OpenIsAppendable
<1>. QED
  BY <1>1, <1>2 DEF CanAppend, CircInv

\* circuit_deliver_create_cell on a circuit without next hop.
LEMMA DeliverCreate ==
  ASSUME NEW c, CircInv(c), c.phase = "open", c.half["OUT"].chan = "none",
         NEW delay \in Nat, NEW oom \in BOOLEAN, mono \in Nat, wall \in Nat
  PROVE  CircInv(circuit_deliver_create_cell(c, delay, oom))
<1>. DEFINE id == c.hops + 1
            h == set_circid_chan(c.half["OUT"], id)
            q == [c EXCEPT !.half["OUT"] = h]
            r == [q EXCEPT !.hops = id, !.n_hop = FALSE]
<1>1. /\ c \in CircType /\ id \in Nat /\ "OUT" \in Dirs /\ "IN" \in Dirs
      /\ \A e \in Dirs : HalfInv(c.half[e], "open")
  BY DEF CircInv, CircType, Dirs
<1>2. /\ Appendable(h)
      /\ HalfInv(h, "marked")
      /\ h \in Half
      /\ h.chan = "open"
  BY <1>1, SetChan DEF HalfInv
<1>3. [c EXCEPT !.half["OUT"] = set_circid_chan(@, c.hops + 1),
                !.hops = @ + 1, !.n_hop = FALSE] = r
  <2>1. q.hops = c.hops
    <3>. HIDE DEF h, id
    <3>. QED BY <1>1 DEF CircType
  <2>2. q = [c EXCEPT !.half["OUT"] = set_circid_chan(@, c.hops + 1)]
    OBVIOUS
  <2>. QED
    BY <2>1, <2>2
<1>. HIDE DEF h, id
<1>4. /\ q \in CircType
      /\ q.phase = "open"
      /\ q.streams = c.streams /\ q.stopped = c.stopped
      /\ q.half["OUT"] = h
      /\ \A e \in Dirs : e # "OUT" => q.half[e] = c.half[e]
  BY <1>1, <1>2, SetHalf
<1>. HIDE DEF q
<1>5. /\ r \in CircType
      /\ r.phase = "open"
      /\ r.n_hop = FALSE
      /\ r.streams = c.streams /\ r.stopped = c.stopped
      /\ r.half = q.half
  BY <1>1, <1>4 DEF CircType
<1>. HIDE DEF r
<1>6. \A e \in Dirs : HalfInv(r.half[e], "marked")
  <2>1. \A e \in Dirs : e # "OUT" => HalfInv(r.half[e], "marked")
    BY <1>1, <1>4, <1>5, Marking
  <2>. QED
    BY <1>2, <1>4, <1>5, <2>1
<1>7. \A e \in Dirs : e # "OUT" => HalfInv(r.half[e], "open")
  BY <1>1, <1>4, <1>5
<1>8. r.half["IN"].chan # "none"
  BY <1>1, <1>4, <1>5 DEF CircInv
<1>9. CanAppend(r, "OUT")
  BY <1>2, <1>4, <1>5, <1>6, <1>7, <1>8 DEF CanAppend, CircInv
<1>10. "CREATE" \in Commands
  BY DEF Commands
<1>11. CircInv(append_cell_to_circuit_queue(r, "OUT", "CREATE", NoStream, delay, oom))
  BY <1>1, <1>9, <1>10, AppendCirc
<1>. QED
  BY <1>3, <1>11 DEF circuit_deliver_create_cell

\* RELAY_COMMAND_TRUNCATE leaves an open circuit that can answer.
LEMMA CutNextHop ==
  ASSUME NEW c, CircInv(c), c.phase = "open"
  PROVE  CanAppend(cut_next_hop([c EXCEPT !.n_hop = FALSE]), "IN")
<1>. DEFINE m == [c EXCEPT !.n_hop = FALSE]
            h == clear_circid_chan(circuit_clear_cell_queue(m.half["OUT"]))
            r == [m EXCEPT !.half["OUT"] = h]
<1>1. "OUT" \in Dirs /\ "IN" \in Dirs
  BY DEF Dirs
<1>2. /\ m \in CircType
      /\ m.phase = "open"
      /\ m.n_hop = FALSE
      /\ m.streams = c.streams /\ m.stopped = c.stopped
      /\ m.half = c.half
  BY DEF CircInv, CircType
<1>. HIDE DEF m
<1>3. CircInv(m)
  BY <1>2 DEF CircInv
<1>4. cut_next_hop(m) = IF m.half["OUT"].chan = "none" THEN m ELSE r
  BY DEF cut_next_hop
<1>5. HalfInv(h, "open") /\ h.chan = "none" /\ h \in Half
  BY <1>1, <1>2, <1>3, CutHalf DEF CircInv, HalfInv
<1>. HIDE DEF h
<1>6. /\ r \in CircType
      /\ r.phase = "open" /\ r.n_hop = FALSE
      /\ r.streams = c.streams /\ r.stopped = c.stopped
      /\ r.half["OUT"] = h
      /\ \A e \in Dirs : e # "OUT" => r.half[e] = m.half[e]
  BY <1>1, <1>2, <1>5, SetHalf
<1>. HIDE DEF r
<1>7. CircInv(r)
  BY <1>1, <1>2, <1>3, <1>5, <1>6 DEF CircInv
<1>8. CircInv(cut_next_hop(m)) /\ cut_next_hop(m).phase = "open"
  BY <1>2, <1>3, <1>4, <1>6, <1>7
<1>9. CanAppend(cut_next_hop(m), "IN")
  BY <1>1, <1>8, OpenCanAppend DEF CircInv
<1>. QED
  BY <1>9 DEF m

\* circuit_free_
LEMMA FreeCirc ==
  ASSUME NEW c, CircInv(c), c.phase = "marked"
  PROVE  CircInv([c EXCEPT
                    !.phase = "freed",
                    !.half = [d \in Dirs |-> free_cells(clear_circid_chan(c.half[d]))],
                    !.n_hop = FALSE, !.streams = {}, !.stopped = {}])
<1>. DEFINE g == [d \in Dirs |-> free_cells(clear_circid_chan(c.half[d]))]
            r == [c EXCEPT !.phase = "freed", !.half = g,
                           !.n_hop = FALSE, !.streams = {}, !.stopped = {}]
<1>1. \A d \in Dirs : HalfInv(g[d], "freed")
  BY FreeHalf DEF CircInv
<1>2. g \in [Dirs -> Half]
  BY <1>1 DEF HalfInv
<1>. HIDE DEF g
<1>3. /\ r \in CircType
      /\ r.phase = "freed"
      /\ r.half = g
      /\ r.streams = {}
      /\ r.stopped = {}
  BY <1>2 DEF CircInv, CircType
<1>. HIDE DEF r
<1>4. CircInv(r)
  BY <1>1, <1>3 DEF CircInv
<1>. QED
  BY <1>4 DEF r, g

-----------------------------------------------------------------------------
\* The invariant holds of the circuit a CREATE makes.
LEMMA InitInv == Init => IInv
<1>. SUFFICES ASSUME Init
              PROVE  IInv
  OBVIOUS
<1>. DEFINE z == <<>>
            new == [chan |-> "none", circ_id |-> 0, queue |-> z,
                    delay_queue |-> z, delay_timer |-> "none", expires |-> 0,
                    last_ready |-> 0, streams_blocked |-> FALSE,
                    attached |-> FALSE, num_cells |-> 0,
                    sched_pending |-> FALSE, count |-> 0]
            in == set_circid_chan(new, 1)
            f == [d \in Dirs |-> IF d = "IN" THEN in ELSE new]
<1>1. z \in Seq(Cell) /\ z = <<>> /\ Len(z) = 0
  OBVIOUS
<1>2. NewHalf = new
  BY DEF NewHalf
<1>. HIDE DEF z
<1>3. /\ new \in Half
      /\ new.chan = "none"
      /\ new.queue = z
      /\ new.delay_queue = z
      /\ new.delay_timer = "none"
      /\ new.attached = FALSE
  BY <1>1 DEF Half
<1>. HIDE DEF new
<1>4. HalfInv(new, "open")
  <2>1. TimerInv(new, "open")
    BY <1>1, <1>3 DEF TimerInv
  <2>2. MuxInv(new, "open")
    BY <1>1, <1>3 DEF MuxInv
  <2>. QED
    BY <1>3, <2>1, <2>2, Zenon DEF HalfInv, FreedInv
<1>5. /\ in \in Half
      /\ in.chan = "open"
      /\ in.queue = z
      /\ in.delay_queue = z
      /\ in.delay_timer = "none"
      /\ in.attached = TRUE
      /\ in.num_cells = 0
  <2>. DEFINE n == Len(new.queue)
  <2>1. n = 0
    BY <1>1, <1>3
  <2>. HIDE DEF n
  <2>2. in = [new EXCEPT !.chan = "open", !.circ_id = 1, !.attached = TRUE,
                         !.num_cells = n]
    BY DEF set_circid_chan, n
  <2>. HIDE DEF in
  <2>. QED
    BY <1>3, <2>1, <2>2 DEF Half
<1>. HIDE DEF in
<1>6. HalfInv(in, "open")
  <2>1. TimerInv(in, "open")
    BY <1>1, <1>5 DEF TimerInv
  <2>2. /\ in.attached = (in.chan # "none")
        /\ in.chan # "none"
    BY <1>5
  <2>3. /\ in.num_cells = Len(in.queue)
        /\ in.num_cells >= Len(in.queue)
        /\ ~(in.num_cells > 0)
    BY <1>1, <1>5
  <2>4. MuxInv(in, "open")
    BY <2>2, <2>3, Zenon DEF MuxInv
  <2>. QED
    BY <1>5, <2>1, <2>4, Zenon DEF HalfInv, FreedInv
<1>7. circ = [phase |-> "open", half |-> f, n_hop |-> FALSE, hops |-> 0,
              streams |-> {}, stopped |-> {}]
  BY <1>2 DEF Init, in
<1>8. f \in [Dirs -> Half] /\ \A d \in Dirs : HalfInv(f[d], "open")
  BY <1>3, <1>4, <1>5, <1>6
<1>9. f["IN"].chan # "none"
  BY <1>5 DEF Dirs
<1>. HIDE DEF f
<1>10. CircInv(circ)
  BY <1>7, <1>8, <1>9 DEF CircInv, CircType
<1>11. TypeOK
  BY <1>10, <1>1 DEF Init, TypeOK, CircInv, z
<1>. QED
  BY <1>10, <1>11 DEF IInv

\* What the event loop, the peers and the clocks keep besides the circuit.
EnvType ==
  /\ destroyq \in [Dirs -> Seq(Nat)]
  /\ wire \in [Dirs -> [seq : Nat, circ_id : Nat, destroyed : SUBSET Nat]]
  /\ mono \in Nat
  /\ wall \in Nat
  /\ jumps \in Nat

LEMMA IInvParts == IInv <=> CircInv(circ) /\ EnvType
BY DEF IInv, TypeOK, CircInv, EnvType

\* Every step keeps the types of what is outside the circuit.
LEMMA EnvStep ==
  ASSUME CircInv(circ), EnvType, Next
  PROVE  EnvType'
<1>. USE DEF EnvType
<1>. DEFINE W == [seq : Nat, circ_id : Nat, destroyed : SUBSET Nat]
<1>1. \A d \in Dirs : circ.half[d] \in Half
  BY DEF CircInv, HalfInv
<1>2. \A d \in Dirs : destroys_for(circ.half[d]) \in Seq(Nat)
  <2>1. \A d \in Dirs : circ.half[d].circ_id \in Nat
    BY <1>1 DEF Half
  <2>. QED
    BY <2>1 DEF destroys_for
<1>3. CASE UNCHANGED <<destroyq, wire, mono, wall, jumps>>
  BY <1>3
<1>4. CASE Truncate
  <2>1. destroyq["OUT"] \o destroys_for(circ.half["OUT"]) \in Seq(Nat)
    BY <1>2 DEF Dirs
  <2>. QED
    BY <1>4, <2>1 DEF Truncate
<1>5. CASE CloseAllMarked
  <2>1. \A d \in Dirs : destroyq[d] \o destroys_for(circ.half[d]) \in Seq(Nat)
    BY <1>2
  <2>. QED
    BY <1>5, <2>1 DEF CloseAllMarked
<1>6. ASSUME NEW d \in Dirs, ChannelClosed(d) \/ FlushFails(d)
      PROVE  EnvType'
  <2>. DEFINE z == <<>>
  <2>1. z \in Seq(Nat)
    OBVIOUS
  <2>2. destroyq' = [destroyq EXCEPT ![d] = z]
    BY <1>6 DEF ChannelClosed, FlushFails
  <2>. HIDE DEF z
  <2>3. destroyq' \in [Dirs -> Seq(Nat)]
    BY <2>1, <2>2
  <2>. QED
    BY <1>6, <2>3 DEF ChannelClosed, FlushFails
<1>7. ASSUME NEW d \in Dirs, Flush(d)
      PROVE  EnvType'
  <2>. DEFINE x == Head(circ.half[d].queue)
  <2>1. circ.half[d].queue \in Seq(Cell) /\ circ.half[d].queue # <<>>
    <3>1. circ.half[d] \in Half
      BY <1>1
    <3>2. circ.half[d].queue \in Seq(Cell)
      BY <3>1 DEF Half
    <3>. QED
      BY <1>7, <3>2 DEF Flush
  <2>2. x.seq \in Nat /\ x.circ_id \in Nat
    <3>1. x \in Cell
      BY <2>1
    <3>. HIDE DEF x
    <3>. QED BY <3>1 DEF Cell
  <2>3. wire' = [wire EXCEPT ![d].seq = x.seq, ![d].circ_id = x.circ_id]
    BY <1>7 DEF Flush
  <2>. HIDE DEF x
  <2>4. wire' \in [Dirs -> W]
    BY <2>2, <2>3
  <2>. QED
    BY <1>7, <2>4 DEF Flush
<1>8. ASSUME NEW d \in Dirs, FlushDestroy(d)
      PROVE  EnvType'
  <2>1. /\ destroyq[d] \in Seq(Nat)
        /\ destroyq[d] # <<>>
    BY <1>8 DEF FlushDestroy
  <2>. DEFINE x == Head(destroyq[d])  t == Tail(destroyq[d])
  <2>2. x \in Nat /\ t \in Seq(Nat)
    BY <2>1
  <2>3. /\ destroyq' = [destroyq EXCEPT ![d] = t]
        /\ wire' = [wire EXCEPT ![d].destroyed = @ \cup {x}]
    BY <1>8 DEF FlushDestroy
  <2>. HIDE DEF x, t
  <2>4. destroyq' \in [Dirs -> Seq(Nat)] /\ wire' \in [Dirs -> W]
    BY <2>2, <2>3
  <2>. QED
    BY <1>8, <2>4 DEF FlushDestroy
<1>9. CASE TimePasses
  BY <1>9 DEF TimePasses
<1>10. CASE SetWallClock
  BY <1>10, CircuitParameters DEF SetWallClock
<1>. QED
  BY <1>3, <1>4, <1>5, <1>6, <1>7, <1>8, <1>9, <1>10
  DEF Next, ReceiveOut, ReceiveIn, PackageFromStream, OpenStream, CloseStream,
      Extend, NChanDone, MarkForClose, HandleOom, ReceiveDestroy,
      ChannelClosing, FlushEmpty, SchedulerIdle, TimerFires

\* Every step keeps the circuit sound: one case per action.
LEMMA CircStep ==
  ASSUME CircInv(circ), EnvType, Next
  PROVE  CircInv(circ')
<1>1. /\ circ \in CircType
      /\ circ.stopped \subseteq circ.streams
      /\ circ.phase \in {"open", "marked", "freed"}
      /\ "IN" \in Dirs /\ "OUT" \in Dirs
      /\ "RELAY" \in Commands
      /\ mono \in Nat /\ wall \in Nat
      /\ Delays \subseteq Nat
  BY CircuitParameters DEF CircInv, CircType, Dirs, Commands, EnvType
<1>2. \A d \in Dirs : HalfInv(circ.half[d], circ.phase)
  BY DEF CircInv
<1>3. circ.phase # "freed" => CircInv(circuit_mark_for_close(circ))
  BY <1>1, MarkCirc, MarkedHalves
<1>4. CASE ReceiveOut
  <2>. PICK delay \in Delays, oom \in BOOLEAN :
         circ' = IF circ.half["OUT"].chan = "none"
                 THEN circuit_mark_for_close(circ)
                 ELSE append_cell_to_circuit_queue(circ, "OUT", "RELAY",
                                                   NoStream, delay, oom)
    BY <1>4 DEF ReceiveOut
  <2>1. circ.phase = "open"
    BY <1>4 DEF ReceiveOut
  <2>2. circ.half["OUT"].chan # "none" =>
          CircInv(append_cell_to_circuit_queue(circ, "OUT", "RELAY",
                                               NoStream, delay, oom))
    BY <1>1, <2>1, OpenCanAppend, AppendCirc
  <2>. QED
    BY <1>3, <2>1, <2>2
<1>5. CASE ReceiveIn
  <2>. PICK delay \in Delays, oom \in BOOLEAN :
         circ' = append_cell_to_circuit_queue(circ, "IN", "RELAY", NoStream,
                                              delay, oom)
    BY <1>5 DEF ReceiveIn
  <2>1. circ.phase = "open" /\ circ.half["IN"].chan # "none"
    BY <1>5 DEF ReceiveIn, CircInv
  <2>. QED
    BY <1>1, <2>1, OpenCanAppend, AppendCirc
<1>6. ASSUME NEW s \in Streams, PackageFromStream(s)
      PROVE  CircInv(circ')
  <2>. PICK delay \in Delays, oom \in BOOLEAN :
         circ' = append_cell_to_circuit_queue(circ, "IN", "RELAY", s,
                                              delay, oom)
    BY <1>6 DEF PackageFromStream
  <2>1. circ.phase = "open" /\ circ.half["IN"].chan # "none"
    BY <1>6 DEF PackageFromStream, CircInv
  <2>. QED
    BY <1>1, <2>1, OpenCanAppend, AppendCirc
<1>7. ASSUME NEW s \in Streams, OpenStream(s) \/ CloseStream(s)
      PROVE  CircInv(circ')
  <2>. DEFINE new == circ.streams \cup {s}
              old == circ.streams \ {s}
              running == circ.stopped \ {s}
  <2>1. /\ new \in SUBSET Streams /\ old \in SUBSET Streams
        /\ running \in SUBSET Streams
        /\ circ.stopped \subseteq new /\ running \subseteq old
    BY <1>1 DEF CircType
  <2>2. \/ circ' = [circ EXCEPT !.streams = new]
        \/ circ' = [circ EXCEPT !.streams = old, !.stopped = running]
    BY <1>7 DEF OpenStream, CloseStream
  <2>. HIDE DEF new, old, running
  <2>3. /\ circ' \in CircType
        /\ circ'.phase = circ.phase
        /\ circ'.half = circ.half
        /\ circ'.n_hop = circ.n_hop
        /\ circ'.stopped \subseteq circ'.streams
    <3>1. CASE circ' = [circ EXCEPT !.streams = new]
      BY <1>1, <2>1, <3>1 DEF CircType
    <3>2. CASE circ' = [circ EXCEPT !.streams = old, !.stopped = running]
      BY <1>1, <2>1, <3>2 DEF CircType
    <3>. QED
      BY <2>2, <3>1, <3>2
  <2>. QED
    BY <2>3 DEF CircInv
<1>8. CASE Extend
  <2>1. circ.phase = "open"
    BY <1>8 DEF Extend
  <2>2. CASE circ' = circuit_mark_for_close(circ)
    BY <1>3, <2>1, <2>2
  <2>3. CASE circ.half["OUT"].chan = "none" /\ circ' = [circ EXCEPT !.n_hop = TRUE]
    <3>1. /\ circ' \in CircType
          /\ circ'.phase = circ.phase
          /\ circ'.half = circ.half
          /\ circ'.streams = circ.streams /\ circ'.stopped = circ.stopped
      BY <1>1, <2>3 DEF CircType
    <3>. QED
      BY <2>3, <3>1 DEF CircInv
  <2>4. ASSUME circ.half["OUT"].chan = "none",
               NEW delay \in Delays, NEW oom \in BOOLEAN,
               circ' = circuit_deliver_create_cell(circ, delay, oom)
        PROVE  CircInv(circ')
    BY <1>1, <2>1, <2>4, DeliverCreate
  <2>. QED
    BY <1>8, <2>2, <2>3, <2>4 DEF Extend
<1>9. CASE NChanDone
  <2>1. circ.phase = "open" /\ circ.half["OUT"].chan = "none"
    BY <1>9 DEF NChanDone, CircInv
  <2>2. CASE circ' = circuit_mark_for_close(circ)
    BY <1>3, <2>1, <2>2
  <2>3. ASSUME NEW delay \in Delays, NEW oom \in BOOLEAN,
               circ' = circuit_deliver_create_cell(circ, delay, oom)
        PROVE  CircInv(circ')
    BY <1>1, <2>1, <2>3, DeliverCreate
  <2>. QED
    BY <1>9, <2>2, <2>3 DEF NChanDone
<1>10. CASE Truncate
  <2>. PICK delay \in Delays, oom \in BOOLEAN :
         circ' = append_cell_to_circuit_queue(
                   cut_next_hop([circ EXCEPT !.n_hop = FALSE]),
                   "IN", "RELAY", NoStream, delay, oom)
    BY <1>10 DEF Truncate
  <2>. DEFINE c == cut_next_hop([circ EXCEPT !.n_hop = FALSE])
  <2>1. CanAppend(c, "IN")
    BY <1>10, CutNextHop DEF Truncate
  <2>. HIDE DEF c
  <2>2. CircInv(append_cell_to_circuit_queue(c, "IN", "RELAY", NoStream, delay, oom))
    BY <1>1, <2>1, AppendCirc
  <2>. QED
    BY <2>2 DEF c
<1>11. CASE MarkForClose
  BY <1>3, <1>11 DEF MarkForClose
<1>12. CASE HandleOom
  <2>1. \A d \in Dirs : Reclaimable(circ.half[d])
    BY <1>2, Reclaiming
  <2>. QED
    BY <1>1, <1>12, <2>1, FreeCellsCirc DEF HandleOom
<1>13. CASE CloseAllMarked
  BY <1>13, FreeCirc DEF CloseAllMarked
<1>14. ASSUME NEW d \in Dirs, ReceiveDestroy(d) \/ ChannelClosed(d)
       PROVE  CircInv(circ')
  <2>. DEFINE h == clear_circid_chan(circ.half[d])
  <2>1. /\ circ.phase \in {"open", "marked"}
        /\ circ' = circuit_mark_for_close([circ EXCEPT !.half[d] = h])
    BY <1>1, <1>14 DEF ReceiveDestroy, ChannelClosed
  <2>2. HalfInv(h, "marked")
    BY <1>2, <2>1, ClearChan
  <2>. HIDE DEF h
  <2>. QED
    BY <2>1, <2>2, SetHalfMark
<1>15. ASSUME NEW d \in Dirs, ChannelClosing(d)
       PROVE  CircInv(circ')
  <2>. DEFINE h == channel_closing(circ.half[d])
  <2>1. /\ circ.phase \in {"open", "marked"}
        /\ circ.half[d].chan = "open"
        /\ circ' = [circ EXCEPT !.half[d] = h]
    BY <1>1, <1>15 DEF ChannelClosing
  <2>2. HalfInv(h, circ.phase) /\ h.chan = "closing"
    BY <1>2, <2>1, ChannelSteps
  <2>. HIDE DEF h
  <2>. QED
    BY <2>1, <2>2, SetHalfInv
<1>16. ASSUME NEW d \in Dirs, Flush(d)
       PROVE  CircInv(circ')
  <2>. DEFINE h == circ.half[d]
              f == flush_cell(h)
              stop == IF d = "IN" /\ h.streams_blocked /\ ~f.streams_blocked
                      THEN {} ELSE circ.stopped
              r == [circ EXCEPT !.half[d] = f]
              b == [r EXCEPT !.stopped = stop]
  <2>1. /\ h.chan = "open" /\ h.sched_pending /\ h.queue # <<>>
        /\ circ' = [circ EXCEPT !.half[d] = f, !.stopped = stop]
    BY <1>16 DEF Flush
  <2>2. circ.phase \in {"open", "marked"}
    <3>1. circ.phase # "freed"
      BY <1>2, <2>1 DEF HalfInv, FreedInv
    <3>. QED
      BY <1>1, <3>1
  <2>3. HalfInv(f, circ.phase) /\ f.chan = "open"
    BY <1>2, <2>1, <2>2, FlushCell
  <2>4. stop \subseteq circ.streams
    BY <1>1
  <2>5. circ' = b
    BY <2>1
  <2>. HIDE DEF f, stop
  <2>6. CircInv(r)
    BY <2>1, <2>3, SetHalfInv
  <2>7. r.streams = circ.streams
    BY <1>1 DEF CircType
  <2>. HIDE DEF r
  <2>8. /\ b \in CircType
        /\ b.phase = r.phase /\ b.half = r.half /\ b.n_hop = r.n_hop
        /\ b.streams = r.streams /\ b.stopped = stop
    <3>1. stop \in SUBSET Streams
      BY <1>1, <2>4 DEF CircType
    <3>. QED
      BY <2>6, <3>1 DEF CircInv, CircType
  <2>. HIDE DEF b
  <2>9. CircInv(b)
    BY <2>4, <2>6, <2>7, <2>8 DEF CircInv
  <2>. QED
    BY <2>5, <2>9
<1>17. ASSUME NEW d \in Dirs, FlushEmpty(d)
       PROVE  CircInv(circ')
  <2>. DEFINE h == flush_empty(circ.half[d])
  <2>1. /\ circ.half[d].chan = "open" /\ circ.half[d].queue = <<>>
        /\ circ' = circuit_mark_for_close([circ EXCEPT !.half[d] = h])
    BY <1>17 DEF FlushEmpty
  <2>2. circ.phase \in {"open", "marked"} /\ circ.phase # "freed"
    BY <1>1, <1>2, <2>1 DEF HalfInv, FreedInv
  <2>3. HalfInv(h, "marked")
    BY <1>2, <2>1, <2>2, ChannelSteps
  <2>. HIDE DEF h
  <2>. QED
    BY <2>1, <2>2, <2>3, SetHalfMark
<1>18. ASSUME NEW d \in Dirs, FlushFails(d)
       PROVE  CircInv(circ')
  <2>. DEFINE h == flush_fails(circ.half[d])
  <2>1. /\ circ.half[d].chan = "open"
        /\ circ' = circuit_mark_for_close([circ EXCEPT !.half[d] = h])
    BY <1>18 DEF FlushFails
  <2>2. circ.phase \in {"open", "marked"} /\ circ.phase # "freed"
    BY <1>1, <1>2, <2>1 DEF HalfInv, FreedInv
  <2>3. HalfInv(h, "marked")
    BY <1>2, <2>1, <2>2, ChannelSteps
  <2>. HIDE DEF h
  <2>. QED
    BY <2>1, <2>2, <2>3, SetHalfMark
<1>19. ASSUME NEW d \in Dirs, SchedulerIdle(d)
       PROVE  CircInv(circ')
  <2>. DEFINE h == scheduler_idle(circ.half[d])
  <2>1. /\ circ.half[d].num_cells = 0
        /\ circ' = [circ EXCEPT !.half[d] = h]
    BY <1>19 DEF SchedulerIdle
  <2>2. CASE circ.phase # "freed"
    <3>1. HalfInv(h, circ.phase) /\ h.chan = circ.half[d].chan
      BY <1>1, <1>2, <2>1, <2>2, ChannelSteps
    <3>. HIDE DEF h
    <3>. QED
      BY <2>1, <3>1, SetHalfInv
  <2>3. CASE circ.phase = "freed"
    <3>1. HalfInv(circ.half[d], "freed") /\ circ.half[d].chan = "none"
      BY <1>2, <2>3 DEF HalfInv, FreedInv
    <3>2. HalfInv(h, "freed")
      BY <2>1, <3>1, IdleFreed
    <3>. HIDE DEF h
    <3>. QED
      BY <2>1, <2>3, <3>2, SetHalfInv
  <2>. QED
    BY <2>2, <2>3
<1>20. ASSUME NEW d \in Dirs, TimerFires(d)
       PROVE  CircInv(circ')
  <2>. DEFINE h == circ.half[d]
  <2>. PICK n \in 0..Len(h.delay_queue) : circ' = cell_ready_callback(circ, d, n)
    BY <1>20 DEF TimerFires
  <2>1. h.delay_timer = "armed"
    BY <1>20 DEF TimerFires
  <2>2. CASE circ.phase # "open"
    <3>. DEFINE r == leave_fired_timer(h)
    <3>1. circ.phase = "marked"
      <4>1. circ.phase # "freed"
        BY <1>2, <2>1 DEF HalfInv, FreedInv
      <4>. QED
        BY <1>1, <2>2, <4>1
    <3>2. circ' = [circ EXCEPT !.half[d] = r]
      BY <2>2 DEF cell_ready_callback
    <3>3. HalfInv(r, circ.phase)
      BY <1>2, <2>1, <3>1, ChannelSteps
    <3>. HIDE DEF r
    <3>4. CircInv([circ EXCEPT !.half[d] = r])
      BY <2>2, <3>3, SetHalfInv
    <3>. QED
      BY <3>2, <3>4
  <2>3. CASE circ.phase = "open" /\ h.chan = "none"
    <3>. DEFINE r == free_delay_timer(h)
    <3>1. circ' = [circ EXCEPT !.half[d] = r]
      BY <2>3 DEF cell_ready_callback
    <3>2. HalfInv(r, circ.phase) /\ r.chan = "none"
      BY <1>2, <2>3, ChannelSteps
    <3>. HIDE DEF r
    <3>. QED
      BY <2>3, <3>1, <3>2, SetHalfInv
  <2>4. CASE circ.phase = "open" /\ h.chan # "none"
    <3>. DEFINE r == release_cells(h, n, mono, wall)
    <3>1. circ' = [circ EXCEPT !.half[d] = r]
      BY <2>4 DEF cell_ready_callback
    <3>2. HalfInv(r, circ.phase) /\ r.chan = h.chan
      BY <1>1, <1>2, <2>4, ReleaseCells
    <3>. HIDE DEF r
    <3>. QED
      BY <2>4, <3>1, <3>2, SetHalfInv
  <2>. QED
    BY <2>2, <2>3, <2>4
<1>21. CASE UNCHANGED circ
  BY <1>21
<1>. QED
  BY <1>4, <1>5, <1>6, <1>7, <1>8, <1>9, <1>10, <1>11, <1>12, <1>13, <1>14,
     <1>15, <1>16, <1>17, <1>18, <1>19, <1>20, <1>21
  DEF Next, FlushDestroy, TimePasses, SetWallClock

THEOREM InductiveInvariant == Spec => []IInv
<1>1. Init => IInv
  BY InitInv
<1>2. IInv /\ [Next]_vars => IInv'
  <2>. SUFFICES ASSUME CircInv(circ), EnvType, [Next]_vars
                PROVE  CircInv(circ)' /\ EnvType'
    BY IInvParts DEF IInv, TypeOK, EnvType, CircInv
  <2>1. CASE Next
    BY <2>1, CircStep, EnvStep
  <2>2. CASE UNCHANGED vars
    BY <2>2 DEF vars, EnvType
  <2>. QED
    BY <2>1, <2>2
<1>. QED
  BY <1>1, <1>2, PTL DEF Spec

\* Every variable keeps its type, for every bound and every delay.
THEOREM TypeCorrect == Spec => []TypeOK
<1>1. IInv => TypeOK
  BY DEF IInv
<1>. QED
  BY <1>1, InductiveInvariant, PTL

\* schedule_delay_timer and cell_ready_callback dereference the first delayed
\* cell without a check: a scheduled timer always finds one, and cells delayed
\* for a channel always have a timer.
THEOREM TimersAreSound == Spec => []TimerMatchesQueue
<1>1. IInv => TimerMatchesQueue
  BY DEF IInv, CircInv, HalfInv, TimerInv, TimerMatchesQueue
<1>. QED
  BY <1>1, InductiveInvariant, PTL

\* circuit_free_ leaves no timer that points to the circuit, no cell, and no
\* entry in a circuitmux.
THEOREM NothingLeaks == Spec => []NothingOutlivesCircuit
<1>1. IInv => NothingOutlivesCircuit
  <2>. SUFFICES ASSUME IInv, circ.phase = "freed", NEW d \in Dirs
                PROVE  /\ circ.half[d].delay_timer = "none"
                       /\ Queued(d) = <<>>
                       /\ ~circ.half[d].attached
                       /\ circ.half[d].chan = "none"
    BY DEF NothingOutlivesCircuit
  <2>. DEFINE h == circ.half[d]
  <2>1. /\ h.delay_timer = "none"
        /\ h.queue = <<>>
        /\ h.delay_queue = <<>>
        /\ h.chan = "none"
        /\ h.attached = (h.chan # "none")
    BY DEF IInv, CircInv, HalfInv, FreedInv, MuxInv
  <2>2. ~h.attached
    BY <2>1, Zenon
  <2>3. h.queue \o h.delay_queue = <<>>
    <3>1. <<>> \o <<>> = <<>>
      BY ConcatEmptySeq, EmptySeq
    <3>. QED
      BY <2>1, <3>1, Zenon
  <2>. QED
    BY <2>1, <2>2, <2>3, Zenon DEF Queued, InFlight
<1>. QED
  BY <1>1, InductiveInvariant, PTL

\* The circuitmux never misses a cell that the callback released, and the
\* scheduler knows of every open channel the mux has cells for.
THEOREM ReleasedCellsAreSeen == Spec => []MuxSeesReleasedCells
<1>1. IInv => MuxSeesReleasedCells
  BY Zenon DEF IInv, CircInv, HalfInv, MuxInv, MuxSeesReleasedCells
<1>. QED
  BY <1>1, InductiveInvariant, PTL

-----------------------------------------------------------------------------
(* What a step does to the cells of a direction: the order of delayed cells, *)
(* the blocked streams, and the refinement of CellPipe.                      *)

\* The three ends of append_cell_to_circuit_queue: the cell is queued, the
\* queue was full, or memory was reclaimed at once.
Appended(c, r, d) ==
  \/ /\ r.phase = "open"
     /\ AddsCell(c.half[d], r.half[d])
     /\ c.half[d].streams_blocked => r.half[d].streams_blocked
     /\ r.half[d].chan = c.half[d].chan
     /\ \A e \in Dirs : e # d => r.half[e] = c.half[e]
     /\ r.stopped # c.stopped => r.half["IN"].streams_blocked
  \/ /\ r.phase = "marked"
     /\ r.half = c.half
  \/ /\ r.phase = "marked"
     /\ Reclaimed(c.half[d], r.half[d])
     /\ \A e \in Dirs : e # d => DropsCells(c.half[e], r.half[e])

\* append_cell_to_circuit_queue ends one of three ways: the cell is in, the
\* circuit is marked, or memory was reclaimed.
LEMMA AppendEnds ==
  ASSUME NEW c, NEW d \in Dirs, CanAppend(c, d), NEW command \in Commands,
         NEW s, NEW delay \in Nat, NEW oom \in BOOLEAN, mono \in Nat, wall \in Nat
  PROVE  Appended(c, append_cell_to_circuit_queue(c, d, command, s, delay, oom), d)
<1>. DEFINE h == c.half[d]
            added == cell_queue_append_packed_copy(h, command, delay, mono, wall)
            done == append_tail(added)
            stop == IF d = "OUT" THEN {}
                    ELSE IF h.streams_blocked THEN {s} \cap c.streams
                    ELSE IF done.streams_blocked THEN c.streams
                    ELSE {}
            r == append_cell_to_circuit_queue(c, d, command, s, delay, oom)
            full == Len(h.queue) >= MaxQueueSize
            a == [c EXCEPT !.half[d] = added]
            ma == circuit_mark_for_close(a)
            g == [e \in Dirs |-> free_cells(ma.half[e])]
            q == [c EXCEPT !.half[d] = done]
            b == [q EXCEPT !.stopped = @ \cup stop]
<1>1. /\ c \in CircType
      /\ c.phase = "open"
      /\ c.stopped \subseteq c.streams
      /\ Appendable(h)
  BY DEF CanAppend
<1>2. /\ Appendable(added)
      /\ AddsCell(h, added)
      /\ AddsCell(h, done)
      /\ h.streams_blocked => done.streams_blocked
      /\ done.chan = h.chan
      /\ done \in Half
  <2>. HIDE DEF h
  <2>1. mono \in Nat /\ wall \in Nat
    OBVIOUS
  <2>2. /\ Appendable(added)
        /\ added.chan = h.chan
        /\ HalfInv(done, "open")
        /\ done.chan = h.chan
    BY <1>1, <2>1, AppendCell
  <2>3. /\ AddsCell(h, added)
        /\ AddsCell(h, done)
        /\ h.streams_blocked => done.streams_blocked
    BY <1>1, <2>1, AppendAdds
  <2>. HIDE DEF added, done
  <2>. QED
    BY <2>2, <2>3 DEF HalfInv
<1>3. r = IF full THEN circuit_mark_for_close(c)
          ELSE IF oom
               THEN marked_circuit_free_cells(circuit_mark_for_close(a))
          ELSE [c EXCEPT !.half[d] = done, !.stopped = @ \cup stop]
  BY <1>1 DEF append_cell_to_circuit_queue, QueueFull
<1>4. [c EXCEPT !.half[d] = done, !.stopped = @ \cup stop] = b
  <2>. HIDE DEF done, stop
  <2>1. q.stopped = c.stopped
    BY <1>1 DEF CircType
  <2>. QED
    BY <2>1
<1>5. stop \subseteq c.streams
  OBVIOUS
<1>6. stop # {} => d = "IN" /\ done.streams_blocked
  BY <1>2 DEF Dirs
<1>. HIDE DEF added, done, stop, r, full
<1>7. CASE full
  <2>1. /\ circuit_mark_for_close(c).phase = "marked"
        /\ circuit_mark_for_close(c).half = c.half
    BY <1>1 DEF circuit_mark_for_close, CircType
  <2>. QED
    BY <1>3, <1>7, <2>1 DEF r, Appended
<1>8. CASE ~full /\ oom
  <2>1. added \in Half
    BY <1>2 DEF Appendable, Reclaimable
  <2>2. /\ a \in CircType
        /\ a.phase = "open"
        /\ a.half[d] = added
        /\ \A e \in Dirs : e # d => a.half[e] = c.half[e]
    BY <1>1, <2>1, SetHalf
  <2>. HIDE DEF a
  <2>3. ma \in CircType /\ ma.phase = "marked" /\ ma.half = a.half
    BY <2>2 DEF circuit_mark_for_close, CircType
  <2>4. r = [ma EXCEPT !.half = g]
    BY <1>3, <1>8 DEF marked_circuit_free_cells
  <2>5. g = [e \in Dirs |-> free_cells(a.half[e])]
    BY <2>3
  <2>. HIDE DEF g, ma
  <2>6. r.phase = "marked" /\ r.half = g
    BY <2>3, <2>4 DEF CircType
  <2>7. Reclaimed(h, r.half[d])
    <3>1. r.half[d] = free_cells(added)
      BY <2>2, <2>5, <2>6
    <3>2. DropsCells(added, free_cells(added)) /\ free_cells(added).delay_queue = <<>>
      BY <2>1, DroppingSteps
    <3>. QED BY <1>2, <3>1, <3>2 DEF DropsCells, AddsCell, Reclaimed
  <2>8. \A e \in Dirs : e # d => DropsCells(c.half[e], r.half[e])
    <3>. SUFFICES ASSUME NEW e \in Dirs, e # d
                  PROVE  DropsCells(c.half[e], r.half[e])
      OBVIOUS
    <3>1. r.half[e] = free_cells(c.half[e])
      BY <2>2, <2>5, <2>6
    <3>2. c.half[e] \in Half
      BY <1>1 DEF CircType
    <3>. QED BY <3>1, <3>2, DroppingSteps
  <2>. QED
    BY <2>6, <2>7, <2>8 DEF r, Appended
<1>9. CASE ~full /\ ~oom
  <2>1. /\ q \in CircType
        /\ q.phase = "open"
        /\ q.stopped = c.stopped
        /\ q.half[d] = done
        /\ \A e \in Dirs : e # d => q.half[e] = c.half[e]
    BY <1>1, <1>2, SetHalf
  <2>. HIDE DEF q
  <2>2. /\ b.phase = "open"
        /\ b.stopped = c.stopped \cup stop
        /\ b.half = q.half
    BY <2>1 DEF CircType
  <2>. HIDE DEF b
  <2>3. b.stopped # c.stopped => b.half["IN"].streams_blocked
    BY <1>6, <2>1, <2>2
  <2>4. /\ AddsCell(h, b.half[d])
        /\ h.streams_blocked => b.half[d].streams_blocked
        /\ b.half[d].chan = h.chan
        /\ \A e \in Dirs : e # d => b.half[e] = c.half[e]
    BY <1>2, <2>1, <2>2
  <2>5. r = b
    BY <1>3, <1>4, <1>9
  <2>. QED
    BY <2>2, <2>3, <2>4, <2>5 DEF r, Appended
<1>. QED
  BY <1>7, <1>8, <1>9

\* The timer runs, and the loop of its callback stops after n cells.
Due(h, n) ==
  /\ h.delay_timer = "armed"
  /\ h.expires <= CurTick(mono)
  /\ StopsAfter(h.delay_queue, wall, n)

\* What one step does to one direction: nothing, unless the hop is let go of;
\* or a cell is accepted; cells are released; the next hop is cut; the circuit
\* is closed; or what a closed circuit still has is dropped.
CellStep(c, r, d) ==
  LET h == c.half[d]
      g == r.half[d]
  IN  \/ /\ c.phase = "open" <=> r.phase = "open"
         /\ SameCells(h, g)
         /\ g.chan # "none" => h.chan # "none"
      \/ /\ c.phase = "open" /\ r.phase = "open"
         /\ AddsCell(h, g)
         /\ h.streams_blocked => g.streams_blocked
         /\ g.chan # "none"
      \/ /\ c.phase = "open" /\ r.phase = "open"
         /\ g.chan = h.chan
         /\ \E n \in 0..Len(h.delay_queue) : MovesCells(h, g, n) /\ Due(h, n)
      \/ /\ c.phase = "open" /\ r.phase = "open"
         /\ d = "OUT"
         /\ DropsCells(h, g)
         /\ g.delay_queue = h.delay_queue
         /\ h.chan # "none" /\ g.chan = "none"
      \/ /\ c.phase = "open" /\ r.phase # "open"
         /\ SameCells(h, g) \/ DropsCells(h, g) \/ Reclaimed(h, g)
      \/ /\ c.phase # "open" /\ r.phase # "open"
         /\ DropsCells(h, g)
         /\ g.chan # "none" => h.chan # "none"

\* Or one of its cells is written.
WriteStep(d) ==
  /\ circ.half[d].chan # "none" /\ circ'.half[d].chan # "none"
  /\ circ.phase = "open" <=> circ'.phase = "open"
  /\ TakesCell(circ.half[d], circ'.half[d])
  /\ wire'[d].seq = Head(circ.half[d].queue).seq

\* A handler that changes directions in the middle and then appends.
LEMMA AppendedStep ==
  ASSUME NEW c, NEW m, NEW r, NEW d \in Dirs, Appended(m, r, d),
         c.phase = "open", m.half[d].chan # "none",
         SameCells(c.half[d], m.half[d]),
         \A e \in Dirs : e # d =>
           \/ m.half[e] = c.half[e]
           \/ /\ e = "OUT"
              /\ DropsCells(c.half[e], m.half[e])
              /\ m.half[e].delay_queue = c.half[e].delay_queue
              /\ c.half[e].chan # "none" /\ m.half[e].chan = "none",
         NEW e \in Dirs
  PROVE  CellStep(c, r, e)
<1>1. CASE e = d
  <2>1. CASE r.phase = "open" /\ AddsCell(m.half[d], r.half[d])
             /\ (m.half[d].streams_blocked => r.half[d].streams_blocked)
             /\ r.half[d].chan = m.half[d].chan
    <3>. DEFINE h == c.half[d]  k == m.half[d]  g == r.half[d]
    <3>1. AddsCell(h, g)
      <4>1. SameCells(h, k) /\ AddsCell(k, g)
        BY <2>1
      <4>. HIDE DEF h, k, g
      <4>. QED BY <4>1 DEF AddsCell, SameCells
    <3>. QED BY <1>1, <2>1, <3>1 DEF CellStep, SameCells
  <2>2. CASE r.phase = "marked" /\ r.half = m.half
    BY <1>1, <2>2 DEF CellStep
  <2>3. CASE r.phase = "marked" /\ Reclaimed(m.half[d], r.half[d])
    <3>1. Reclaimed(c.half[d], r.half[d])
      BY <2>3 DEF Reclaimed, SameCells
    <3>. QED BY <1>1, <2>3, <3>1 DEF CellStep
  <2>. QED BY <2>1, <2>2, <2>3 DEF Appended
<1>2. CASE e # d
  <2>1. \/ SameCells(c.half[e], m.half[e]) /\ m.half[e] = c.half[e]
        \/ /\ e = "OUT"
           /\ DropsCells(c.half[e], m.half[e])
           /\ m.half[e].delay_queue = c.half[e].delay_queue
           /\ c.half[e].chan # "none" /\ m.half[e].chan = "none"
    BY <1>2 DEF SameCells
  <2>2. CASE r.phase = "open" /\ r.half[e] = m.half[e]
    BY <2>1, <2>2 DEF CellStep
  <2>3. CASE r.phase = "marked" /\ r.half = m.half
    BY <2>1, <2>3 DEF CellStep
  <2>4. CASE r.phase = "marked" /\ DropsCells(m.half[e], r.half[e])
    <3>1. DropsCells(c.half[e], r.half[e])
      BY <2>1, <2>4 DEF DropsCells, SameCells
    <3>. QED BY <2>4, <3>1 DEF CellStep
  <2>. QED BY <1>2, <2>2, <2>3, <2>4 DEF Appended
<1>. QED BY <1>1, <1>2

\* An append to a direction of an open circuit.
LEMMA AppendStep ==
  ASSUME NEW c, CircInv(c), c.phase = "open", NEW d \in Dirs,
         c.half[d].chan # "none", NEW command \in Commands,
         NEW s, NEW delay \in Nat, NEW oom \in BOOLEAN, mono \in Nat, wall \in Nat
  PROVE  LET r == append_cell_to_circuit_queue(c, d, command, s, delay, oom) IN
         /\ Appended(c, r, d)
         /\ \A e \in Dirs : CellStep(c, r, e)
<1>. DEFINE r == append_cell_to_circuit_queue(c, d, command, s, delay, oom)
<1>1. CanAppend(c, d)
  BY OpenCanAppend
<1>2. Appended(c, r, d)
  BY <1>1, AppendEnds
<1>3. SameCells(c.half[d], c.half[d])
  BY DEF SameCells
<1>. HIDE DEF r
<1>4. \A e \in Dirs : CellStep(c, r, e)
  BY <1>2, <1>3, AppendedStep
<1>. QED BY <1>2, <1>4 DEF r

\* circuit_deliver_create_cell: the CREATE is the first cell for the new hop.
LEMMA CreateStep ==
  ASSUME NEW c, CircInv(c), c.phase = "open", c.half["OUT"].chan = "none",
         NEW delay \in Nat, NEW oom \in BOOLEAN, mono \in Nat, wall \in Nat
  PROVE  LET r == circuit_deliver_create_cell(c, delay, oom) IN
         /\ \A e \in Dirs : CellStep(c, r, e)
         /\ r.phase = "open" => /\ r.half["IN"] = c.half["IN"]
                                /\ r.stopped # c.stopped => r.half["IN"].streams_blocked
<1>. DEFINE id == c.hops + 1
            h == set_circid_chan(c.half["OUT"], id)
            q == [c EXCEPT !.half["OUT"] = h]
            m == [q EXCEPT !.hops = id, !.n_hop = FALSE]
            r == circuit_deliver_create_cell(c, delay, oom)
<1>1. /\ c \in CircType /\ id \in Nat /\ "OUT" \in Dirs /\ "IN" \in Dirs
      /\ c.half["OUT"] \in Half
      /\ \A e \in Dirs : HalfInv(c.half[e], "open")
  BY DEF CircInv, CircType, Dirs
<1>2. /\ Appendable(h)
      /\ HalfInv(h, "marked")
      /\ h \in Half
      /\ h.chan = "open"
      /\ SameCells(c.half["OUT"], h)
  BY <1>1, SetChan, QuietSteps DEF HalfInv
<1>3. [c EXCEPT !.half["OUT"] = set_circid_chan(@, c.hops + 1),
                !.hops = @ + 1, !.n_hop = FALSE] = m
  <2>1. q.hops = c.hops
    <3>. HIDE DEF h, id
    <3>. QED BY <1>1 DEF CircType
  <2>2. q = [c EXCEPT !.half["OUT"] = set_circid_chan(@, c.hops + 1)]
    OBVIOUS
  <2>. QED
    BY <2>1, <2>2
<1>. HIDE DEF h, id
<1>4. /\ q \in CircType
      /\ q.phase = "open"
      /\ q.streams = c.streams /\ q.stopped = c.stopped
      /\ q.half["OUT"] = h
      /\ \A e \in Dirs : e # "OUT" => q.half[e] = c.half[e]
  BY <1>1, <1>2, SetHalf
<1>. HIDE DEF q
<1>5. /\ m \in CircType
      /\ m.phase = "open"
      /\ m.n_hop = FALSE
      /\ m.streams = c.streams /\ m.stopped = c.stopped
      /\ m.half = q.half
  BY <1>1, <1>4 DEF CircType
<1>. HIDE DEF m
<1>6. \A e \in Dirs : HalfInv(m.half[e], "marked")
  <2>1. \A e \in Dirs : e # "OUT" => HalfInv(m.half[e], "marked")
    BY <1>1, <1>4, <1>5, Marking
  <2>. QED
    BY <1>2, <1>4, <1>5, <2>1
<1>7. \A e \in Dirs : e # "OUT" => HalfInv(m.half[e], "open")
  BY <1>1, <1>4, <1>5
<1>8. m.half["IN"].chan # "none"
  BY <1>1, <1>4, <1>5 DEF CircInv
<1>9. CanAppend(m, "OUT")
  BY <1>2, <1>4, <1>5, <1>6, <1>7, <1>8 DEF CanAppend, CircInv
<1>10. "CREATE" \in Commands
  BY DEF Commands
<1>11. Appended(m, append_cell_to_circuit_queue(m, "OUT", "CREATE", NoStream, delay, oom), "OUT")
  BY <1>1, <1>9, <1>10, AppendEnds
<1>12. r = append_cell_to_circuit_queue(m, "OUT", "CREATE", NoStream, delay, oom)
  BY <1>3 DEF circuit_deliver_create_cell
<1>. HIDE DEF r
<1>13. Appended(m, r, "OUT")
  BY <1>11, <1>12
<1>14. \A e \in Dirs : CellStep(c, r, e)
  <2>1. m.half["OUT"].chan # "none" /\ SameCells(c.half["OUT"], m.half["OUT"])
    BY <1>2, <1>4, <1>5
  <2>2. \A e \in Dirs : e # "OUT" => m.half[e] = c.half[e]
    BY <1>4, <1>5
  <2>. QED BY <1>1, <1>13, <2>1, <2>2, AppendedStep
<1>15. r.phase = "open" => /\ r.half["IN"] = c.half["IN"]
                           /\ r.stopped # c.stopped => r.half["IN"].streams_blocked
  BY <1>1, <1>4, <1>5, <1>13 DEF Appended
<1>. QED BY <1>14, <1>15 DEF r

\* RELAY_COMMAND_TRUNCATE: the next hop is cut, then TRUNCATED is queued.
LEMMA TruncateStep ==
  ASSUME NEW c, CircInv(c), c.phase = "open",
         NEW delay \in Nat, NEW oom \in BOOLEAN, mono \in Nat, wall \in Nat
  PROVE  LET m == cut_next_hop([c EXCEPT !.n_hop = FALSE])
             r == append_cell_to_circuit_queue(m, "IN", "RELAY", NoStream, delay, oom)
         IN  /\ \A e \in Dirs : CellStep(c, r, e)
             /\ m.half["IN"] = c.half["IN"]
             /\ m.stopped = c.stopped
             /\ Appended(m, r, "IN")
<1>. DEFINE n == [c EXCEPT !.n_hop = FALSE]
            h == clear_circid_chan(circuit_clear_cell_queue(n.half["OUT"]))
            x == [n EXCEPT !.half["OUT"] = h]
            m == cut_next_hop(n)
            r == append_cell_to_circuit_queue(m, "IN", "RELAY", NoStream, delay, oom)
<1>1. "OUT" \in Dirs /\ "IN" \in Dirs /\ "RELAY" \in Commands
  BY DEF Dirs, Commands
<1>2. CanAppend(m, "IN")
  BY CutNextHop
<1>3. Appended(m, r, "IN")
  <2>. HIDE DEF m
  <2>. QED BY <1>1, <1>2, AppendEnds
<1>4. /\ n \in CircType
      /\ n.stopped = c.stopped
      /\ n.half = c.half
  BY DEF CircInv, CircType
<1>5. HalfInv(c.half["OUT"], "open") /\ c.half["OUT"] \in Half
  BY <1>1 DEF CircInv, HalfInv
<1>6. m = IF c.half["OUT"].chan = "none" THEN n ELSE x
  BY <1>4 DEF cut_next_hop
<1>. HIDE DEF n, r
<1>7. /\ h \in Half
      /\ h.chan = "none"
      /\ DropsCells(c.half["OUT"], h)
      /\ h.delay_queue = c.half["OUT"].delay_queue
  BY <1>4, <1>5, CutHalf, DroppingSteps DEF HalfInv
<1>. HIDE DEF h
<1>8. /\ x \in CircType
      /\ x.phase = n.phase /\ x.n_hop = n.n_hop
      /\ x.streams = n.streams /\ x.stopped = n.stopped
      /\ x.half["OUT"] = h
      /\ \A e \in Dirs : e # "OUT" => x.half[e] = n.half[e]
  BY <1>1, <1>4, <1>7, SetHalf
<1>. HIDE DEF x, m
<1>9. /\ m.stopped = c.stopped
      /\ m.half["IN"] = c.half["IN"]
      /\ \/ m.half["OUT"] = c.half["OUT"]
         \/ /\ DropsCells(c.half["OUT"], m.half["OUT"])
            /\ m.half["OUT"].delay_queue = c.half["OUT"].delay_queue
            /\ c.half["OUT"].chan # "none" /\ m.half["OUT"].chan = "none"
  BY <1>1, <1>4, <1>6, <1>7, <1>8
<1>10. m.half["IN"].chan # "none" /\ SameCells(c.half["IN"], m.half["IN"])
  BY <1>2, <1>9 DEF CanAppend, SameCells
<1>11. \A e \in Dirs : e # "IN" => e = "OUT"
  BY DEF Dirs
<1>12. \A e \in Dirs : CellStep(c, r, e)
  BY <1>1, <1>3, <1>9, <1>10, <1>11, AppendedStep
<1>. QED BY <1>3, <1>9, <1>12 DEF m, r, n

\* A direction that keeps its cells, or whose circuit is marked meanwhile.
LEMMA StillStep ==
  ASSUME NEW c, NEW r, NEW e \in Dirs, r.half[e] = c.half[e],
         c.phase \in {"open", "marked"}, r.phase \in {c.phase, "marked"}
  PROVE  CellStep(c, r, e)
<1>1. SameCells(c.half[e], r.half[e])
  BY DEF SameCells
<1>2. CASE r.phase = c.phase
  BY <1>1, <1>2 DEF CellStep
<1>3. CASE c.phase = "open" /\ r.phase = "marked"
  BY <1>1, <1>3 DEF CellStep
<1>. QED BY <1>2, <1>3

\* One direction changes and the circuit is marked.
LEMMA SetMarkStep ==
  ASSUME NEW c \in CircType, c.phase \in {"open", "marked"}, NEW d \in Dirs,
         NEW h \in Half, SameCells(c.half[d], h) \/ DropsCells(c.half[d], h),
         h.chan # "none" => c.half[d].chan # "none"
  PROVE  LET r == circuit_mark_for_close([c EXCEPT !.half[d] = h]) IN
         /\ r.phase = "marked"
         /\ \A e \in Dirs : CellStep(c, r, e)
<1>. DEFINE x == [c EXCEPT !.half[d] = h]
            r == circuit_mark_for_close(x)
<1>1. /\ x \in CircType
      /\ x.phase = c.phase /\ x.n_hop = c.n_hop
      /\ x.streams = c.streams /\ x.stopped = c.stopped
      /\ x.half[d] = h
      /\ \A e \in Dirs : e # d => x.half[e] = c.half[e]
  BY SetHalf
<1>. HIDE DEF x
<1>2. r.phase = "marked" /\ r.half = x.half
  BY <1>1 DEF circuit_mark_for_close, CircType
<1>. HIDE DEF r
<1>3. ASSUME NEW e \in Dirs
      PROVE  CellStep(c, r, e)
  <2>1. CASE e = d
    <3>1. r.half[e] = h
      BY <1>1, <1>2, <2>1
    <3>. QED BY <1>2, <2>1, <3>1 DEF CellStep
  <2>2. CASE e # d
    <3>1. r.half[e] = c.half[e]
      BY <1>1, <1>2, <2>2
    <3>. QED BY <1>2, <3>1, StillStep
  <2>. QED BY <2>1, <2>2
<1>. QED BY <1>2, <1>3 DEF r, x

\* One direction changes and the circuit stays as it is.
LEMMA SetStep ==
  ASSUME NEW c \in CircType, c.phase \in {"open", "marked"}, NEW d \in Dirs,
         NEW h \in Half, NEW r, r = [c EXCEPT !.half[d] = h]
  PROVE  /\ r.phase = c.phase /\ r.stopped = c.stopped
         /\ r.half[d] = h
         /\ \A e \in Dirs : e # d => r.half[e] = c.half[e] /\ CellStep(c, r, e)
<1>1. /\ r.phase = c.phase /\ r.stopped = c.stopped
      /\ r.half[d] = h
      /\ \A e \in Dirs : e # d => r.half[e] = c.half[e]
  BY SetHalf
<1>. QED BY <1>1, StillStep

\* What happens to each direction and its wire.
DirStep(e) ==
  \/ CellStep(circ, circ', e) /\ wire'[e].seq = wire[e].seq
  \/ WriteStep(e)

\* Streams are stopped only while the direction is blocked, and all of them
\* restart when it no longer is.
StopStep ==
  circ'.phase = "open" /\ ~circ'.half["IN"].streams_blocked =>
    /\ circ'.stopped \subseteq circ.stopped
    /\ circ.half["IN"].streams_blocked => circ'.stopped = {}

\* Streams are stopped only by a direction to the origin that is blocked.
LEMMA AppendStops ==
  ASSUME NEW d \in Dirs, Appended(circ, circ', d)
  PROVE  StopStep
<1>1. CASE circ'.phase = "open" /\ ~circ'.half["IN"].streams_blocked
  <2>1. /\ circ.half[d].streams_blocked => circ'.half[d].streams_blocked
        /\ \A e \in Dirs : e # d => circ'.half[e] = circ.half[e]
        /\ circ'.stopped = circ.stopped
    BY <1>1 DEF Appended
  <2>2. "IN" \in Dirs
    BY DEF Dirs
  <2>3. ~circ.half["IN"].streams_blocked
    BY <1>1, <2>1, <2>2
  <2>. QED BY <2>1, <2>3 DEF StopStep
<1>. QED BY <1>1 DEF StopStep

\* Every step is one of these for both directions: one case per action.
LEMMA EveryDirStep ==
  ASSUME CircInv(circ), EnvType, Next
  PROVE  (\A e \in Dirs : DirStep(e)) /\ StopStep
<1>1. /\ circ \in CircType
      /\ circ.phase \in {"open", "marked", "freed"}
      /\ "IN" \in Dirs /\ "OUT" \in Dirs
      /\ "RELAY" \in Commands
      /\ mono \in Nat /\ wall \in Nat
      /\ Delays \subseteq Nat
      /\ \A d \in Dirs : circ.half[d] \in Half
  BY CircuitParameters DEF CircInv, CircType, Dirs, Commands, EnvType
<1>2. \A d \in Dirs : HalfInv(circ.half[d], circ.phase)
  BY DEF CircInv
<1>3. ASSUME wire' = wire, circ.phase = "open", circ' = circuit_mark_for_close(circ)
      PROVE  (\A e \in Dirs : DirStep(e)) /\ StopStep
  <2>1. circ'.phase = "marked" /\ circ'.half = circ.half
    BY <1>1, <1>3 DEF circuit_mark_for_close, CircType
  <2>2. \A e \in Dirs : CellStep(circ, circ', e)
    BY <1>3, <2>1, StillStep
  <2>. QED BY <1>3, <2>1, <2>2 DEF DirStep, StopStep
<1>4. ASSUME wire' = wire, circ.phase \in {"open", "marked"}, NEW d \in Dirs,
             NEW h \in Half,
             SameCells(circ.half[d], h) \/ DropsCells(circ.half[d], h),
             h.chan # "none" => circ.half[d].chan # "none",
             circ' = circuit_mark_for_close([circ EXCEPT !.half[d] = h])
      PROVE  (\A e \in Dirs : DirStep(e)) /\ StopStep
  <2>1. circ'.phase = "marked" /\ \A e \in Dirs : CellStep(circ, circ', e)
    BY <1>1, <1>4, SetMarkStep
  <2>. QED BY <1>4, <2>1 DEF DirStep, StopStep
<1>5. ASSUME wire' = wire, circ.phase \in {"open", "marked"}, NEW d \in Dirs,
             NEW h \in Half, SameCells(circ.half[d], h),
             h.chan # "none" => circ.half[d].chan # "none",
             circ' = [circ EXCEPT !.half[d] = h]
      PROVE  (\A e \in Dirs : DirStep(e)) /\ StopStep
  <2>1. /\ circ'.phase = circ.phase /\ circ'.stopped = circ.stopped
        /\ circ'.half[d] = h
        /\ \A e \in Dirs : e # d => circ'.half[e] = circ.half[e] /\ CellStep(circ, circ', e)
    BY <1>1, <1>5, SetStep
  <2>2. CellStep(circ, circ', d)
    BY <1>5, <2>1 DEF CellStep
  <2>3. circ'.half["IN"].streams_blocked = circ.half["IN"].streams_blocked
    BY <1>1, <1>5, <2>1 DEF SameCells
  <2>. QED BY <1>5, <2>1, <2>2, <2>3 DEF DirStep, StopStep
<1>6. ASSUME wire' = wire, circ'.half = circ.half, circ'.phase = circ.phase,
             circ'.stopped \subseteq circ.stopped
      PROVE  (\A e \in Dirs : DirStep(e)) /\ StopStep
  <2>1. \A e \in Dirs : SameCells(circ.half[e], circ'.half[e])
    BY <1>6 DEF SameCells
  <2>2. \A e \in Dirs : CellStep(circ, circ', e)
    BY <1>6, <2>1 DEF CellStep
  <2>. QED BY <1>6, <2>2 DEF DirStep, StopStep
<1>7. ASSUME wire' = wire, circ.phase = "open", NEW d \in Dirs,
             circ.half[d].chan # "none", NEW s, NEW delay \in Delays,
             NEW oom \in BOOLEAN,
             circ' = append_cell_to_circuit_queue(circ, d, "RELAY", s, delay, oom)
      PROVE  (\A e \in Dirs : DirStep(e)) /\ StopStep
  <2>1. Appended(circ, circ', d) /\ \A e \in Dirs : CellStep(circ, circ', e)
    BY <1>1, <1>7, AppendStep
  <2>. QED BY <1>7, <2>1, AppendStops DEF DirStep
<1>8. ASSUME wire' = wire, circ.phase = "open", circ.half["OUT"].chan = "none",
             NEW delay \in Delays, NEW oom \in BOOLEAN,
             circ' = circuit_deliver_create_cell(circ, delay, oom)
      PROVE  (\A e \in Dirs : DirStep(e)) /\ StopStep
  <2>1. /\ \A e \in Dirs : CellStep(circ, circ', e)
        /\ circ'.phase = "open" =>
             /\ circ'.half["IN"] = circ.half["IN"]
             /\ circ'.stopped # circ.stopped => circ'.half["IN"].streams_blocked
    BY <1>1, <1>8, CreateStep
  <2>. QED BY <1>8, <2>1 DEF DirStep, StopStep
<1>9. CASE ReceiveOut
  <2>. PICK delay \in Delays, oom \in BOOLEAN :
         circ' = IF circ.half["OUT"].chan = "none"
                 THEN circuit_mark_for_close(circ)
                 ELSE append_cell_to_circuit_queue(circ, "OUT", "RELAY",
                                                   NoStream, delay, oom)
    BY <1>9 DEF ReceiveOut
  <2>1. circ.phase = "open" /\ wire' = wire
    BY <1>9 DEF ReceiveOut
  <2>2. CASE circ.half["OUT"].chan = "none"
    BY <1>3, <2>1, <2>2
  <2>3. CASE circ.half["OUT"].chan # "none"
    BY <1>1, <1>7, <2>1, <2>3
  <2>. QED BY <2>2, <2>3
<1>10. ASSUME NEW s, NEW delay \in Delays, NEW oom \in BOOLEAN, wire' = wire,
              circ.phase = "open",
              circ' = append_cell_to_circuit_queue(circ, "IN", "RELAY", s,
                                                   delay, oom)
       PROVE  (\A e \in Dirs : DirStep(e)) /\ StopStep
  <2>1. circ.half["IN"].chan # "none"
    BY <1>10 DEF CircInv
  <2>. QED BY <1>1, <1>7, <1>10, <2>1
<1>11. CASE ReceiveIn
  BY <1>10, <1>11 DEF ReceiveIn
<1>12. ASSUME NEW s \in Streams, PackageFromStream(s)
       PROVE  (\A e \in Dirs : DirStep(e)) /\ StopStep
  BY <1>10, <1>12 DEF PackageFromStream
<1>13. ASSUME NEW s \in Streams, OpenStream(s) \/ CloseStream(s)
       PROVE  (\A e \in Dirs : DirStep(e)) /\ StopStep
  <2>. DEFINE new == circ.streams \cup {s}
              old == circ.streams \ {s}
              running == circ.stopped \ {s}
  <2>1. \/ circ' = [circ EXCEPT !.streams = new]
        \/ circ' = [circ EXCEPT !.streams = old, !.stopped = running]
    BY <1>13 DEF OpenStream, CloseStream
  <2>2. running \subseteq circ.stopped
    OBVIOUS
  <2>. HIDE DEF new, old, running
  <2>3. /\ circ'.half = circ.half /\ circ'.phase = circ.phase
        /\ circ'.stopped \subseteq circ.stopped
    BY <1>1, <2>1, <2>2 DEF CircType
  <2>4. wire' = wire
    BY <1>13 DEF OpenStream, CloseStream
  <2>. QED BY <1>6, <2>3, <2>4
<1>14. CASE Extend
  <2>1. circ.phase = "open" /\ wire' = wire
    BY <1>14 DEF Extend
  <2>2. CASE circ' = [circ EXCEPT !.n_hop = TRUE]
    <3>1. /\ circ'.half = circ.half /\ circ'.phase = circ.phase
          /\ circ'.stopped \subseteq circ.stopped
      BY <1>1, <2>2 DEF CircType
    <3>. QED BY <1>6, <2>1, <3>1
  <2>3. CASE circ' = circuit_mark_for_close(circ)
    BY <1>3, <2>1, <2>3
  <2>4. ASSUME circ.half["OUT"].chan = "none",
               NEW delay \in Delays, NEW oom \in BOOLEAN,
               circ' = circuit_deliver_create_cell(circ, delay, oom)
        PROVE  (\A e \in Dirs : DirStep(e)) /\ StopStep
    BY <1>8, <2>1, <2>4
  <2>. QED BY <1>14, <2>2, <2>3, <2>4 DEF Extend
<1>15. CASE NChanDone
  <2>1. circ.phase = "open" /\ wire' = wire /\ circ.half["OUT"].chan = "none"
    BY <1>15 DEF NChanDone, CircInv
  <2>2. CASE circ' = circuit_mark_for_close(circ)
    BY <1>3, <2>1, <2>2
  <2>3. ASSUME NEW delay \in Delays, NEW oom \in BOOLEAN,
               circ' = circuit_deliver_create_cell(circ, delay, oom)
        PROVE  (\A e \in Dirs : DirStep(e)) /\ StopStep
    BY <1>8, <2>1, <2>3
  <2>. QED BY <1>15, <2>2, <2>3 DEF NChanDone
<1>16. CASE Truncate
  <2>. DEFINE m == cut_next_hop([circ EXCEPT !.n_hop = FALSE])
  <2>. PICK delay \in Delays, oom \in BOOLEAN :
         circ' = append_cell_to_circuit_queue(m, "IN", "RELAY", NoStream, delay, oom)
    BY <1>16 DEF Truncate
  <2>1. circ.phase = "open" /\ wire' = wire
    BY <1>16 DEF Truncate
  <2>2. /\ \A e \in Dirs : CellStep(circ, circ', e)
        /\ m.half["IN"] = circ.half["IN"]
        /\ m.stopped = circ.stopped
        /\ Appended(m, circ', "IN")
    BY <1>1, <2>1, TruncateStep
  <2>. HIDE DEF m
  <2>3. StopStep
    BY <2>2 DEF Appended, StopStep
  <2>. QED BY <2>1, <2>2, <2>3 DEF DirStep
<1>17. CASE MarkForClose
  BY <1>3, <1>17 DEF MarkForClose
<1>18. CASE HandleOom
  <2>. DEFINE m == circuit_mark_for_close(circ)
              g == [d \in Dirs |-> free_cells(m.half[d])]
  <2>1. /\ circ.phase \in {"open", "marked"} /\ wire' = wire
        /\ circ' = [m EXCEPT !.half = g]
    BY <1>1, <1>18 DEF HandleOom, marked_circuit_free_cells
  <2>2. m \in CircType /\ m.phase = "marked" /\ m.half = circ.half
    BY <1>1, <2>1 DEF circuit_mark_for_close, CircType
  <2>3. \A d \in Dirs : DropsCells(circ.half[d], g[d]) /\ g[d].chan = circ.half[d].chan
    <3>1. \A d \in Dirs : g[d] = free_cells(circ.half[d])
      BY <2>2
    <3>2. \A d \in Dirs : free_cells(circ.half[d]).chan = circ.half[d].chan
      BY <1>2, Reclaiming, FreeCells
    <3>3. \A d \in Dirs : DropsCells(circ.half[d], free_cells(circ.half[d]))
      BY <1>1, DroppingSteps
    <3>. QED BY <3>1, <3>2, <3>3
  <2>. HIDE DEF m, g
  <2>4. circ'.phase = "marked" /\ circ'.half = g
    BY <2>1, <2>2 DEF CircType
  <2>5. \A e \in Dirs : CellStep(circ, circ', e)
    BY <2>1, <2>3, <2>4 DEF CellStep
  <2>. QED BY <2>1, <2>4, <2>5 DEF DirStep, StopStep
<1>19. CASE CloseAllMarked
  <2>. DEFINE g == [d \in Dirs |-> free_cells(clear_circid_chan(circ.half[d]))]
  <2>1. /\ circ.phase = "marked" /\ wire' = wire
        /\ circ' = [circ EXCEPT !.phase = "freed", !.half = g,
                                !.n_hop = FALSE, !.streams = {}, !.stopped = {}]
    BY <1>19 DEF CloseAllMarked
  <2>2. \A d \in Dirs : DropsCells(circ.half[d], g[d]) /\ g[d].chan = "none"
    <3>1. \A d \in Dirs : HalfInv(circ.half[d], "marked")
      BY <1>2, <2>1
    <3>2. \A d \in Dirs : g[d].chan = "none"
      BY <3>1, FreeHalf DEF HalfInv, FreedInv
    <3>3. \A d \in Dirs : DropsCells(circ.half[d], free_cells(clear_circid_chan(circ.half[d])))
      BY <1>1, DroppingSteps
    <3>. QED BY <3>2, <3>3
  <2>. HIDE DEF g
  <2>3. circ'.phase = "freed" /\ circ'.half = g
    BY <1>1, <2>1 DEF CircType
  <2>4. \A e \in Dirs : CellStep(circ, circ', e)
    BY <2>1, <2>2, <2>3 DEF CellStep
  <2>. QED BY <2>1, <2>3, <2>4 DEF DirStep, StopStep
<1>20. ASSUME NEW d \in Dirs, ReceiveDestroy(d) \/ ChannelClosed(d)
       PROVE  (\A e \in Dirs : DirStep(e)) /\ StopStep
  <2>. DEFINE h == clear_circid_chan(circ.half[d])
  <2>1. /\ circ.phase \in {"open", "marked"} /\ wire' = wire
        /\ circ' = circuit_mark_for_close([circ EXCEPT !.half[d] = h])
    BY <1>1, <1>20 DEF ReceiveDestroy, ChannelClosed
  <2>2. HalfInv(h, "marked") /\ h.chan = "none"
    BY <1>2, <2>1, ClearChan
  <2>3. h \in Half /\ SameCells(circ.half[d], h)
    BY <1>1, <2>2, QuietSteps DEF HalfInv
  <2>. HIDE DEF h
  <2>. QED BY <1>4, <2>1, <2>2, <2>3
<1>21. ASSUME NEW d \in Dirs, ChannelClosing(d)
       PROVE  (\A e \in Dirs : DirStep(e)) /\ StopStep
  <2>. DEFINE h == channel_closing(circ.half[d])
  <2>1. /\ circ.phase \in {"open", "marked"} /\ wire' = wire
        /\ circ.half[d].chan = "open"
        /\ circ' = [circ EXCEPT !.half[d] = h]
    BY <1>1, <1>21 DEF ChannelClosing
  <2>2. HalfInv(h, circ.phase)
    BY <1>2, <2>1, ChannelSteps
  <2>3. h \in Half /\ SameCells(circ.half[d], h)
    BY <1>1, <2>2, QuietSteps DEF HalfInv
  <2>. HIDE DEF h
  <2>. QED BY <1>5, <2>1, <2>3
<1>22. ASSUME NEW d \in Dirs, Flush(d)
       PROVE  (\A e \in Dirs : DirStep(e)) /\ StopStep
  <2>. DEFINE h == circ.half[d]
              f == flush_cell(h)
              stop == IF d = "IN" /\ h.streams_blocked /\ ~f.streams_blocked
                      THEN {} ELSE circ.stopped
              r == [circ EXCEPT !.half[d] = f]
              x == Head(h.queue)
  <2>1. /\ h.chan = "open" /\ h.sched_pending /\ h.queue # <<>>
        /\ circ' = [circ EXCEPT !.half[d] = f, !.stopped = stop]
        /\ wire' = [wire EXCEPT ![d].seq = x.seq, ![d].circ_id = x.circ_id]
    BY <1>22 DEF Flush
  <2>2. circ.phase \in {"open", "marked"}
    <3>1. circ.phase # "freed"
      BY <1>2, <2>1 DEF HalfInv, FreedInv
    <3>. QED BY <1>1, <3>1
  <2>3. /\ f \in Half /\ f.chan = "open" /\ TakesCell(h, f)
    BY <1>1, <1>2, <2>1, <2>2, FlushCell, FlushTakes DEF HalfInv
  <2>4. stop \subseteq circ.stopped
    OBVIOUS
  <2>5. d = "IN" /\ h.streams_blocked /\ ~f.streams_blocked => stop = {}
    OBVIOUS
  <2>. HIDE DEF f, stop, x
  <2>6. /\ r \in CircType /\ r.phase = circ.phase
        /\ r.half[d] = f
        /\ \A e \in Dirs : e # d => r.half[e] = circ.half[e] /\ CellStep(circ, r, e)
    <3>1. /\ r \in CircType /\ r.phase = circ.phase /\ r.n_hop = circ.n_hop
          /\ r.streams = circ.streams /\ r.stopped = circ.stopped
          /\ r.half[d] = f
          /\ \A e \in Dirs : e # d => r.half[e] = circ.half[e]
      BY <1>1, <2>3, SetHalf
    <3>. HIDE DEF r
    <3>. QED BY <2>2, <3>1, StillStep
  <2>7. circ' = [r EXCEPT !.stopped = stop]
    BY <2>1
  <2>. HIDE DEF r
  <2>8. circ'.half = r.half /\ circ'.phase = r.phase /\ circ'.stopped = stop
    BY <2>6, <2>7 DEF CircType
  <2>9. /\ wire'[d].seq = x.seq
        /\ \A e \in Dirs : e # d => wire'[e] = wire[e]
    <3>1. wire \in [Dirs -> [seq : Nat, circ_id : Nat, destroyed : SUBSET Nat]]
      BY DEF EnvType
    <3>. QED BY <2>1, <3>1
  <2>10. WriteStep(d)
    BY <2>1, <2>3, <2>6, <2>8, <2>9 DEF WriteStep, x
  <2>11. \A e \in Dirs : e # d => CellStep(circ, circ', e)
    BY <2>6, <2>8 DEF CellStep
  <2>12. StopStep
    <3>1. CASE d = "IN"
      BY <2>4, <2>5, <2>6, <2>8, <3>1 DEF StopStep
    <3>2. CASE d # "IN"
      BY <1>1, <2>4, <2>6, <2>8, <3>2 DEF StopStep
    <3>. QED BY <3>1, <3>2
  <2>. QED BY <2>9, <2>10, <2>11, <2>12 DEF DirStep
<1>23. ASSUME NEW d \in Dirs, FlushEmpty(d)
       PROVE  (\A e \in Dirs : DirStep(e)) /\ StopStep
  <2>. DEFINE h == flush_empty(circ.half[d])
  <2>1. /\ circ.half[d].chan = "open" /\ circ.half[d].queue = <<>>
        /\ wire' = wire
        /\ circ' = circuit_mark_for_close([circ EXCEPT !.half[d] = h])
    BY <1>23 DEF FlushEmpty
  <2>2. circ.phase \in {"open", "marked"} /\ circ.phase # "freed"
    BY <1>1, <1>2, <2>1 DEF HalfInv, FreedInv
  <2>3. h \in Half /\ SameCells(circ.half[d], h)
    <3>1. HalfInv(h, "marked")
      BY <1>2, <2>1, <2>2, ChannelSteps
    <3>. QED BY <1>1, <3>1, QuietSteps DEF HalfInv
  <2>. HIDE DEF h
  <2>. QED BY <1>4, <2>1, <2>2, <2>3
<1>24. ASSUME NEW d \in Dirs, FlushFails(d)
       PROVE  (\A e \in Dirs : DirStep(e)) /\ StopStep
  <2>. DEFINE h == flush_fails(circ.half[d])
  <2>1. /\ circ.half[d].chan = "open" /\ wire' = wire
        /\ circ' = circuit_mark_for_close([circ EXCEPT !.half[d] = h])
    BY <1>24 DEF FlushFails
  <2>2. circ.phase \in {"open", "marked"} /\ circ.phase # "freed"
    BY <1>1, <1>2, <2>1 DEF HalfInv, FreedInv
  <2>3. h \in Half /\ DropsCells(circ.half[d], h)
    <3>1. HalfInv(h, "marked")
      BY <1>2, <2>1, <2>2, ChannelSteps
    <3>. QED BY <1>1, <3>1, DroppingSteps DEF HalfInv
  <2>. HIDE DEF h
  <2>. QED BY <1>4, <2>1, <2>2, <2>3
<1>25. ASSUME NEW d \in Dirs, SchedulerIdle(d)
       PROVE  (\A e \in Dirs : DirStep(e)) /\ StopStep
  <2>. DEFINE h == scheduler_idle(circ.half[d])
  <2>1. /\ circ.half[d].num_cells = 0 /\ wire' = wire
        /\ circ' = [circ EXCEPT !.half[d] = h]
    BY <1>25 DEF SchedulerIdle
  <2>2. h \in Half /\ SameCells(circ.half[d], h) /\ h.chan = circ.half[d].chan
    <3>1. h \in Half /\ h.chan = circ.half[d].chan
      BY <1>1 DEF scheduler_idle, Half
    <3>. QED BY <1>1, <3>1, QuietSteps
  <2>. HIDE DEF h
  <2>3. CASE circ.phase # "freed"
    BY <1>1, <1>5, <2>1, <2>2, <2>3
  <2>4. CASE circ.phase = "freed"
    <3>1. /\ circ'.phase = circ.phase
          /\ circ'.half[d] = h
          /\ \A e \in Dirs : e # d => circ'.half[e] = circ.half[e]
      BY <1>1, <2>1, <2>2, SetHalf
    <3>2. \A e \in Dirs : CellStep(circ, circ', e)
      BY <2>2, <2>4, <3>1 DEF CellStep, SameCells
    <3>. QED BY <2>1, <2>4, <3>1, <3>2 DEF DirStep, StopStep
  <2>. QED BY <2>3, <2>4
<1>26. ASSUME NEW d \in Dirs, TimerFires(d)
       PROVE  (\A e \in Dirs : DirStep(e)) /\ StopStep
  <2>. DEFINE h == circ.half[d]
  <2>. PICK n \in 0..Len(h.delay_queue) :
         /\ StopsAfter(h.delay_queue, wall, n)
         /\ circ' = cell_ready_callback(circ, d, n)
    BY <1>26 DEF TimerFires
  <2>1. h.delay_timer = "armed" /\ Due(h, n) /\ wire' = wire
    BY <1>26 DEF TimerFires, Due
  <2>2. circ.phase \in {"open", "marked"}
    <3>1. circ.phase # "freed"
      BY <1>2, <2>1 DEF HalfInv, FreedInv
    <3>. QED BY <1>1, <3>1
  <2>3. CASE circ.phase # "open"
    <3>. DEFINE r == leave_fired_timer(h)
    <3>1. circ' = [circ EXCEPT !.half[d] = r]
      BY <2>3 DEF cell_ready_callback
    <3>2. r \in Half /\ SameCells(h, r) /\ r.chan = h.chan
      <4>1. r \in Half /\ r.chan = h.chan
        BY <1>1 DEF leave_fired_timer, Half
      <4>. QED BY <1>1, <4>1, QuietSteps
    <3>. HIDE DEF r
    <3>. QED BY <1>5, <2>1, <2>2, <3>1, <3>2
  <2>4. CASE circ.phase = "open" /\ h.chan = "none"
    <3>. DEFINE r == free_delay_timer(h)
    <3>1. circ' = [circ EXCEPT !.half[d] = r]
      BY <2>4 DEF cell_ready_callback
    <3>2. r \in Half /\ SameCells(h, r) /\ r.chan = h.chan
      BY <1>1, SmallSteps, QuietSteps
    <3>. HIDE DEF r
    <3>. QED BY <1>5, <2>1, <2>2, <3>1, <3>2
  <2>5. CASE circ.phase = "open" /\ h.chan # "none"
    <3>. DEFINE r == release_cells(h, n, mono, wall)
    <3>1. circ' = [circ EXCEPT !.half[d] = r]
      BY <2>5 DEF cell_ready_callback
    <3>2. HalfInv(h, "open")
      BY <1>2, <2>5
    <3>3. r \in Half /\ MovesCells(h, r, n) /\ r.chan = h.chan
      BY <1>1, <2>5, <3>2, ReleaseCells, ReleaseMoves DEF HalfInv
    <3>. HIDE DEF r
    <3>4. /\ circ'.phase = circ.phase /\ circ'.stopped = circ.stopped
          /\ circ'.half[d] = r
          /\ \A e \in Dirs : e # d => circ'.half[e] = circ.half[e] /\ CellStep(circ, circ', e)
      BY <1>1, <2>2, <3>1, <3>3, SetStep
    <3>5. CellStep(circ, circ', d)
      BY <2>1, <2>5, <3>3, <3>4 DEF CellStep
    <3>6. circ'.half["IN"].streams_blocked = circ.half["IN"].streams_blocked
      BY <1>1, <3>3, <3>4 DEF MovesCells
    <3>. QED BY <2>1, <3>4, <3>5, <3>6 DEF DirStep, StopStep
  <2>. QED BY <2>3, <2>4, <2>5
<1>27. ASSUME NEW d \in Dirs, FlushDestroy(d)
       PROVE  (\A e \in Dirs : DirStep(e)) /\ StopStep
  <2>. DEFINE x == Head(destroyq[d])
  <2>1. /\ circ' = circ
        /\ wire' = [wire EXCEPT ![d].destroyed = @ \cup {x}]
    BY <1>27 DEF FlushDestroy
  <2>. HIDE DEF x
  <2>2. \A e \in Dirs : wire'[e].seq = wire[e].seq
    <3>1. wire \in [Dirs -> [seq : Nat, circ_id : Nat, destroyed : SUBSET Nat]]
      BY DEF EnvType
    <3>. QED BY <2>1, <3>1
  <2>3. \A e \in Dirs : CellStep(circ, circ', e)
    BY <2>1 DEF CellStep, SameCells
  <2>. QED BY <2>1, <2>2, <2>3 DEF DirStep, StopStep
<1>28. CASE TimePasses \/ SetWallClock
  <2>1. circ' = circ /\ wire' = wire
    BY <1>28 DEF TimePasses, SetWallClock
  <2>. QED BY <1>6, <2>1
<1>. QED
  BY <1>9, <1>11, <1>12, <1>13, <1>14, <1>15, <1>16, <1>17, <1>18, <1>19,
     <1>20, <1>21, <1>22, <1>23, <1>24, <1>25, <1>26, <1>27, <1>28 DEF Next

\* Every direction is in order after the step if it was before.
LEMMA DirStepOrdered ==
  ASSUME NEW e \in Dirs, circ.half[e] \in Half, Ordered(circ.half[e]), DirStep(e)
  PROVE  Ordered(circ'.half[e])
<1>. DEFINE h == circ.half[e]  g == circ'.half[e]
<1>1. \/ g.delay_queue = h.delay_queue /\ g.last_ready = h.last_ready
      \/ g.delay_queue = <<>>
      \/ AddsCell(h, g)
      \/ \E n \in 0..Len(h.delay_queue) : MovesCells(h, g, n)
  <2>1. CASE WriteStep(e)
    BY <2>1 DEF WriteStep, TakesCell
  <2>2. CASE CellStep(circ, circ', e)
    <3>1. \/ SameCells(h, g) \/ DropsCells(h, g) \/ Reclaimed(h, g)
          \/ AddsCell(h, g) \/ \E n \in 0..Len(h.delay_queue) : MovesCells(h, g, n)
      BY <2>2 DEF CellStep
    <3>. HIDE DEF h, g
    <3>. QED BY <3>1 DEF SameCells, DropsCells, Reclaimed
  <2>. QED BY <2>1, <2>2 DEF DirStep
<1>2. h \in Half /\ Ordered(h)
  OBVIOUS
<1>. HIDE DEF h, g
<1>3. Ordered(g)
  <2>1. CASE g.delay_queue = h.delay_queue /\ g.last_ready = h.last_ready
    BY <1>2, <2>1 DEF Ordered
  <2>. QED BY <1>1, <1>2, <2>1, EmptyOrdered, AddOrdered, MoveOrdered
<1>. QED BY <1>3 DEF g

\* What the circuit of a CREATE starts with: no cells anywhere.
LEMMA InitCells ==
  ASSUME Init, NEW d \in Dirs
  PROVE  /\ circ.half[d].queue = <<>> /\ circ.half[d].delay_queue = <<>>
         /\ circ.half[d].count = 0
         /\ circ.half[d].streams_blocked = FALSE
         /\ circ.half[d] \in Half
         /\ circ.phase = "open" /\ circ.stopped = {}
         /\ wire[d].seq = 0
<1>. DEFINE z == <<>>
            new == [chan |-> "none", circ_id |-> 0, queue |-> z,
                    delay_queue |-> z, delay_timer |-> "none", expires |-> 0,
                    last_ready |-> 0, streams_blocked |-> FALSE,
                    attached |-> FALSE, num_cells |-> 0,
                    sched_pending |-> FALSE, count |-> 0]
            in == set_circid_chan(new, 1)
            f == [e \in Dirs |-> IF e = "IN" THEN in ELSE new]
<1>1. z \in Seq(Cell) /\ z = <<>>
  OBVIOUS
<1>2. NewHalf = new
  BY DEF NewHalf
<1>. HIDE DEF z
<1>3. /\ new \in Half
      /\ new.queue = z /\ new.delay_queue = z /\ new.count = 0
      /\ new.streams_blocked = FALSE
  BY <1>1 DEF Half
<1>. HIDE DEF new
<1>4. SameCells(new, in)
  BY <1>3, QuietSteps
<1>. HIDE DEF in
<1>5. circ = [phase |-> "open", half |-> f, n_hop |-> FALSE, hops |-> 0,
              streams |-> {}, stopped |-> {}]
  BY <1>2 DEF Init, in
<1>6. f[d] = in \/ f[d] = new
  OBVIOUS
<1>. HIDE DEF f
<1>7. circ.half[d] = f[d] /\ circ.phase = "open" /\ circ.stopped = {}
  BY <1>5
<1>8. circ.half[d] \in Half
  BY InitInv DEF IInv, CircInv, HalfInv
<1>9. wire[d].seq = 0
  BY DEF Init
<1>. QED BY <1>1, <1>3, <1>4, <1>6, <1>7, <1>8, <1>9 DEF SameCells

\* Delayed cells become ready in the order in which they were delayed, whatever
\* the wall clock is set to (get_ready_timeval starts from the last time).
THEOREM DelayedCellsAreInOrder == Spec => []ReadyInOrder
<1>. DEFINE I == \A d \in Dirs : Ordered(circ.half[d])
<1>1. Init => I
  BY InitCells, EmptyOrdered
<1>2. IInv /\ I /\ [Next]_vars => I'
  <2>. SUFFICES ASSUME IInv, I, [Next]_vars
                PROVE  I'
    OBVIOUS
  <2>1. \A d \in Dirs : circ.half[d] \in Half
    BY DEF IInv, CircInv, HalfInv
  <2>2. CASE Next
    <3>1. \A d \in Dirs : DirStep(d)
      BY <2>2, IInvParts, EveryDirStep
    <3>. QED BY <2>1, <3>1, DirStepOrdered
  <2>3. CASE UNCHANGED vars
    BY <2>3 DEF vars
  <2>. QED BY <2>2, <2>3
<1>3. I => ReadyInOrder
  BY DEF ReadyInOrder, Ordered
<1>. HIDE DEF I
<1>. QED BY <1>1, <1>2, <1>3, InductiveInvariant, PTL DEF Spec

\* On an open circuit a stopped stream is stopped because the direction to the
\* origin is blocked, and that only while it has cells.
Waker ==
  circ.phase = "open" =>
    /\ circ.stopped # {} => circ.half["IN"].streams_blocked
    /\ circ.half["IN"].streams_blocked => InFlight(circ.half["IN"]) # <<>>

\* Nothing is in flight when both queues are empty.
LEMMA InFlightEmpty ==
  ASSUME NEW h, h.queue \in Seq(Cell), h.delay_queue \in Seq(Cell)
  PROVE  InFlight(h) = <<>> <=> h.queue = <<>> /\ h.delay_queue = <<>>
<1>. DEFINE s == h.queue  t == h.delay_queue
<1>1. s \in Seq(Cell) /\ t \in Seq(Cell)
  OBVIOUS
<1>. HIDE DEF s, t
<1>2. s \o t = <<>> <=> s = <<>> /\ t = <<>>
  BY <1>1, ConcatEqualIffEmpty
<1>. QED BY <1>2 DEF InFlight, s, t

\* The block on the direction to the origin is lifted when its last cell goes.
LEMMA DirStepBlocks ==
  ASSUME CircInv(circ), circ'.half["IN"] \in Half, DirStep("IN"),
         circ.phase = "open", circ'.phase = "open",
         circ.half["IN"].streams_blocked => InFlight(circ.half["IN"]) # <<>>,
         circ'.half["IN"].streams_blocked
  PROVE  InFlight(circ'.half["IN"]) # <<>>
<1>. DEFINE h == circ.half["IN"]  g == circ'.half["IN"]
<1>1. /\ h \in Half /\ g \in Half
      /\ h.streams_blocked => InFlight(h) # <<>>
      /\ g.streams_blocked
  BY DEF CircInv, CircType, Dirs
<1>2. \/ SameCells(h, g)
      \/ AddsCell(h, g)
      \/ \E n \in 0..Len(h.delay_queue) : MovesCells(h, g, n)
      \/ TakesCell(h, g)
  BY DEF DirStep, CellStep, WriteStep
<1>. HIDE DEF h, g
<1>3. /\ h.queue \in Seq(Cell) /\ h.delay_queue \in Seq(Cell)
      /\ g.queue \in Seq(Cell) /\ g.delay_queue \in Seq(Cell)
  BY <1>1, InFlightType
<1>4. ASSUME SameCells(h, g)
      PROVE  InFlight(g) # <<>>
  BY <1>1, <1>4 DEF SameCells, InFlight
<1>5. ASSUME AddsCell(h, g)
      PROVE  InFlight(g) # <<>>
  <2>1. ASSUME NEW c \in Cell,
               g.queue = Append(h.queue, c) \/ g.delay_queue = Append(h.delay_queue, c)
        PROVE  g.queue # <<>> \/ g.delay_queue # <<>>
    BY <1>3, <2>1, AppendProperties
  <2>2. g.queue # <<>> \/ g.delay_queue # <<>>
    BY <1>5, <2>1 DEF AddsCell
  <2>. QED BY <1>3, <2>2, InFlightEmpty
<1>6. ASSUME NEW n \in 0..Len(h.delay_queue), MovesCells(h, g, n)
      PROVE  InFlight(g) # <<>>
  <2>1. Contents(g, TRUE) = Contents(h, TRUE) /\ h.streams_blocked
    BY <1>1, <1>6, MoveContents DEF MovesCells
  <2>2. InFlight(h) \in Seq(Cell) /\ InFlight(g) \in Seq(Cell)
    BY <1>1, InFlightType
  <2>3. Len(InFlight(g)) = Len(InFlight(h))
    BY <2>1, <2>2, NumbersType DEF Contents
  <2>. QED BY <1>1, <2>1, <2>2, <2>3, EmptySeq
<1>7. ASSUME TakesCell(h, g)
      PROVE  InFlight(g) # <<>>
  BY <1>1, <1>3, <1>7, InFlightEmpty DEF TakesCell
<1>8. InFlight(g) # <<>>
  BY <1>2, <1>4, <1>5, <1>6, <1>7
<1>. QED BY <1>8 DEF g

\* No stream waits for cells that are not there: the flush of a cell restarts
\* the streams at the latest when it was the last one.
THEOREM WakersExist == Spec => []StoppedStreamsHaveAWaker
<1>1. Init => Waker
  <2>. SUFFICES ASSUME Init PROVE Waker
    OBVIOUS
  <2>1. "IN" \in Dirs
    BY DEF Dirs
  <2>. QED BY <2>1, InitCells DEF Waker
<1>2. IInv /\ Waker /\ IInv' /\ [Next]_vars => Waker'
  <2>. SUFFICES ASSUME IInv, Waker, IInv', [Next]_vars
                PROVE  Waker'
    OBVIOUS
  <2>1. CircInv(circ) /\ circ'.half["IN"] \in Half
    BY DEF IInv, CircInv, HalfInv, Dirs
  <2>2. CASE Next
    <3>1. DirStep("IN") /\ StopStep
      BY <2>2, IInvParts, EveryDirStep DEF Dirs
    <3>. SUFFICES ASSUME circ'.phase = "open"
                  PROVE  /\ circ'.stopped # {} => circ'.half["IN"].streams_blocked
                         /\ circ'.half["IN"].streams_blocked
                              => InFlight(circ'.half["IN"]) # <<>>
      BY DEF Waker
    <3>2. circ.phase = "open"
      BY <3>1 DEF DirStep, CellStep, WriteStep
    <3>3. /\ circ.stopped # {} => circ.half["IN"].streams_blocked
          /\ circ.half["IN"].streams_blocked => InFlight(circ.half["IN"]) # <<>>
      BY <3>2 DEF Waker
    <3>4. circ'.stopped # {} => circ'.half["IN"].streams_blocked
      BY <3>1, <3>3 DEF StopStep
    <3>. QED BY <2>1, <3>1, <3>2, <3>3, <3>4, DirStepBlocks
  <2>3. CASE UNCHANGED vars
    BY <2>3 DEF vars, Waker
  <2>. QED BY <2>2, <2>3
<1>3. Waker => StoppedStreamsHaveAWaker
  BY DEF Waker, StoppedStreamsHaveAWaker, Queued
<1>. QED BY <1>1, <1>2, <1>3, InductiveInvariant, PTL DEF Spec

-----------------------------------------------------------------------------
\* A direction as CellPipe sees it, before and after a step.
PipeStep(p, a, w, o, l, p2, a2, w2, o2, l2) ==
  \/ o /\ o2 /\ l2 /\ a2 = a + 1 /\ p2 = Append(p, a + 1) /\ w2 = w
  \/ /\ l /\ l2 /\ (o <=> o2) /\ p # <<>>
     /\ w2 = Head(p) /\ p2 = Tail(p) /\ a2 = a
  \/ /\ l /\ ~l2 /\ (o <=> o2) /\ a2 = a /\ w2 = w
     /\ \E k \in 0..Len(p) : p2 = SubSeq(p, k + 1, Len(p))
  \/ p2 = <<>> /\ (l2 => l) /\ (o <=> o2) /\ a2 = a /\ w2 = w
  \/ /\ o /\ ~o2 /\ w2 = w /\ a2 = a
     /\ \E k \in 0..Len(p) : p2 = SubSeq(p, 1, k)
  \/ o /\ ~o2 /\ w2 = w /\ a2 = a + 1 /\ p2 = <<>>
  \/ p2 = p /\ a2 = a /\ w2 = w /\ (o <=> o2) /\ (l <=> l2)

\* Every step of the circuit is one of the pipe's: a case for each disjunct of
\* CellStep.
LEMMA DirStepIsPipeStep ==
  ASSUME NEW d \in Dirs, circ.half[d] \in Half, DirStep(d)
  PROVE  PipeStep(Pipe(d), circ.half[d].count, wire[d].seq,
                  circ.phase = "open", circ.half[d].chan # "none",
                  Pipe(d)', circ'.half[d].count, wire'[d].seq,
                  circ'.phase = "open", circ'.half[d].chan # "none")
<1>. DEFINE h == circ.half[d]  g == circ'.half[d]
            o == circ.phase = "open"  o2 == circ'.phase = "open"
            l == h.chan # "none"  l2 == g.chan # "none"
            p == Contents(h, o)  p2 == Contents(g, o2)
            w == wire[d].seq  w2 == wire'[d].seq
<1>1. Pipe(d) = p /\ Pipe(d)' = p2
  BY DEF Pipe, Contents, Numbers
<1>2. h \in Half /\ o \in BOOLEAN /\ o2 \in BOOLEAN
  OBVIOUS
<1>3. \/ (o <=> o2) /\ SameCells(h, g) /\ (l2 => l) /\ w2 = w
      \/ o /\ o2 /\ AddsCell(h, g) /\ l2 /\ w2 = w
      \/ /\ o /\ o2 /\ (l2 <=> l) /\ w2 = w
         /\ \E n \in 0..Len(h.delay_queue) : MovesCells(h, g, n)
      \/ /\ o /\ o2 /\ DropsCells(h, g) /\ g.delay_queue = h.delay_queue
         /\ l /\ ~l2 /\ w2 = w
      \/ /\ o /\ ~o2 /\ w2 = w
         /\ SameCells(h, g) \/ DropsCells(h, g) \/ Reclaimed(h, g)
      \/ ~o /\ ~o2 /\ DropsCells(h, g) /\ (l2 => l) /\ w2 = w
      \/ l /\ l2 /\ (o <=> o2) /\ TakesCell(h, g) /\ w2 = Head(h.queue).seq
  BY DEF DirStep, CellStep, WriteStep
<1>4. p = Contents(h, o) /\ p2 = Contents(g, o2)
  OBVIOUS
<1>5. /\ o => p = Contents(h, TRUE)
      /\ o2 => p2 = Contents(g, TRUE)
      /\ ~o2 => p2 = Contents(g, FALSE) /\ p2 = Numbers(g.queue)
  BY DEF Contents
<1>. HIDE DEF h, g, o, o2, l, l2, p, p2, w, w2
<1>6. ASSUME o <=> o2, SameCells(h, g), l2 => l, w2 = w
      PROVE  PipeStep(p, h.count, w, o, l, p2, g.count, w2, o2, l2)
  <2>1. p2 = p /\ g.count = h.count
    BY <1>4, <1>6 DEF Contents, InFlight, SameCells
  <2>2. CASE l <=> l2
    BY <1>6, <2>1, <2>2 DEF PipeStep
  <2>3. CASE l /\ ~l2
    <3>1. SubSeq(p, 0 + 1, Len(p)) = p /\ 0 \in 0..Len(p)
      <4>1. p \in Seq(Nat)
        BY <1>2, <1>4, InFlightType, NumbersType DEF Contents
      <4>. QED BY <4>1, SubSeqFull, LenProperties
    <3>2. \E k \in 0..Len(p) : p2 = SubSeq(p, k + 1, Len(p))
      BY <2>1, <3>1
    <3>. QED BY <1>6, <2>1, <2>3, <3>2 DEF PipeStep
  <2>. QED BY <1>6, <2>2, <2>3
<1>7. ASSUME o, o2, AddsCell(h, g), l2, w2 = w
      PROVE  PipeStep(p, h.count, w, o, l, p2, g.count, w2, o2, l2)
  <2>1. p2 = Append(p, h.count + 1) /\ g.count = h.count + 1
    BY <1>2, <1>5, <1>7, AddContents DEF AddsCell
  <2>. QED BY <1>7, <2>1 DEF PipeStep
<1>8. ASSUME o, o2, l2 <=> l, w2 = w, NEW n \in 0..Len(h.delay_queue),
             MovesCells(h, g, n)
      PROVE  PipeStep(p, h.count, w, o, l, p2, g.count, w2, o2, l2)
  <2>1. p2 = p /\ g.count = h.count
    BY <1>2, <1>5, <1>8, MoveContents DEF MovesCells
  <2>. QED BY <1>8, <2>1 DEF PipeStep
<1>9. ASSUME o, o2, DropsCells(h, g), g.delay_queue = h.delay_queue, l, ~l2, w2 = w
      PROVE  PipeStep(p, h.count, w, o, l, p2, g.count, w2, o2, l2)
  <2>1. \E k \in 0..Len(p) : p2 = SubSeq(p, k + 1, Len(p))
    BY <1>2, <1>5, <1>9, CutContents
  <2>2. g.count = h.count
    BY <1>9 DEF DropsCells
  <2>. QED BY <1>9, <2>1, <2>2 DEF PipeStep
<1>10. ASSUME o, ~o2, w2 = w, SameCells(h, g) \/ DropsCells(h, g)
       PROVE  PipeStep(p, h.count, w, o, l, p2, g.count, w2, o2, l2)
  <2>1. \E k \in 0..Len(p) : p2 = SubSeq(p, 1, k)
    BY <1>2, <1>5, <1>10, CloseContents
  <2>2. g.count = h.count
    BY <1>10 DEF SameCells, DropsCells
  <2>. QED BY <1>10, <2>1, <2>2 DEF PipeStep
<1>11. ASSUME o, ~o2, w2 = w, Reclaimed(h, g)
       PROVE  PipeStep(p, h.count, w, o, l, p2, g.count, w2, o2, l2)
  <2>1. p2 = <<>> /\ g.count = h.count + 1
    BY <1>5, <1>11, EmptyNumbers DEF Reclaimed
  <2>. QED BY <1>11, <2>1 DEF PipeStep
<1>12. ASSUME ~o, ~o2, DropsCells(h, g), l2 => l, w2 = w
       PROVE  PipeStep(p, h.count, w, o, l, p2, g.count, w2, o2, l2)
  <2>1. p2 = <<>> /\ g.count = h.count
    BY <1>5, <1>12, EmptyNumbers DEF DropsCells
  <2>. QED BY <1>12, <2>1 DEF PipeStep
<1>13. ASSUME l, l2, o <=> o2, TakesCell(h, g), w2 = Head(h.queue).seq
       PROVE  PipeStep(p, h.count, w, o, l, p2, g.count, w2, o2, l2)
  <2>1. o = o2
    BY <1>2, <1>13
  <2>2. p # <<>> /\ Head(p) = Head(h.queue).seq /\ p2 = Tail(p)
    BY <1>2, <1>4, <1>13, <2>1, TakeContents
  <2>3. g.count = h.count
    BY <1>13 DEF TakesCell
  <2>. QED BY <1>13, <2>2, <2>3 DEF PipeStep
<1>14. PipeStep(p, h.count, w, o, l, p2, g.count, w2, o2, l2)
  BY <1>3, <1>6, <1>7, <1>8, <1>9, <1>10, <1>11, <1>12, <1>13
<1>. QED BY <1>1, <1>14 DEF h, g, o, o2, l, l2, w, w2

\* The outbound direction is a pipe: whatever delays, appends, timers, flushes,
\* cuts and ends come between, no cell overtakes another or is lost on an open
\* circuit.
THEOREM OutImplementsPipe == Spec => OutIsAPipe
<1>1. Init => OutPipe!Init
  <2>. SUFFICES ASSUME Init PROVE OutPipe!Init
    OBVIOUS
  <2>1. /\ circ.half["OUT"].queue = <<>> /\ circ.half["OUT"].delay_queue = <<>>
        /\ circ.half["OUT"].count = 0 /\ circ.phase = "open" /\ wire["OUT"].seq = 0
    BY InitCells DEF Dirs
  <2>2. Pipe("OUT") = <<>>
    <3>1. <<>> \o <<>> = <<>>
      BY ConcatEmptySeq, EmptySeq
    <3>2. Pipe("OUT") = Numbers(<<>>)
      BY <2>1, <3>1 DEF Pipe, InFlight, Numbers
    <3>. QED BY <3>2, EmptyNumbers
  <2>3. (circ.phase = "open") = TRUE
    BY <2>1
  <2>. QED BY <2>1, <2>2, <2>3 DEF OutPipe!Init
<1>2. IInv /\ [Next]_vars => [OutPipe!Next]_(OutPipe!vars)
  <2>. SUFFICES ASSUME IInv, [Next]_vars
                PROVE  [OutPipe!Next]_(OutPipe!vars)
    OBVIOUS
  <2>. DEFINE o == circ.phase = "open"  o2 == circ'.phase = "open"
              l == circ.half["OUT"].chan # "none"
              l2 == circ'.half["OUT"].chan # "none"
              p == Pipe("OUT")  p2 == Pipe("OUT")'
              a == circ.half["OUT"].count  a2 == circ'.half["OUT"].count
              w == wire["OUT"].seq  w2 == wire'["OUT"].seq
  <2>1. CASE Next
    <3>1. "OUT" \in Dirs /\ circ.half["OUT"] \in Half /\ DirStep("OUT")
      BY <2>1, IInvParts, EveryDirStep DEF IInv, CircInv, HalfInv, Dirs
    <3>2. PipeStep(p, a, w, o, l, p2, a2, w2, o2, l2)
      BY <3>1, DirStepIsPipeStep
    <3>3. /\ OutPipe!Accept <=> /\ o /\ a2 = a + 1 /\ p2 = Append(p, a + 1)
                                /\ l2 \in {l, TRUE} /\ w2 = w /\ o2 = o
          /\ OutPipe!Deliver <=> /\ l /\ p # <<>> /\ w2 = Head(p) /\ p2 = Tail(p)
                                 /\ a2 = a /\ o2 = o /\ l2 = l
          /\ OutPipe!Cut <=> /\ l /\ ~l2
                             /\ \E k \in 0..Len(p) : p2 = SubSeq(p, k + 1, Len(p))
                             /\ a2 = a /\ w2 = w /\ o2 = o
          /\ OutPipe!Discard <=> /\ p2 = <<>> /\ l2 \in {l, FALSE}
                                 /\ a2 = a /\ w2 = w /\ o2 = o
          /\ OutPipe!Close <=> /\ o /\ o2 = FALSE
                               /\ \/ /\ \E k \in 0..Len(p) : p2 = SubSeq(p, 1, k)
                                     /\ a2 = a
                                  \/ p2 = <<>> /\ a2 = a + 1
                               /\ l2 \in BOOLEAN /\ w2 = w
          /\ UNCHANGED OutPipe!vars <=> p2 = p /\ a2 = a /\ w2 = w /\ o2 = o /\ l2 = l
      BY DEF OutPipe!Accept, OutPipe!Deliver, OutPipe!Cut, OutPipe!Discard,
             OutPipe!Close, OutPipe!vars
    <3>4. /\ o \in BOOLEAN /\ o2 \in BOOLEAN /\ l \in BOOLEAN /\ l2 \in BOOLEAN
      OBVIOUS
    <3>. HIDE DEF o, o2, l, l2, p, p2, a, a2, w, w2
    <3>5. \/ OutPipe!Accept \/ OutPipe!Deliver \/ OutPipe!Cut \/ OutPipe!Discard
          \/ OutPipe!Close \/ UNCHANGED OutPipe!vars
      BY <3>2, <3>3, <3>4 DEF PipeStep
    <3>. QED BY <3>5 DEF OutPipe!Next
  <2>2. CASE UNCHANGED vars
    BY <2>2 DEF vars, OutPipe!vars, Pipe, InFlight
  <2>. QED BY <2>1, <2>2
<1>. QED BY <1>1, <1>2, InductiveInvariant, PTL DEF Spec, OutIsAPipe, OutPipe!Spec

\* The inbound direction is one too, before and after it has a channel.
THEOREM InImplementsPipe == Spec => InIsAPipe
<1>1. Init => InPipe!Init
  <2>. SUFFICES ASSUME Init PROVE InPipe!Init
    OBVIOUS
  <2>1. /\ circ.half["IN"].queue = <<>> /\ circ.half["IN"].delay_queue = <<>>
        /\ circ.half["IN"].count = 0 /\ circ.phase = "open" /\ wire["IN"].seq = 0
    BY InitCells DEF Dirs
  <2>2. Pipe("IN") = <<>>
    <3>1. <<>> \o <<>> = <<>>
      BY ConcatEmptySeq, EmptySeq
    <3>2. Pipe("IN") = Numbers(<<>>)
      BY <2>1, <3>1 DEF Pipe, InFlight, Numbers
    <3>. QED BY <3>2, EmptyNumbers
  <2>3. (circ.phase = "open") = TRUE
    BY <2>1
  <2>. QED BY <2>1, <2>2, <2>3 DEF InPipe!Init
<1>2. IInv /\ [Next]_vars => [InPipe!Next]_(InPipe!vars)
  <2>. SUFFICES ASSUME IInv, [Next]_vars
                PROVE  [InPipe!Next]_(InPipe!vars)
    OBVIOUS
  <2>. DEFINE o == circ.phase = "open"  o2 == circ'.phase = "open"
              l == circ.half["IN"].chan # "none"
              l2 == circ'.half["IN"].chan # "none"
              p == Pipe("IN")  p2 == Pipe("IN")'
              a == circ.half["IN"].count  a2 == circ'.half["IN"].count
              w == wire["IN"].seq  w2 == wire'["IN"].seq
  <2>1. CASE Next
    <3>1. "IN" \in Dirs /\ circ.half["IN"] \in Half /\ DirStep("IN")
      BY <2>1, IInvParts, EveryDirStep DEF IInv, CircInv, HalfInv, Dirs
    <3>2. PipeStep(p, a, w, o, l, p2, a2, w2, o2, l2)
      BY <3>1, DirStepIsPipeStep
    <3>3. /\ InPipe!Accept <=> /\ o /\ a2 = a + 1 /\ p2 = Append(p, a + 1)
                                /\ l2 \in {l, TRUE} /\ w2 = w /\ o2 = o
          /\ InPipe!Deliver <=> /\ l /\ p # <<>> /\ w2 = Head(p) /\ p2 = Tail(p)
                                 /\ a2 = a /\ o2 = o /\ l2 = l
          /\ InPipe!Cut <=> /\ l /\ ~l2
                             /\ \E k \in 0..Len(p) : p2 = SubSeq(p, k + 1, Len(p))
                             /\ a2 = a /\ w2 = w /\ o2 = o
          /\ InPipe!Discard <=> /\ p2 = <<>> /\ l2 \in {l, FALSE}
                                 /\ a2 = a /\ w2 = w /\ o2 = o
          /\ InPipe!Close <=> /\ o /\ o2 = FALSE
                               /\ \/ /\ \E k \in 0..Len(p) : p2 = SubSeq(p, 1, k)
                                     /\ a2 = a
                                  \/ p2 = <<>> /\ a2 = a + 1
                               /\ l2 \in BOOLEAN /\ w2 = w
          /\ UNCHANGED InPipe!vars <=> p2 = p /\ a2 = a /\ w2 = w /\ o2 = o /\ l2 = l
      BY DEF InPipe!Accept, InPipe!Deliver, InPipe!Cut, InPipe!Discard,
             InPipe!Close, InPipe!vars
    <3>4. /\ o \in BOOLEAN /\ o2 \in BOOLEAN /\ l \in BOOLEAN /\ l2 \in BOOLEAN
      OBVIOUS
    <3>. HIDE DEF o, o2, l, l2, p, p2, a, a2, w, w2
    <3>5. \/ InPipe!Accept \/ InPipe!Deliver \/ InPipe!Cut \/ InPipe!Discard
          \/ InPipe!Close \/ UNCHANGED InPipe!vars
      BY <3>2, <3>3, <3>4 DEF PipeStep
    <3>. QED BY <3>5 DEF InPipe!Next
  <2>2. CASE UNCHANGED vars
    BY <2>2 DEF vars, InPipe!vars, Pipe, InFlight
  <2>. QED BY <2>1, <2>2
<1>. QED BY <1>1, <1>2, InductiveInvariant, PTL DEF Spec, InIsAPipe, InPipe!Spec

-----------------------------------------------------------------------------
(* When delayed cells are released                                         *)

AllOnTime(c) == \A d \in Dirs : OnTime(c.half[d])

\* An append leaves every timer on time, whatever way it ends.
LEMMA AppendCircOnTime ==
  ASSUME NEW c, NEW d \in Dirs, CanAppend(c, d), AllOnTime(c),
         NEW command \in Commands, NEW s, NEW delay \in Nat, NEW oom \in BOOLEAN,
         mono \in Nat, wall = mono
  PROVE  AllOnTime(append_cell_to_circuit_queue(c, d, command, s, delay, oom))
<1>. DEFINE h == c.half[d]
            added == cell_queue_append_packed_copy(h, command, delay, mono, wall)
            done == append_tail(added)
            stop == IF d = "OUT" THEN {}
                    ELSE IF h.streams_blocked THEN {s} \cap c.streams
                    ELSE IF done.streams_blocked THEN c.streams
                    ELSE {}
            new == c.stopped \cup stop
            r == append_cell_to_circuit_queue(c, d, command, s, delay, oom)
            full == Len(h.queue) >= MaxQueueSize
            a == [c EXCEPT !.half[d] = added]
            ma == circuit_mark_for_close(a)
            g == [e \in Dirs |-> free_cells(ma.half[e])]
            q == [c EXCEPT !.half[d] = done]
<1>1. /\ c \in CircType
      /\ c.phase = "open"
      /\ Appendable(h)
      /\ OnTime(h)
      /\ \A e \in Dirs : c.half[e] \in Half
  BY DEF CanAppend, AllOnTime, CircType
<1>2. /\ added \in Half
      /\ done \in Half
      /\ OnTime(done)
  <2>. HIDE DEF h
  <2>1. mono \in Nat /\ wall \in Nat /\ wall = mono
    OBVIOUS
  <2>2. Appendable(added) /\ HalfInv(done, "open")
    BY <1>1, <2>1, AppendCell
  <2>3. OnTime(done)
    BY <1>1, <2>1, AppendOnTime
  <2>. HIDE DEF added, done
  <2>. QED
    BY <2>2, <2>3 DEF HalfInv, Appendable, Reclaimable
<1>3. r = IF full THEN circuit_mark_for_close(c)
          ELSE IF oom
               THEN marked_circuit_free_cells(circuit_mark_for_close(a))
          ELSE [c EXCEPT !.half[d] = done, !.stopped = @ \cup stop]
  BY <1>1 DEF append_cell_to_circuit_queue, QueueFull
<1>4. [c EXCEPT !.half[d] = done, !.stopped = @ \cup stop] = [q EXCEPT !.stopped = new]
  <2>. HIDE DEF done, stop
  <2>. QED
    BY <1>1 DEF CircType
<1>. HIDE DEF added, done, stop, r, full, new
<1>5. CASE full
  <2>1. circuit_mark_for_close(c).half = c.half
    BY <1>1 DEF circuit_mark_for_close, CircType
  <2>. QED
    BY <1>3, <1>5, <2>1 DEF r, AllOnTime
<1>6. CASE ~full /\ oom
  <2>1. a \in CircType
    BY <1>1, <1>2, SetHalf
  <2>. HIDE DEF a
  <2>2. ma \in CircType /\ \A e \in Dirs : ma.half[e] \in Half
    BY <2>1 DEF circuit_mark_for_close, CircType
  <2>3. r = [ma EXCEPT !.half = g]
    BY <1>3, <1>6 DEF marked_circuit_free_cells
  <2>. HIDE DEF ma
  <2>4. \A e \in Dirs : g[e].delay_timer = "none"
    BY <2>2, QueueTimerSteps
  <2>. HIDE DEF g
  <2>5. r.half = g
    BY <2>2, <2>3 DEF CircType
  <2>. QED
    BY <2>4, <2>5 DEF r, AllOnTime, OnTime
<1>7. CASE ~full /\ ~oom
  <2>1. /\ q \in CircType
        /\ q.half[d] = done
        /\ \A e \in Dirs : e # d => q.half[e] = c.half[e]
    BY <1>1, <1>2, SetHalf
  <2>. HIDE DEF q
  <2>2. r = [q EXCEPT !.stopped = new]
    BY <1>3, <1>4, <1>7
  <2>3. r.half = q.half
    BY <2>1, <2>2 DEF CircType
  <2>4. \A e \in Dirs : OnTime(r.half[e])
    BY <1>2, <2>1, <2>3 DEF AllOnTime
  <2>. QED
    BY <2>4 DEF r, AllOnTime
<1>. QED
  BY <1>5, <1>6, <1>7

\* The CREATE for the next hop, and TRUNCATED after the next hop was cut.
LEMMA CreateOnTime ==
  ASSUME NEW c, CircInv(c), c.phase = "open", c.half["OUT"].chan = "none",
         AllOnTime(c), NEW delay \in Nat, NEW oom \in BOOLEAN,
         mono \in Nat, wall = mono
  PROVE  AllOnTime(circuit_deliver_create_cell(c, delay, oom))
<1>. DEFINE id == c.hops + 1
            h == set_circid_chan(c.half["OUT"], id)
            q == [c EXCEPT !.half["OUT"] = h]
            m == [q EXCEPT !.hops = id, !.n_hop = FALSE]
<1>1. /\ c \in CircType /\ id \in Nat /\ "OUT" \in Dirs /\ "IN" \in Dirs
      /\ c.half["OUT"] \in Half /\ OnTime(c.half["OUT"])
      /\ \A e \in Dirs : HalfInv(c.half[e], "open")
  BY DEF CircInv, CircType, Dirs, AllOnTime
<1>2. /\ Appendable(h)
      /\ HalfInv(h, "marked")
      /\ h \in Half
      /\ OnTime(h)
  BY <1>1, SetChan, TimerSteps, KeptOnTime DEF HalfInv
<1>3. circuit_deliver_create_cell(c, delay, oom)
        = append_cell_to_circuit_queue(m, "OUT", "CREATE", NoStream, delay, oom)
  <2>1. [c EXCEPT !.half["OUT"] = set_circid_chan(@, c.hops + 1),
                  !.hops = @ + 1, !.n_hop = FALSE] = m
    <3>1. q.hops = c.hops
      <4>. HIDE DEF h, id
      <4>. QED BY <1>1 DEF CircType
    <3>2. q = [c EXCEPT !.half["OUT"] = set_circid_chan(@, c.hops + 1)]
      OBVIOUS
    <3>. QED BY <3>1, <3>2
  <2>. HIDE DEF m
  <2>. QED BY <2>1 DEF circuit_deliver_create_cell
<1>. HIDE DEF h, id
<1>4. /\ q \in CircType
      /\ q.phase = "open"
      /\ q.streams = c.streams /\ q.stopped = c.stopped
      /\ q.half["OUT"] = h
      /\ \A e \in Dirs : e # "OUT" => q.half[e] = c.half[e]
  BY <1>1, <1>2, SetHalf
<1>. HIDE DEF q
<1>5. /\ m \in CircType
      /\ m.phase = "open"
      /\ m.n_hop = FALSE
      /\ m.streams = c.streams /\ m.stopped = c.stopped
      /\ m.half = q.half
  BY <1>1, <1>4 DEF CircType
<1>. HIDE DEF m
<1>6. \A e \in Dirs : HalfInv(m.half[e], "marked")
  <2>1. \A e \in Dirs : e # "OUT" => HalfInv(m.half[e], "marked")
    BY <1>1, <1>4, <1>5, Marking
  <2>. QED
    BY <1>2, <1>4, <1>5, <2>1
<1>7. \A e \in Dirs : e # "OUT" => HalfInv(m.half[e], "open")
  BY <1>1, <1>4, <1>5
<1>8. m.half["IN"].chan # "none"
  BY <1>1, <1>4, <1>5 DEF CircInv
<1>9. CanAppend(m, "OUT")
  BY <1>2, <1>4, <1>5, <1>6, <1>7, <1>8 DEF CanAppend, CircInv
<1>10. AllOnTime(m)
  BY <1>2, <1>4, <1>5 DEF AllOnTime
<1>. QED BY <1>1, <1>3, <1>9, <1>10, AppendCircOnTime DEF Commands

\* Cutting the next hop does not touch the timers.
LEMMA CutOnTime ==
  ASSUME NEW c, CircInv(c), AllOnTime(c)
  PROVE  AllOnTime(cut_next_hop([c EXCEPT !.n_hop = FALSE]))
<1>. DEFINE n == [c EXCEPT !.n_hop = FALSE]
            k == circuit_clear_cell_queue(n.half["OUT"])
            h == clear_circid_chan(k)
            x == [n EXCEPT !.half["OUT"] = h]
            m == cut_next_hop(n)
<1>1. /\ n \in CircType /\ n.half = c.half
      /\ "OUT" \in Dirs /\ n.half["OUT"] \in Half /\ OnTime(n.half["OUT"])
  BY DEF CircInv, CircType, Dirs, AllOnTime
<1>2. m = IF n.half["OUT"].chan = "none" THEN n ELSE x
  BY DEF cut_next_hop
<1>3. CASE n.half["OUT"].chan = "none"
  BY <1>1, <1>2, <1>3 DEF AllOnTime
<1>4. CASE n.half["OUT"].chan # "none"
  <2>. HIDE DEF n
  <2>1. OnTime(h)
    BY <1>1, QueueTimerSteps, KeptOnTime
  <2>2. h \in Half
    <3>1. k \in Half
      <4>. DEFINE z == <<>>
                  e == [n.half["OUT"] EXCEPT !.queue = z]
      <4>1. z \in Seq(Cell)
        OBVIOUS
      <4>2. k = update_circuit_on_cmux(e)
        BY DEF circuit_clear_cell_queue
      <4>. HIDE DEF z
      <4>3. e \in Half
        BY <1>1, <4>1 DEF Half
      <4>. QED BY <4>2, <4>3, SmallSteps
    <3>. HIDE DEF k
    <3>. QED BY <3>1 DEF clear_circid_chan, detach, Half
  <2>. HIDE DEF h
  <2>3. /\ x.half["OUT"] = h
        /\ \A e \in Dirs : e # "OUT" => x.half[e] = n.half[e]
    BY <1>1, <2>2, SetHalf
  <2>. HIDE DEF x, m
  <2>4. m = x
    BY <1>2, <1>4
  <2>5. AllOnTime(m)
    BY <1>1, <2>1, <2>3, <2>4 DEF AllOnTime
  <2>. QED BY <2>5 DEF m, n
<1>. QED BY <1>3, <1>4

\* One direction changes, and the circuit may be marked.
LEMMA SetOnTime ==
  ASSUME NEW c \in CircType, AllOnTime(c), NEW d \in Dirs, NEW h \in Half, OnTime(h)
  PROVE  /\ AllOnTime([c EXCEPT !.half[d] = h])
         /\ AllOnTime(circuit_mark_for_close([c EXCEPT !.half[d] = h]))
<1>. DEFINE x == [c EXCEPT !.half[d] = h]
<1>1. /\ x \in CircType
      /\ x.half[d] = h
      /\ \A e \in Dirs : e # d => x.half[e] = c.half[e]
  BY SetHalf
<1>. HIDE DEF x
<1>2. AllOnTime(x)
  BY <1>1 DEF AllOnTime
<1>3. circuit_mark_for_close(x).half = x.half
  BY <1>1 DEF circuit_mark_for_close, CircType
<1>4. AllOnTime(circuit_mark_for_close(x))
  BY <1>2, <1>3 DEF AllOnTime
<1>. QED BY <1>2, <1>4 DEF x

\* Every step leaves the timers on time while both clocks show the same.
LEMMA EveryStepOnTime ==
  ASSUME CircInv(circ), EnvType, wall = mono, AllOnTime(circ), Next
  PROVE  AllOnTime(circ')
<1>1. /\ circ \in CircType
      /\ circ.phase \in {"open", "marked", "freed"}
      /\ "IN" \in Dirs /\ "OUT" \in Dirs
      /\ "RELAY" \in Commands
      /\ mono \in Nat /\ wall \in Nat
      /\ Delays \subseteq Nat
      /\ \A d \in Dirs : circ.half[d] \in Half /\ OnTime(circ.half[d])
  BY CircuitParameters DEF CircInv, CircType, Dirs, Commands, EnvType, AllOnTime
<1>2. \A d \in Dirs : HalfInv(circ.half[d], circ.phase)
  BY DEF CircInv
<1>3. ASSUME circ'.half = circ.half
      PROVE  AllOnTime(circ')
  BY <1>3 DEF AllOnTime
<1>4. ASSUME circ' = circuit_mark_for_close(circ)
      PROVE  AllOnTime(circ')
  <2>1. circ'.half = circ.half
    BY <1>1, <1>4 DEF circuit_mark_for_close, CircType
  <2>. QED BY <1>3, <2>1
<1>5. ASSUME NEW d \in Dirs, NEW h \in Half, OnTime(h),
             \/ circ' = [circ EXCEPT !.half[d] = h]
             \/ circ' = circuit_mark_for_close([circ EXCEPT !.half[d] = h])
      PROVE  AllOnTime(circ')
  BY <1>1, <1>5, SetOnTime
<1>6. ASSUME circ.phase = "open", NEW d \in Dirs, circ.half[d].chan # "none",
             NEW s, NEW delay \in Delays, NEW oom \in BOOLEAN,
             circ' = append_cell_to_circuit_queue(circ, d, "RELAY", s, delay, oom)
      PROVE  AllOnTime(circ')
  <2>1. CanAppend(circ, d)
    BY <1>6, OpenCanAppend
  <2>2. delay \in Nat
    BY <1>1
  <2>. QED BY <1>1, <1>6, <2>1, <2>2, AppendCircOnTime
<1>7. ASSUME circ.phase = "open", circ.half["OUT"].chan = "none",
             NEW delay \in Delays, NEW oom \in BOOLEAN,
             circ' = circuit_deliver_create_cell(circ, delay, oom)
      PROVE  AllOnTime(circ')
  <2>1. delay \in Nat
    BY <1>1
  <2>. QED BY <1>1, <1>7, <2>1, CreateOnTime
<1>8. ASSUME circ.phase = "open", NEW s, NEW delay \in Delays, NEW oom \in BOOLEAN,
             circ' = append_cell_to_circuit_queue(circ, "IN", "RELAY", s, delay, oom)
      PROVE  AllOnTime(circ')
  <2>1. circ.half["IN"].chan # "none"
    BY <1>8 DEF CircInv
  <2>. QED BY <1>1, <1>6, <1>8, <2>1
<1>9. CASE ReceiveOut
  <2>. PICK delay \in Delays, oom \in BOOLEAN :
         circ' = IF circ.half["OUT"].chan = "none"
                 THEN circuit_mark_for_close(circ)
                 ELSE append_cell_to_circuit_queue(circ, "OUT", "RELAY",
                                                   NoStream, delay, oom)
    BY <1>9 DEF ReceiveOut
  <2>1. circ.phase = "open"
    BY <1>9 DEF ReceiveOut
  <2>. QED BY <1>1, <1>4, <1>6, <2>1
<1>10. CASE ReceiveIn
  BY <1>8, <1>10 DEF ReceiveIn
<1>11. ASSUME NEW s \in Streams, PackageFromStream(s)
       PROVE  AllOnTime(circ')
  BY <1>8, <1>11 DEF PackageFromStream
<1>12. ASSUME NEW s \in Streams, OpenStream(s) \/ CloseStream(s)
       PROVE  AllOnTime(circ')
  <2>. DEFINE new == circ.streams \cup {s}
              old == circ.streams \ {s}
              running == circ.stopped \ {s}
  <2>1. \/ circ' = [circ EXCEPT !.streams = new]
        \/ circ' = [circ EXCEPT !.streams = old, !.stopped = running]
    BY <1>12 DEF OpenStream, CloseStream
  <2>. HIDE DEF new, old, running
  <2>2. circ'.half = circ.half
    BY <1>1, <2>1 DEF CircType
  <2>. QED BY <1>3, <2>2
<1>13. CASE Extend \/ NChanDone
  <2>1. circ.phase = "open"
    BY <1>13 DEF Extend, NChanDone
  <2>2. CASE circ' = [circ EXCEPT !.n_hop = TRUE]
    <3>1. circ'.half = circ.half
      BY <1>1, <2>2 DEF CircType
    <3>. QED BY <1>3, <3>1
  <2>3. CASE circ' = circuit_mark_for_close(circ)
    BY <1>4, <2>3
  <2>4. ASSUME circ.half["OUT"].chan = "none",
               NEW delay \in Delays, NEW oom \in BOOLEAN,
               circ' = circuit_deliver_create_cell(circ, delay, oom)
        PROVE  AllOnTime(circ')
    BY <1>7, <2>1, <2>4
  <2>5. NChanDone => circ.half["OUT"].chan = "none"
    BY DEF NChanDone, CircInv
  <2>. QED BY <1>13, <2>2, <2>3, <2>4, <2>5 DEF Extend, NChanDone
<1>14. CASE Truncate
  <2>. DEFINE m == cut_next_hop([circ EXCEPT !.n_hop = FALSE])
  <2>. PICK delay \in Delays, oom \in BOOLEAN :
         circ' = append_cell_to_circuit_queue(m, "IN", "RELAY", NoStream, delay, oom)
    BY <1>14 DEF Truncate
  <2>1. circ.phase = "open" /\ delay \in Nat
    BY <1>1, <1>14 DEF Truncate
  <2>2. CanAppend(m, "IN") /\ AllOnTime(m)
    BY <2>1, CutNextHop, CutOnTime
  <2>. HIDE DEF m
  <2>. QED BY <1>1, <2>1, <2>2, AppendCircOnTime
<1>15. CASE MarkForClose
  BY <1>4, <1>15 DEF MarkForClose
<1>16. CASE HandleOom \/ CloseAllMarked
  <2>. DEFINE m == circuit_mark_for_close(circ)
              f == [d \in Dirs |-> free_cells(m.half[d])]
              g == [d \in Dirs |-> free_cells(clear_circid_chan(circ.half[d]))]
  <2>1. \/ circ' = [m EXCEPT !.half = f]
        \/ circ' = [circ EXCEPT !.phase = "freed", !.half = g,
                                !.n_hop = FALSE, !.streams = {}, !.stopped = {}]
    BY <1>16 DEF HandleOom, CloseAllMarked, marked_circuit_free_cells
  <2>2. m \in CircType /\ m.half = circ.half
    BY <1>1 DEF circuit_mark_for_close, CircType
  <2>3. \A d \in Dirs : f[d].delay_timer = "none" /\ g[d].delay_timer = "none"
    BY <1>1, <2>2, QueueTimerSteps
  <2>. HIDE DEF m, f, g
  <2>4. circ'.half = f \/ circ'.half = g
    BY <1>1, <2>1, <2>2 DEF CircType
  <2>. QED BY <2>3, <2>4 DEF AllOnTime, OnTime
<1>17. ASSUME NEW d \in Dirs, ReceiveDestroy(d) \/ ChannelClosed(d)
       PROVE  AllOnTime(circ')
  <2>. DEFINE h == clear_circid_chan(circ.half[d])
  <2>1. circ' = circuit_mark_for_close([circ EXCEPT !.half[d] = h])
    BY <1>17 DEF ReceiveDestroy, ChannelClosed
  <2>2. h \in Half
    BY <1>1 DEF clear_circid_chan, detach, Half
  <2>3. OnTime(h)
    BY <1>1, TimerSteps, KeptOnTime
  <2>. HIDE DEF h
  <2>. QED BY <1>5, <2>1, <2>2, <2>3
<1>18. ASSUME NEW d \in Dirs, ChannelClosing(d) \/ SchedulerIdle(d) \/ FlushEmpty(d)
       PROVE  AllOnTime(circ')
  <2>. DEFINE a == channel_closing(circ.half[d])
              b == scheduler_idle(circ.half[d])
              c == flush_empty(circ.half[d])
  <2>1. \/ circ' = [circ EXCEPT !.half[d] = a]
        \/ circ' = [circ EXCEPT !.half[d] = b]
        \/ circ' = circuit_mark_for_close([circ EXCEPT !.half[d] = c])
    BY <1>18 DEF ChannelClosing, SchedulerIdle, FlushEmpty
  <2>2. a \in Half /\ b \in Half /\ c \in Half
    BY <1>1 DEF channel_closing, scheduler_idle, flush_empty, Half
  <2>3. OnTime(a) /\ OnTime(b) /\ OnTime(c)
    BY <1>1, TimerSteps, KeptOnTime
  <2>. HIDE DEF a, b, c
  <2>. QED BY <1>5, <2>1, <2>2, <2>3
<1>19. ASSUME NEW d \in Dirs, Flush(d)
       PROVE  AllOnTime(circ')
  <2>. DEFINE h == circ.half[d]
              f == flush_cell(h)
              stop == IF d = "IN" /\ h.streams_blocked /\ ~f.streams_blocked
                      THEN {} ELSE circ.stopped
              r == [circ EXCEPT !.half[d] = f]
  <2>1. /\ h.chan = "open" /\ h.sched_pending /\ h.queue # <<>>
        /\ circ' = [circ EXCEPT !.half[d] = f, !.stopped = stop]
    BY <1>19 DEF Flush
  <2>2. f \in Half
    <3>1. circ.phase # "freed"
      BY <1>2, <2>1 DEF HalfInv, FreedInv
    <3>. QED BY <1>1, <1>2, <2>1, <3>1, FlushCell DEF HalfInv
  <2>3. OnTime(f)
    BY <1>1, QueueTimerSteps, KeptOnTime
  <2>. HIDE DEF f, stop
  <2>4. AllOnTime(r) /\ r \in CircType
    BY <1>1, <2>2, <2>3, SetOnTime, SetHalf
  <2>5. circ' = [r EXCEPT !.stopped = stop]
    BY <2>1
  <2>. HIDE DEF r
  <2>6. circ'.half = r.half
    BY <2>4, <2>5 DEF CircType
  <2>. QED BY <2>4, <2>6 DEF AllOnTime
<1>20. ASSUME NEW d \in Dirs, FlushFails(d)
       PROVE  AllOnTime(circ')
  <2>. DEFINE h == flush_fails(circ.half[d])
  <2>1. /\ circ.half[d].chan = "open"
        /\ circ' = circuit_mark_for_close([circ EXCEPT !.half[d] = h])
    BY <1>20 DEF FlushFails
  <2>2. h \in Half
    <3>1. circ.phase \in {"open", "marked"}
      BY <1>1, <1>2, <2>1 DEF HalfInv, FreedInv
    <3>. QED BY <1>2, <2>1, <3>1, ChannelSteps DEF HalfInv
  <2>3. OnTime(h)
    BY <1>1, QueueTimerSteps, KeptOnTime
  <2>. HIDE DEF h
  <2>. QED BY <1>5, <2>1, <2>2, <2>3
<1>21. ASSUME NEW d \in Dirs, TimerFires(d)
       PROVE  AllOnTime(circ')
  <2>. DEFINE h == circ.half[d]
  <2>. PICK n \in 0..Len(h.delay_queue) : circ' = cell_ready_callback(circ, d, n)
    BY <1>21 DEF TimerFires
  <2>. DEFINE a == leave_fired_timer(h)
              b == free_delay_timer(h)
              c == release_cells(h, n, mono, wall)
  <2>1. \/ circ' = [circ EXCEPT !.half[d] = a]
        \/ circ' = [circ EXCEPT !.half[d] = b]
        \/ /\ circ.phase = "open" /\ h.chan # "none"
           /\ circ' = [circ EXCEPT !.half[d] = c]
    BY DEF cell_ready_callback
  <2>2. a \in Half /\ b \in Half
    <3>1. b \in Half
      BY <1>1, SmallSteps
    <3>. HIDE DEF b
    <3>. QED BY <1>1, <3>1 DEF leave_fired_timer, Half
  <2>3. OnTime(a) /\ OnTime(b)
    BY <1>1, TimerSteps DEF OnTime
  <2>4. ASSUME circ.phase = "open", h.chan # "none"
        PROVE  c \in Half /\ OnTime(c)
    <3>1. HalfInv(h, "open")
      BY <1>2, <2>4
    <3>. QED BY <1>1, <2>4, <3>1, ReleaseCells, ReleaseOnTime DEF HalfInv
  <2>. HIDE DEF a, b, c
  <2>. QED BY <1>5, <2>1, <2>2, <2>3, <2>4
<1>22. CASE TimePasses \/ SetWallClock \/ \E d \in Dirs : FlushDestroy(d)
  BY <1>3, <1>22 DEF TimePasses, SetWallClock, FlushDestroy
<1>. QED
  BY <1>9, <1>10, <1>11, <1>12, <1>13, <1>14, <1>15, <1>16, <1>17, <1>18,
     <1>19, <1>20, <1>21, <1>22 DEF Next

\* The first delayed cell leaves less than two ticks early and the others not
\* at all, as long as nobody sets the wall clock.
THEOREM NoCellLeavesEarly ==
  ASSUME MaxJumps = 0
  PROVE  Spec => ReleasedOnTime
<1>. DEFINE I == AllOnTime(circ) /\ wall = mono /\ jumps = 0
<1>1. Init => I
  <2>. SUFFICES ASSUME Init PROVE I
    OBVIOUS
  <2>1. wall = mono /\ jumps = 0
    BY DEF Init
  <2>2. \A d \in Dirs : circ.half[d].delay_timer # "armed"
    BY InitInv, InitCells DEF IInv, CircInv, HalfInv, TimerInv
  <2>. QED BY <2>1, <2>2 DEF AllOnTime, OnTime
<1>2. IInv /\ I /\ [Next]_vars => I'
  <2>. SUFFICES ASSUME IInv, I, [Next]_vars PROVE I'
    OBVIOUS
  <2>1. CASE Next
    <3>1. AllOnTime(circ')
      BY <2>1, IInvParts, EveryStepOnTime
    <3>2. wall' = mono' /\ jumps' = 0
      <4>1. mono \in Nat /\ ~SetWallClock
        BY IInvParts DEF EnvType, SetWallClock
      <4>2. TimePasses => wall' = mono' /\ jumps' = 0
        BY DEF TimePasses
      <4>3. ~TimePasses => wall' = wall /\ mono' = mono /\ jumps' = jumps
        BY <2>1, <4>1 DEF Next, ReceiveOut, ReceiveIn, PackageFromStream,
           OpenStream, CloseStream, Extend, NChanDone, Truncate, MarkForClose,
           HandleOom, CloseAllMarked, ReceiveDestroy, ChannelClosing,
           ChannelClosed, Flush, FlushEmpty, FlushFails, FlushDestroy,
           SchedulerIdle, TimerFires
      <4>. QED BY <4>2, <4>3
    <3>. QED BY <3>1, <3>2 DEF AllOnTime
  <2>2. CASE UNCHANGED vars
    BY <2>2 DEF vars, AllOnTime
  <2>. QED BY <2>1, <2>2
<1>3. IInv /\ I /\ [Next]_vars =>
        [\A d \in Dirs :
           LET old == circ.half[d].delay_queue
               new == circ'.half[d].delay_queue
           IN  circ'.phase = "open" /\ Len(new) < Len(old) =>
                 \A i \in 1..(Len(old) - Len(new)) :
                   old[i].ready_tv <= wall + 2 * (UsecPerTick - 1)]_vars
  <2>. SUFFICES ASSUME IInv, I, Next, NEW d \in Dirs, circ'.phase = "open",
                       Len(circ'.half[d].delay_queue) < Len(circ.half[d].delay_queue),
                       NEW i \in 1..(Len(circ.half[d].delay_queue)
                                       - Len(circ'.half[d].delay_queue))
                PROVE  circ.half[d].delay_queue[i].ready_tv
                         <= wall + 2 * (UsecPerTick - 1)
    OBVIOUS
  <2>. DEFINE h == circ.half[d]  g == circ'.half[d]
              old == h.delay_queue  new == g.delay_queue
  <2>1. h \in Half /\ OnTime(h) /\ DirStep(d) /\ mono \in Nat /\ wall = mono
    BY IInvParts, EveryDirStep DEF IInv, CircInv, HalfInv, EnvType, AllOnTime
  <2>2. old \in Seq(Cell)
    BY <2>1 DEF Half
  <2>3. PICK n \in 0..Len(old) : MovesCells(h, g, n) /\ Due(h, n)
    <3>1. \/ SameCells(h, g) \/ AddsCell(h, g) \/ new = old
          \/ \E n \in 0..Len(old) : MovesCells(h, g, n) /\ Due(h, n)
      BY <2>1 DEF DirStep, CellStep, WriteStep, TakesCell
    <3>2. Len(new) < Len(old)
      OBVIOUS
    <3>. HIDE DEF h, g
    <3>3. ~SameCells(h, g) /\ new # old
      BY <3>2 DEF SameCells
    <3>4. ~AddsCell(h, g)
      <4>. SUFFICES ASSUME AddsCell(h, g) PROVE FALSE
        OBVIOUS
      <4>1. new = old \/ \E cell \in Cell : new = Append(old, cell)
        BY DEF AddsCell
      <4>2. Len(new) >= Len(old)
        BY <2>2, <4>1, AppendProperties
      <4>. QED BY <2>2, <3>2, <4>2, LenProperties
    <3>. QED BY <3>1, <3>3, <3>4
  <2>4. i \in 1..n /\ i \in 1..Len(old)
    <3>1. new = SubSeq(old, n + 1, Len(old))
      BY <2>3 DEF MovesCells
    <3>2. i \in 1..(Len(old) - Len(new))
      OBVIOUS
    <3>. HIDE DEF h, g, old, new
    <3>3. Len(new) = Len(old) - n
      BY <2>2, <3>1, SubSeqProperties, LenProperties
    <3>. QED BY <2>2, <3>2, <3>3, LenProperties
  <2>. HIDE DEF h, g
  <2>5. old[i] \in Cell /\ old[i].ready_tv \in Nat
    <3>1. old[i] \in Cell
      BY <2>2, <2>4, ElementOfSeq
    <3>. QED BY <3>1 DEF Cell
  <2>6. UsecPerTick \in Nat \ {0}
    BY QueueParameters
  <2>7. ASSUME i >= 2
        PROVE  old[i].ready_tv <= wall + 2 * (UsecPerTick - 1)
    <3>1. old[i].ready_tv <= wall
      BY <2>3, <2>4, <2>7 DEF Due, StopsAfter
    <3>. QED BY <2>1, <2>5, <2>6, <3>1
  <2>8. ASSUME i = 1
        PROVE  old[i].ready_tv <= wall + 2 * (UsecPerTick - 1)
    <3>1. h.expires \in Nat /\ h.delay_timer = "armed" /\ h.expires <= CurTick(mono)
      BY <2>1, <2>3 DEF Half, Due
    <3>2. old[1].ready_tv <= UsecPerTick * h.expires + (UsecPerTick - 1)
      BY <2>1, <2>2, <2>4, <3>1 DEF OnTime
    <3>3. /\ CurTick(mono) \in Nat
          /\ UsecPerTick * CurTick(mono) <= mono + (UsecPerTick - 1)
      BY <2>1, CurTickBounds
    <3>4. UsecPerTick * h.expires <= UsecPerTick * CurTick(mono)
      BY <2>6, <3>1, <3>3, TicksOrdered
    <3>5. UsecPerTick * h.expires \in Nat /\ UsecPerTick * CurTick(mono) \in Nat
      BY <2>6, <3>1, <3>3
    <3>6. old[i].ready_tv <= UsecPerTick * h.expires + (UsecPerTick - 1)
      BY <2>8, <3>2
    <3>. DEFINE t == old[i].ready_tv
                e == UsecPerTick * h.expires
                c == UsecPerTick * CurTick(mono)
    <3>7. t \in Nat /\ t <= e + (UsecPerTick - 1)
      BY <2>5, <3>6
    <3>8. e \in Nat /\ c \in Nat /\ e <= c /\ c <= mono + (UsecPerTick - 1)
      BY <3>3, <3>4, <3>5
    <3>9. wall = mono /\ mono \in Nat
      BY <2>1
    <3>10. t <= wall + 2 * (UsecPerTick - 1)
      <4>. HIDE DEF t, e, c
      <4>. QED BY <2>6, <3>7, <3>8, <3>9
    <3>. QED BY <3>10
  <2>. QED BY <2>4, <2>7, <2>8 DEF h
<1>. QED
  BY <1>1, <1>2, <1>3, InductiveInvariant, PTL DEF Spec, ReleasedOnTime
=============================================================================

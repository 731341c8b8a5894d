-------------------------- MODULE CellQueuesProofs --------------------------
(* What the operators of CellQueues preserve, one direction at a time.      *)
EXTENDS CellQueues, SequenceTheorems, TLAPS

\* Ticks are natural numbers.
LEMMA DivInNat ==
  ASSUME NEW a \in Nat, NEW b \in Nat \ {0}
  PROVE  a \div b \in Nat
  OBVIOUS

LEMMA CurTickInNat ==
  ASSUME NEW mono \in Nat
  PROVE  CurTick(mono) \in Nat
<1>1. UsecPerTick \in Nat \ {0}
  BY QueueParameters
<1>2. mono + UsecPerTick - 1 \in Nat
  BY <1>1
<1>. QED
  BY <1>1, <1>2, DivInNat DEF CurTick

\* schedule_delay_timer arms the timer and changes nothing else.
LEMMA ScheduleType ==
  ASSUME NEW h \in Half, h.delay_queue # <<>>, NEW mono \in Nat, NEW wall \in Nat
  PROVE  LET s == schedule_delay_timer(h, mono, wall) IN
         /\ s \in Half
         /\ s.delay_timer = "armed"
         /\ s.delay_queue = h.delay_queue
         /\ s.queue = h.queue
         /\ s.chan = h.chan
         /\ s.attached = h.attached
         /\ s.num_cells = h.num_cells
         /\ s.sched_pending = h.sched_pending
         /\ s.count = h.count
<1>. DEFINE wait == Head(h.delay_queue).ready_tv - wall
            delay == IF wait < 0 THEN 0 ELSE wait
            e == CurTick(mono) + delay \div UsecPerTick
<1>1. h.delay_queue \in Seq(Cell)
  BY DEF Half
<1>2. Head(h.delay_queue) \in Cell
  BY <1>1
<1>3. delay \in Nat
  BY <1>2 DEF Cell
<1>4. delay \div UsecPerTick \in Nat
  BY <1>3, QueueParameters, DivInNat
<1>5. e \in Nat
  BY <1>4, CurTickInNat
<1>6. schedule_delay_timer(h, mono, wall) =
        [h EXCEPT !.delay_timer = "armed", !.expires = e]
  BY DEF schedule_delay_timer
<1>. QED
  <2>. HIDE DEF e
  <2>. QED BY <1>5, <1>6 DEF Half

\* What marked_circuit_free_cells finds, also in the middle of an append, when
\* the new cell is queued and the circuitmux does not know it yet.
Reclaimable(h) ==
  /\ h \in Half
  /\ h.attached = (h.chan # "none")
  /\ h.chan = "open" /\ h.num_cells > 0 => h.sched_pending

\* What append_cell_to_circuit_queue finds: a channel, and a timer that is
\* not left over from a closed circuit.
Appendable(h) ==
  /\ Reclaimable(h)
  /\ h.chan # "none"
  /\ ~DelayPolicySet => h.delay_queue = <<>>
  /\ h.delay_timer = "armed" => h.delay_queue # <<>>
  /\ h.delay_timer # "fired"

\* delay_or_append_cell appends to exactly one of the queues, and leaves the
\* delay queue with a scheduled timer if it had no timer or a scheduled one.
LEMMA DelayOrAppend ==
  ASSUME NEW h, Appendable(h), NEW cell \in Cell, NEW delay \in Nat,
         NEW mono \in Nat, NEW wall \in Nat
  PROVE  LET r == delay_or_append_cell(h, cell, delay, mono, wall) IN
         /\ Appendable(r)
         /\ r.delay_queue # <<>> => r.delay_timer = "armed"
         /\ r.chan = h.chan
         /\ r.count = h.count
<1>. DEFINE r == delay_or_append_cell(h, cell, delay, mono, wall)
            ready == get_ready_timeval(h, wall, delay)
            c == [cell EXCEPT !.ready_tv = ready]
            late == [h EXCEPT !.last_ready = ready,
                              !.delay_queue = Append(@, c)]
<1>1. /\ h \in Half
      /\ h.queue \in Seq(Cell)
      /\ h.delay_queue \in Seq(Cell)
      /\ h.last_ready \in Nat
      /\ h.delay_timer \in {"none", "armed", "fired"}
  BY DEF Half, Appendable, Reclaimable
<1>2. h.delay_timer # "fired"
  BY DEF Appendable
<1>3. CASE ~DelayPolicySet
  <2>1. r = [h EXCEPT !.queue = Append(@, cell)]
    BY <1>3 DEF delay_or_append_cell
  <2>2. Append(h.queue, cell) \in Seq(Cell)
    BY <1>1
  <2>3. r \in Half
    BY <1>1, <2>1, <2>2 DEF Half
  <2>4. /\ r.delay_queue = h.delay_queue
        /\ r.delay_timer = h.delay_timer
        /\ r.chan = h.chan
        /\ r.attached = h.attached
        /\ r.num_cells = h.num_cells
        /\ r.sched_pending = h.sched_pending
        /\ r.count = h.count
    BY <1>1, <2>1 DEF Half
  <2>. HIDE DEF r
  <2>5. Reclaimable(r)
    BY <2>3, <2>4, Zenon DEF Appendable, Reclaimable
  <2>. QED
    BY <1>2, <1>3, <2>4, <2>5 DEF Appendable, r
<1>4. CASE DelayPolicySet
  <2>1. ready \in Nat
    BY <1>1 DEF get_ready_timeval
  <2>2. c \in Cell
    <3>. HIDE DEF ready
    <3>. QED BY <2>1 DEF Cell
  <2>3. Append(h.delay_queue, c) \in Seq(Cell)
    <3>. HIDE DEF c
    <3>. QED BY <1>1, <2>2, AppendProperties
  <2>4. Append(h.delay_queue, c) # <<>>
    <3>. HIDE DEF c
    <3>. QED BY <1>1, <2>2, AppendProperties
  <2>5. /\ late \in Half
        /\ late.delay_queue # <<>>
        /\ late.delay_timer = h.delay_timer
        /\ late.chan = h.chan
        /\ late.attached = h.attached
        /\ late.num_cells = h.num_cells
        /\ late.sched_pending = h.sched_pending
        /\ late.count = h.count
    <3>. DEFINE q == Append(h.delay_queue, c)
    <3>1. late = [h EXCEPT !.last_ready = ready, !.delay_queue = q]
      OBVIOUS
    <3>2. q \in Seq(Cell) /\ q # <<>>
      BY <2>3, <2>4
    <3>. HIDE DEF c, ready, q, late
    <3>. QED BY <1>1, <2>1, <3>1, <3>2 DEF Half
  <2>6. r = IF h.delay_timer = "none"
            THEN schedule_delay_timer(late, mono, wall) ELSE late
    BY <1>4 DEF delay_or_append_cell
  <2>. HIDE DEF r, late
  <2>7. CASE h.delay_timer = "none"
    <3>1. /\ r \in Half
          /\ r.delay_timer = "armed"
          /\ r.delay_queue = late.delay_queue
          /\ r.chan = late.chan
          /\ r.attached = late.attached
          /\ r.num_cells = late.num_cells
          /\ r.sched_pending = late.sched_pending
          /\ r.count = late.count
      <4>1. r = schedule_delay_timer(late, mono, wall)
        BY <2>6, <2>7
      <4>2. late \in Half /\ late.delay_queue # <<>>
        BY <2>5
      <4>. HIDE DEF r, late
      <4>. QED BY <4>1, <4>2, ScheduleType
    <3>2. Reclaimable(r)
      BY <2>5, <3>1, Zenon DEF Appendable, Reclaimable
    <3>. QED
      BY <1>4, <2>5, <3>1, <3>2 DEF Appendable, r
  <2>8. CASE h.delay_timer = "armed"
    <3>1. r = late
      BY <2>6, <2>8
    <3>2. Reclaimable(r)
      BY <2>5, <3>1, Zenon DEF Appendable, Reclaimable
    <3>. QED
      BY <1>4, <2>5, <2>8, <3>1, <3>2 DEF Appendable, r
  <2>. QED
    BY <1>1, <1>2, <2>7, <2>8
<1>. QED
  BY <1>3, <1>4, QueueParameters

\* append_cell_to_circuit_queue re-establishes the whole invariant of its
\* direction, also when the channel was set just before.
LEMMA AppendTail ==
  ASSUME NEW h, Appendable(h),
         h.delay_queue # <<>> => h.delay_timer = "armed"
  PROVE  LET t == append_tail(h) IN
         /\ HalfInv(t, "open")
         /\ t.chan = h.chan
         /\ t.count = h.count
<1>. DEFINE b == h.streams_blocked \/ TooManyCells(h)
            n == Len(h.queue)
            t1 == [h EXCEPT !.streams_blocked = b]
            t2 == [t1 EXCEPT !.num_cells = n]
            t3 == [t2 EXCEPT !.sched_pending = TRUE]
<1>1. h \in Half /\ h.queue \in Seq(Cell) /\ h.attached
  BY DEF Appendable, Reclaimable, Half
<1>2. n \in Nat
  BY <1>1
<1>3. b \in BOOLEAN
  OBVIOUS
<1>4. append_tail(h) = IF h.chan = "open" THEN t3 ELSE t2
  <2>1. t1 = [h EXCEPT !.streams_blocked = @ \/ TooManyCells(h)]
    BY <1>1 DEF Half
  <2>2. t1.attached /\ t1.queue = h.queue
    <3>. HIDE DEF b
    <3>. QED BY <1>1 DEF Half
  <2>3. update_circuit_on_cmux(t1) = t2
    BY <2>2 DEF update_circuit_on_cmux
  <2>4. t2.chan = h.chan
    <3>. HIDE DEF b, n
    <3>. QED BY <1>1 DEF Half
  <2>. HIDE DEF t1, t2
  <2>. QED
    BY <2>1, <2>3, <2>4 DEF append_tail, scheduler_channel_has_waiting_cells, t3
<1>5. /\ t2 \in Half /\ t3 \in Half
      /\ t2.chan = h.chan /\ t3.chan = h.chan
      /\ t2.queue = h.queue /\ t3.queue = h.queue
      /\ t2.delay_queue = h.delay_queue /\ t3.delay_queue = h.delay_queue
      /\ t2.delay_timer = h.delay_timer /\ t3.delay_timer = h.delay_timer
      /\ t2.attached = h.attached /\ t3.attached = h.attached
      /\ t2.num_cells = n /\ t3.num_cells = n
      /\ t2.count = h.count /\ t3.count = h.count
      /\ t3.sched_pending
  <2>. HIDE DEF b, n
  <2>. QED BY <1>1, <1>2, <1>3 DEF Half
<1>. DEFINE t == append_tail(h)
<1>6. /\ t \in Half
      /\ t.chan = h.chan
      /\ t.queue = h.queue
      /\ t.delay_queue = h.delay_queue
      /\ t.delay_timer = h.delay_timer
      /\ t.attached
      /\ t.num_cells = Len(t.queue)
      /\ t.count = h.count
      /\ t.chan = "open" => t.sched_pending
  <2>. HIDE DEF t2, t3, t
  <2>1. n = Len(h.queue)
    OBVIOUS
  <2>. QED BY <1>1, <1>4, <1>5, <2>1 DEF t
<1>. HIDE DEF t
<1>7. TimerInv(t, "open")
  BY <1>6 DEF TimerInv, Appendable
<1>8. MuxInv(t, "open")
  <2>1. t.num_cells \in Nat /\ t.attached = TRUE /\ t.chan # "none"
    BY <1>6 DEF Appendable, Half
  <2>2. t.attached = (t.chan # "none")
    BY <2>1
  <2>3. t.num_cells >= Len(t.queue)
    BY <1>6, <2>1
  <2>. QED
    BY <1>6, <2>1, <2>2, <2>3, Zenon DEF MuxInv
<1>9. FreedInv(t, "open")
  BY DEF FreedInv
<1>. QED
  BY <1>6, <1>7, <1>8, <1>9 DEF HalfInv, t

LEMMA AppendCell ==
  ASSUME NEW h, Appendable(h), NEW command \in Commands, NEW delay \in Nat,
         NEW mono \in Nat, NEW wall \in Nat
  PROVE  LET added == cell_queue_append_packed_copy(h, command, delay, mono, wall)
         IN  /\ Appendable(added)
             /\ added.chan = h.chan
             /\ HalfInv(append_tail(added), "open")
             /\ append_tail(added).chan = h.chan
<1>. DEFINE k == h.count + 1
            numbered == [h EXCEPT !.count = k]
            cell == [seq |-> k, circ_id |-> h.circ_id,
                     command |-> command, ready_tv |-> 0]
            added == delay_or_append_cell(numbered, cell, delay, mono, wall)
<1>1. h \in Half /\ k \in Nat /\ h.circ_id \in Nat
  BY DEF Appendable, Reclaimable, Half
<1>2. cell \in Cell
  <2>. HIDE DEF k
  <2>. QED BY <1>1 DEF Cell
<1>3. /\ numbered \in Half
      /\ numbered.chan = h.chan
      /\ numbered.attached = h.attached
      /\ numbered.num_cells = h.num_cells
      /\ numbered.sched_pending = h.sched_pending
      /\ numbered.delay_queue = h.delay_queue
      /\ numbered.delay_timer = h.delay_timer
  <2>. HIDE DEF k
  <2>. QED BY <1>1 DEF Half
<1>4. added = cell_queue_append_packed_copy(h, command, delay, mono, wall)
  BY DEF cell_queue_append_packed_copy
<1>. HIDE DEF numbered, cell
<1>5. Appendable(numbered)
  BY <1>3, Zenon DEF Appendable, Reclaimable
<1>6. /\ Appendable(added)
      /\ added.delay_queue # <<>> => added.delay_timer = "armed"
      /\ added.chan = h.chan
  <2>1. /\ Appendable(added)
        /\ added.delay_queue # <<>> => added.delay_timer = "armed"
        /\ added.chan = numbered.chan
    <3>. DEFINE g == numbered  x == cell
    <3>. HIDE DEF g, x
    <3>1. Appendable(g) /\ x \in Cell
      BY <1>2, <1>5 DEF g, x
    <3>2. LET r == delay_or_append_cell(g, x, delay, mono, wall) IN
         /\ Appendable(r)
         /\ r.delay_queue # <<>> => r.delay_timer = "armed"
         /\ r.chan = g.chan
         /\ r.count = g.count
      BY <3>1, DelayOrAppend
    <3>. QED BY <3>2 DEF g, x
  <2>. QED
    BY <1>3, <2>1
<1>. HIDE DEF added
<1>. QED
  BY <1>4, <1>6, AppendTail

\* What the circuitmux update, the scheduler's notification and the freeing
\* of a timer leave alone.
LEMMA SmallSteps ==
  ASSUME NEW h \in Half
  PROVE  /\ LET u == update_circuit_on_cmux(h) IN
            /\ u \in Half
            /\ u.chan = h.chan /\ u.queue = h.queue /\ u.attached = h.attached
            /\ u.delay_queue = h.delay_queue /\ u.delay_timer = h.delay_timer
            /\ h.attached => u.num_cells = Len(h.queue)
            /\ ~h.attached => u = h
         /\ LET w == scheduler_channel_has_waiting_cells(h) IN
            /\ w \in Half
            /\ w.chan = h.chan /\ w.queue = h.queue /\ w.attached = h.attached
            /\ w.delay_queue = h.delay_queue /\ w.delay_timer = h.delay_timer
            /\ w.num_cells = h.num_cells
            /\ h.chan = "open" => w.sched_pending
         /\ LET f == free_delay_timer(h) IN
            /\ f \in Half
            /\ f.chan = h.chan /\ f.queue = h.queue /\ f.attached = h.attached
            /\ f.delay_queue = h.delay_queue /\ f.delay_timer = "none"
            /\ f.num_cells = h.num_cells /\ f.sched_pending = h.sched_pending
<1>1. h.queue \in Seq(Cell)
  BY DEF Half
<1>2. Len(h.queue) \in Nat
  BY <1>1
<1>3. LET u == update_circuit_on_cmux(h) IN
      /\ u \in Half
      /\ u.chan = h.chan /\ u.queue = h.queue /\ u.attached = h.attached
      /\ u.delay_queue = h.delay_queue /\ u.delay_timer = h.delay_timer
      /\ h.attached => u.num_cells = Len(h.queue)
      /\ ~h.attached => u = h
  <2>. DEFINE n == Len(h.queue)
              m == [h EXCEPT !.num_cells = n]
  <2>1. update_circuit_on_cmux(h) = IF h.attached THEN m ELSE h
    BY DEF update_circuit_on_cmux
  <2>2. n \in Nat
    BY <1>2
  <2>3. /\ m \in Half
        /\ m.chan = h.chan /\ m.queue = h.queue /\ m.attached = h.attached
        /\ m.delay_queue = h.delay_queue /\ m.delay_timer = h.delay_timer
        /\ m.num_cells = n
    <3>. HIDE DEF n
    <3>. QED BY <2>2 DEF Half
  <2>. HIDE DEF m
  <2>. QED BY <2>1, <2>3
<1>4. LET w == scheduler_channel_has_waiting_cells(h) IN
      /\ w \in Half
      /\ w.chan = h.chan /\ w.queue = h.queue /\ w.attached = h.attached
      /\ w.delay_queue = h.delay_queue /\ w.delay_timer = h.delay_timer
      /\ w.num_cells = h.num_cells
      /\ h.chan = "open" => w.sched_pending
  BY DEF scheduler_channel_has_waiting_cells, Half
<1>5. LET f == free_delay_timer(h) IN
      /\ f \in Half
      /\ f.chan = h.chan /\ f.queue = h.queue /\ f.attached = h.attached
      /\ f.delay_queue = h.delay_queue /\ f.delay_timer = "none"
      /\ f.num_cells = h.num_cells /\ f.sched_pending = h.sched_pending
  BY DEF free_delay_timer, Half
<1>. QED
  BY <1>3, <1>4, <1>5

\* cell_ready_callback on an open circuit with its channel there leaves the
\* direction as it must be: a timer exactly when cells are left, a counter
\* that includes the released cells, and a scheduler that knows of them.
LEMMA ReleaseCells ==
  ASSUME NEW h, HalfInv(h, "open"), h.chan # "none",
         NEW n \in 0..Len(h.delay_queue), NEW mono \in Nat, NEW wall \in Nat
  PROVE  LET r == release_cells(h, n, mono, wall) IN
         HalfInv(r, "open") /\ r.chan = h.chan
<1>. DEFINE f == free_delay_timer(h)
            released == h.queue \o SubSeq(h.delay_queue, 1, n)
            left == SubSeq(h.delay_queue, n + 1, Len(h.delay_queue))
            moved == [f EXCEPT !.queue = released, !.delay_queue = left]
            u == update_circuit_on_cmux(moved)
            told == scheduler_channel_has_waiting_cells(u)
            r == release_cells(h, n, mono, wall)
<1>1. /\ h \in Half
      /\ h.queue \in Seq(Cell)
      /\ h.delay_queue \in Seq(Cell)
      /\ h.attached = TRUE
      /\ ~DelayPolicySet => h.delay_queue = <<>>
  BY DEF HalfInv, Half, MuxInv, TimerInv
<1>2. released \in Seq(Cell) /\ left \in Seq(Cell)
  BY <1>1
<1>3. ~DelayPolicySet => left = <<>>
  BY <1>1
<1>4. /\ f \in Half
      /\ f.chan = h.chan
      /\ f.queue = h.queue
      /\ f.delay_queue = h.delay_queue
      /\ f.delay_timer = "none"
      /\ f.attached = TRUE
  BY <1>1, SmallSteps
<1>5. /\ moved \in Half
      /\ moved.chan = h.chan
      /\ moved.queue = released
      /\ moved.delay_queue = left
      /\ moved.delay_timer = "none"
      /\ moved.attached = TRUE
  <2>. HIDE DEF f, released, left
  <2>. QED BY <1>2, <1>4 DEF Half
<1>6. r = IF told.delay_queue = <<>> THEN told
          ELSE schedule_delay_timer(told, mono, wall)
  <2>1. moved = moved_cells(f, n)
    <3>. HIDE DEF f
    <3>. QED BY <1>4 DEF moved_cells, Half
  <2>. HIDE DEF moved
  <2>. QED BY <2>1 DEF release_cells
<1>. HIDE DEF moved, left, released
<1>7. /\ u \in Half
      /\ u.chan = h.chan
      /\ u.queue = released
      /\ u.delay_queue = left
      /\ u.delay_timer = "none"
      /\ u.attached = TRUE
      /\ u.num_cells = Len(released)
  BY <1>5, SmallSteps
<1>. HIDE DEF u
<1>8. /\ told \in Half
      /\ told.chan = h.chan
      /\ told.queue = released
      /\ told.delay_queue = left
      /\ told.delay_timer = "none"
      /\ told.attached = TRUE
      /\ told.num_cells = Len(released)
      /\ h.chan = "open" => told.sched_pending
  BY <1>7, SmallSteps
<1>. HIDE DEF told, r
<1>9. /\ r \in Half
      /\ r.chan = h.chan
      /\ r.queue = released
      /\ r.delay_queue = left
      /\ r.delay_timer = IF left = <<>> THEN "none" ELSE "armed"
      /\ r.attached = TRUE
      /\ r.num_cells = Len(released)
      /\ h.chan = "open" => r.sched_pending
  <2>1. CASE left = <<>>
    BY <1>6, <1>8, <2>1
  <2>2. CASE left # <<>>
    BY <1>6, <1>8, <2>2, ScheduleType
  <2>. QED
    BY <2>1, <2>2
<1>10. TimerInv(r, "open")
  BY <1>3, <1>9 DEF TimerInv
<1>11. MuxInv(r, "open")
  <2>1. r.num_cells \in Nat /\ r.num_cells >= Len(r.queue)
    BY <1>9 DEF Half
  <2>2. r.attached = (r.chan # "none")
    BY <1>9
  <2>. QED
    BY <1>9, <2>1, <2>2, Zenon DEF MuxInv
<1>12. FreedInv(r, "open")
  BY DEF FreedInv
<1>. QED
  BY <1>9, <1>10, <1>11, <1>12 DEF HalfInv, r

\* Cells can be reclaimed in every phase, and a direction of an open circuit
\* is one of a marked circuit too: being marked asks for less.
LEMMA Reclaiming ==
  ASSUME NEW h, NEW phase, HalfInv(h, phase)
  PROVE  Reclaimable(h)
BY Zenon DEF HalfInv, MuxInv, Reclaimable

LEMMA Marking ==
  ASSUME NEW h, HalfInv(h, "open")
  PROVE  HalfInv(h, "marked")
BY Zenon DEF HalfInv, TimerInv, MuxInv, FreedInv

\* marked_circuit_free_cells leaves no cell and no timer.
LEMMA FreeCells ==
  ASSUME NEW h, Reclaimable(h)
  PROVE  LET f == free_cells(h) IN
         /\ HalfInv(f, "marked")
         /\ f.queue = <<>>
         /\ f.delay_queue = <<>>
         /\ f.delay_timer = "none"
         /\ f.chan = h.chan
         /\ f.attached = h.attached
<1>. DEFINE z == <<>>
            e == [h EXCEPT !.queue = z, !.delay_queue = z]
            f == free_cells(h)
<1>1. h \in Half
  BY DEF Reclaimable
<1>2. z \in Seq(Cell)
  OBVIOUS
<1>. HIDE DEF z
<1>3. /\ e \in Half
      /\ e.queue = z
      /\ e.delay_queue = z
      /\ e.chan = h.chan
      /\ e.attached = h.attached
      /\ e.num_cells = h.num_cells
      /\ e.sched_pending = h.sched_pending
  BY <1>1, <1>2 DEF Half
<1>. HIDE DEF e
<1>4. /\ f \in Half
      /\ f.queue = <<>>
      /\ f.delay_queue = <<>>
      /\ f.delay_timer = "none"
      /\ f.chan = h.chan
      /\ f.attached = h.attached
      /\ f.num_cells = h.num_cells
      /\ f.sched_pending = h.sched_pending
  BY <1>3, SmallSteps DEF free_cells, e, z
<1>. HIDE DEF f
<1>5. TimerInv(f, "marked")
  BY <1>4 DEF TimerInv
<1>6. MuxInv(f, "marked")
  <2>1. f.num_cells >= Len(f.queue)
    BY <1>4 DEF Half
  <2>2. /\ f.attached = (f.chan # "none")
        /\ f.chan = "open" /\ f.num_cells > 0 => f.sched_pending
    BY <1>4, Zenon DEF Reclaimable
  <2>. QED
    BY <2>1, <2>2, Zenon DEF MuxInv
<1>. QED
  BY <1>4, <1>5, <1>6, Zenon DEF HalfInv, FreedInv, f

\* Letting go of a channel on a circuit that is or gets marked.
LEMMA ClearChan ==
  ASSUME NEW h, NEW phase \in {"open", "marked"}, HalfInv(h, phase)
  PROVE  LET r == clear_circid_chan(h) IN
         /\ HalfInv(r, "marked")
         /\ r.chan = "none"
         /\ r.queue = h.queue
<1>. DEFINE r == clear_circid_chan(h)
<1>1. h \in Half /\ TimerInv(h, phase)
  BY DEF HalfInv
<1>2. /\ r \in Half
      /\ r.chan = "none"
      /\ r.queue = h.queue
      /\ r.delay_queue = h.delay_queue
      /\ r.delay_timer = h.delay_timer
      /\ r.attached = FALSE
  BY <1>1 DEF clear_circid_chan, detach, Half
<1>. HIDE DEF r
<1>3. TimerInv(r, "marked")
  BY <1>1, <1>2 DEF TimerInv
<1>4. MuxInv(r, "marked")
  BY <1>2 DEF MuxInv
<1>. QED
  BY <1>2, <1>3, <1>4, Zenon DEF HalfInv, FreedInv, r

\* circuit_free_: with the channels cleared and the cells freed, nothing is
\* left in either direction.
LEMMA FreeHalf ==
  ASSUME NEW h, HalfInv(h, "marked")
  PROVE  HalfInv(free_cells(clear_circid_chan(h)), "freed")
<1>. DEFINE r == clear_circid_chan(h)
            f == free_cells(r)
<1>1. HalfInv(r, "marked") /\ r.chan = "none"
  BY ClearChan
<1>. HIDE DEF r
<1>2. /\ HalfInv(f, "marked")
      /\ f.queue = <<>>
      /\ f.delay_queue = <<>>
      /\ f.delay_timer = "none"
      /\ f.chan = "none"
  BY <1>1, Reclaiming, FreeCells
<1>. HIDE DEF f
<1>. QED
  BY <1>2 DEF HalfInv, TimerInv, MuxInv, FreedInv, f, r

\* RELAY_COMMAND_TRUNCATE: the direction has no channel and no cell for one
\* in the main queue; the delay queue and its timer stay.
LEMMA CutHalf ==
  ASSUME NEW h, HalfInv(h, "open")
  PROVE  LET r == clear_circid_chan(circuit_clear_cell_queue(h)) IN
         HalfInv(r, "open") /\ r.chan = "none"
<1>. DEFINE z == <<>>
            e == [h EXCEPT !.queue = z]
            u == update_circuit_on_cmux(e)
            r == clear_circid_chan(u)
<1>1. h \in Half /\ TimerInv(h, "open")
  BY DEF HalfInv
<1>2. z \in Seq(Cell)
  OBVIOUS
<1>. HIDE DEF z
<1>3. /\ e \in Half
      /\ e.queue = z
      /\ e.delay_queue = h.delay_queue
      /\ e.delay_timer = h.delay_timer
  BY <1>1, <1>2 DEF Half
<1>. HIDE DEF e
<1>4. /\ u \in Half
      /\ u.queue = z
      /\ u.delay_queue = h.delay_queue
      /\ u.delay_timer = h.delay_timer
  BY <1>3, SmallSteps
<1>. HIDE DEF u
<1>5. /\ r \in Half
      /\ r.chan = "none"
      /\ r.queue = z
      /\ r.delay_queue = h.delay_queue
      /\ r.delay_timer = h.delay_timer
      /\ r.attached = FALSE
  BY <1>4 DEF clear_circid_chan, detach, Half
<1>. HIDE DEF r
<1>6. TimerInv(r, "open")
  BY <1>1, <1>5 DEF TimerInv
<1>7. MuxInv(r, "open")
  BY <1>5 DEF MuxInv, z
<1>. QED
  BY <1>5, <1>6, <1>7, Zenon DEF HalfInv, FreedInv, r, u, e, z, circuit_clear_cell_queue

\* A fresh channel makes a direction ready for its first cell.
LEMMA SetChan ==
  ASSUME NEW h, HalfInv(h, "open"), h.chan = "none", NEW id \in Nat
  PROVE  LET r == set_circid_chan(h, id) IN
         /\ Appendable(r)
         /\ HalfInv(r, "marked")
         /\ r.chan = "open"
         /\ r.queue = <<>>
<1>. DEFINE n == Len(h.queue)
            r == [h EXCEPT !.chan = "open", !.circ_id = id,
                           !.attached = TRUE, !.num_cells = n]
<1>1. h \in Half /\ h.queue = <<>> /\ h.delay_timer # "fired"
  BY DEF HalfInv, MuxInv, TimerInv
<1>2. n = 0
  BY <1>1
<1>3. /\ r \in Half
      /\ r.chan = "open"
      /\ r.queue = h.queue
      /\ r.delay_queue = h.delay_queue
      /\ r.delay_timer = h.delay_timer
      /\ r.attached = TRUE
      /\ r.num_cells = 0
  <2>. HIDE DEF n
  <2>. QED BY <1>1, <1>2 DEF Half
<1>. HIDE DEF r
<1>4. /\ r.attached = (r.chan # "none")
      /\ r.chan # "none"
      /\ ~(r.num_cells > 0)
      /\ r.num_cells >= Len(r.queue)
  <2>1. r.num_cells = 0 /\ Len(r.queue) = 0
    BY <1>2, <1>3
  <2>2. r.attached = (r.chan # "none") /\ r.chan # "none"
    BY <1>3
  <2>3. ~(r.num_cells > 0) /\ r.num_cells >= Len(r.queue)
    BY <2>1
  <2>. QED
    BY <2>2, <2>3
<1>5. Appendable(r)
  <2>1. Reclaimable(r)
    BY <1>3, <1>4, Zenon DEF Reclaimable
  <2>. QED
    BY <1>1, <1>3, <2>1 DEF Appendable, HalfInv, TimerInv
<1>6. HalfInv(r, "marked")
  <2>1. TimerInv(r, "marked")
    BY <1>1, <1>3 DEF HalfInv, TimerInv
  <2>2. MuxInv(r, "marked")
    BY <1>4, Zenon DEF MuxInv
  <2>. QED
    BY <1>3, <2>1, <2>2, Zenon DEF HalfInv, FreedInv
<1>. QED
  BY <1>1, <1>3, <1>5, <1>6 DEF set_circid_chan, r

\* A direction of an open circuit with a channel can take a cell.
LEMMA OpenIsAppendable ==
  ASSUME NEW h, HalfInv(h, "open"), h.chan # "none"
  PROVE  Appendable(h)
BY DEF HalfInv, TimerInv, MuxInv, Appendable, Reclaimable

\* One cell of this circuit written to its channel.
LEMMA FlushCell ==
  ASSUME NEW h, NEW phase \in {"open", "marked"}, HalfInv(h, phase),
         h.chan = "open", h.sched_pending, h.queue # <<>>
  PROVE  LET f == flush_cell(h) IN
         HalfInv(f, phase) /\ f.chan = "open" /\ f.queue = Tail(h.queue)
<1>. DEFINE q == Tail(h.queue)
            n == Len(h.queue) - 1
            popped == [h EXCEPT !.queue = q, !.num_cells = n]
            b == h.streams_blocked /\ ~(Len(q) <= LowWater)
            f == [popped EXCEPT !.streams_blocked = b]
<1>1. /\ h \in Half
      /\ h.queue \in Seq(Cell)
      /\ h.attached = TRUE
      /\ h.delay_timer \in {"none", "armed", "fired"}
      /\ TimerInv(h, phase)
  BY DEF HalfInv, MuxInv, Half
<1>2. q \in Seq(Cell) /\ n \in Nat /\ n = Len(q)
  BY <1>1
<1>3. b \in BOOLEAN
  BY <1>1 DEF Half
<1>4. flush_cell(h) = f
  <2>1. popped.queue = q /\ popped.streams_blocked = h.streams_blocked
    <3>. HIDE DEF q, n
    <3>. QED BY <1>1 DEF Half
  <2>2. popped = [h EXCEPT !.queue = Tail(@), !.num_cells = Len(h.queue) - 1]
    OBVIOUS
  <2>3. f = [popped EXCEPT !.streams_blocked = @ /\ ~(Len(popped.queue) <= LowWater)]
    <3>. HIDE DEF popped, q, n
    <3>. QED BY <2>1
  <2>. HIDE DEF popped, f
  <2>. QED BY <2>2, <2>3 DEF flush_cell
<1>5. /\ f \in Half
      /\ f.chan = "open"
      /\ f.queue = q
      /\ f.delay_queue = h.delay_queue
      /\ f.delay_timer = h.delay_timer
      /\ f.attached = TRUE
      /\ f.num_cells = n
      /\ f.sched_pending = h.sched_pending
  <2>. HIDE DEF q, n, b
  <2>. QED BY <1>1, <1>2, <1>3 DEF Half
<1>. HIDE DEF f, q, n
<1>6. TimerInv(f, phase)
  BY <1>1, <1>5 DEF TimerInv
<1>7. MuxInv(f, phase)
  <2>1. f.num_cells >= Len(f.queue) /\ f.num_cells = Len(f.queue)
    BY <1>2, <1>5
  <2>2. f.attached = (f.chan # "none") /\ f.chan # "none"
    BY <1>5
  <2>. QED
    BY <1>5, <2>1, <2>2, Zenon DEF MuxInv
<1>8. FreedInv(f, phase)
  BY DEF FreedInv
<1>. QED
  BY <1>4, <1>5, <1>6, <1>7, <1>8 DEF HalfInv, q

\* The small steps of the flush, the scheduler and the channel.
LEMMA ChannelSteps ==
  ASSUME NEW h, NEW phase \in {"open", "marked"}, HalfInv(h, phase)
  PROVE  /\ h.chan = "open"
              => HalfInv(channel_closing(h), phase)
                 /\ channel_closing(h).chan = "closing"
         /\ h.num_cells = 0
              => HalfInv(scheduler_idle(h), phase)
                 /\ scheduler_idle(h).chan = h.chan
         /\ h.chan = "open" /\ h.queue = <<>>
              => HalfInv(flush_empty(h), "marked")
         /\ h.chan = "open"
              => HalfInv(flush_fails(h), "marked")
         /\ phase = "marked" /\ h.delay_timer = "armed"
              => HalfInv(leave_fired_timer(h), phase)
         /\ phase = "open" /\ h.chan = "none"
              => HalfInv(free_delay_timer(h), phase)
                 /\ free_delay_timer(h).chan = "none"
<1>1. /\ h \in Half
      /\ h.queue \in Seq(Cell)
      /\ h.num_cells \in Nat
      /\ TimerInv(h, phase)
      /\ MuxInv(h, phase)
  BY DEF HalfInv, Half
<1>2. Len(h.queue) \in Nat
  BY <1>1
<1>3. ASSUME h.chan = "open"
      PROVE  HalfInv(channel_closing(h), phase) /\ channel_closing(h).chan = "closing"
  <2>. DEFINE r == channel_closing(h)
  <2>1. /\ r \in Half
        /\ r.chan = "closing"
        /\ r.queue = h.queue
        /\ r.delay_queue = h.delay_queue
        /\ r.delay_timer = h.delay_timer
        /\ r.attached = h.attached
        /\ r.num_cells = h.num_cells
    BY <1>1 DEF channel_closing, Half
  <2>. HIDE DEF r
  <2>2. TimerInv(r, phase)
    BY <1>1, <1>3, <2>1 DEF TimerInv
  <2>3. MuxInv(r, phase)
    BY <1>1, <1>3, <2>1, Zenon DEF MuxInv
  <2>. QED
    BY <2>1, <2>2, <2>3 DEF HalfInv, FreedInv, r
<1>4. ASSUME h.num_cells = 0
      PROVE  HalfInv(scheduler_idle(h), phase) /\ scheduler_idle(h).chan = h.chan
  <2>. DEFINE r == scheduler_idle(h)
  <2>1. /\ r \in Half
        /\ r.chan = h.chan
        /\ r.queue = h.queue
        /\ r.delay_queue = h.delay_queue
        /\ r.delay_timer = h.delay_timer
        /\ r.attached = h.attached
        /\ r.num_cells = h.num_cells
    BY <1>1 DEF scheduler_idle, Half
  <2>. HIDE DEF r
  <2>2. TimerInv(r, phase)
    BY <1>1, <2>1 DEF TimerInv
  <2>3. ~(r.num_cells > 0)
    BY <1>4, <2>1
  <2>4. MuxInv(r, phase)
    BY <1>1, <2>1, <2>3, Zenon DEF MuxInv
  <2>. QED
    BY <2>1, <2>2, <2>4 DEF HalfInv, FreedInv, r
<1>5. ASSUME h.chan = "open", h.queue = <<>>
      PROVE  HalfInv(flush_empty(h), "marked")
  <2>. DEFINE r == flush_empty(h)
  <2>1. /\ r \in Half
        /\ r.chan = "open"
        /\ r.queue = h.queue
        /\ r.delay_queue = h.delay_queue
        /\ r.delay_timer = h.delay_timer
        /\ r.attached = h.attached
        /\ r.num_cells = 0
    BY <1>1, <1>5 DEF flush_empty, Half
  <2>. HIDE DEF r
  <2>2. TimerInv(r, "marked")
    BY <1>1, <2>1 DEF TimerInv
  <2>3. ~(r.num_cells > 0) /\ r.num_cells >= Len(r.queue)
    BY <1>5, <2>1
  <2>4. MuxInv(r, "marked")
    BY <1>1, <1>5, <2>1, <2>3, Zenon DEF MuxInv
  <2>. QED
    BY <2>1, <2>2, <2>4 DEF HalfInv, FreedInv, r
<1>6. ASSUME h.chan = "open"
      PROVE  HalfInv(flush_fails(h), "marked")
  <2>. DEFINE z == <<>>
              e == [h EXCEPT !.queue = z, !.num_cells = 0]
              r == [e EXCEPT !.chan = "closing", !.sched_pending = FALSE]
  <2>1. z \in Seq(Cell) /\ Len(z) = 0
    OBVIOUS
  <2>2. flush_fails(h) = r
    BY DEF flush_fails, channel_closing
  <2>. HIDE DEF z
  <2>3. /\ r \in Half
        /\ r.chan = "closing"
        /\ r.queue = z
        /\ r.delay_queue = h.delay_queue
        /\ r.delay_timer = h.delay_timer
        /\ r.attached = h.attached
        /\ r.num_cells = 0
    BY <1>1, <2>1 DEF Half
  <2>. HIDE DEF r
  <2>4. TimerInv(r, "marked")
    BY <1>1, <2>3 DEF TimerInv
  <2>5. r.num_cells >= Len(r.queue)
    BY <2>1, <2>3
  <2>6. MuxInv(r, "marked")
    BY <1>1, <1>6, <2>3, <2>5, Zenon DEF MuxInv
  <2>. QED
    BY <2>2, <2>3, <2>4, <2>6 DEF HalfInv, FreedInv
<1>7. ASSUME phase = "marked", h.delay_timer = "armed"
      PROVE  HalfInv(leave_fired_timer(h), phase)
  <2>. DEFINE r == leave_fired_timer(h)
  <2>1. /\ r \in Half
        /\ r.chan = h.chan
        /\ r.queue = h.queue
        /\ r.delay_queue = h.delay_queue
        /\ r.delay_timer = "fired"
        /\ r.attached = h.attached
        /\ r.num_cells = h.num_cells
        /\ r.sched_pending = h.sched_pending
    BY <1>1 DEF leave_fired_timer, Half
  <2>. HIDE DEF r
  <2>2. TimerInv(r, phase)
    BY <1>1, <1>7, <2>1 DEF TimerInv
  <2>3. MuxInv(r, phase)
    BY <1>1, <2>1, Zenon DEF MuxInv
  <2>. QED
    BY <2>1, <2>2, <2>3 DEF HalfInv, FreedInv, r
<1>8. ASSUME phase = "open", h.chan = "none"
      PROVE  HalfInv(free_delay_timer(h), phase) /\ free_delay_timer(h).chan = "none"
  <2>. DEFINE r == free_delay_timer(h)
  <2>1. /\ r \in Half
        /\ r.chan = h.chan
        /\ r.queue = h.queue
        /\ r.attached = h.attached
        /\ r.delay_queue = h.delay_queue
        /\ r.delay_timer = "none"
        /\ r.num_cells = h.num_cells
        /\ r.sched_pending = h.sched_pending
    BY <1>1, SmallSteps
  <2>. HIDE DEF r
  <2>2. TimerInv(r, phase)
    BY <1>1, <1>8, <2>1 DEF TimerInv
  <2>3. MuxInv(r, phase)
    BY <1>1, <2>1, Zenon DEF MuxInv
  <2>. QED
    BY <1>8, <2>1, <2>2, <2>3 DEF HalfInv, FreedInv, r
<1>. QED
  BY <1>3, <1>4, <1>5, <1>6, <1>7, <1>8

\* A channel that is gone cannot be in the scheduler's list for long.
LEMMA IdleFreed ==
  ASSUME NEW h, HalfInv(h, "freed")
  PROVE  HalfInv(scheduler_idle(h), "freed")
<1>. DEFINE r == scheduler_idle(h)
<1>1. h \in Half /\ h.chan = "none"
  BY DEF HalfInv, FreedInv
<1>2. /\ r \in Half
      /\ r.chan = h.chan
      /\ r.queue = h.queue
      /\ r.delay_queue = h.delay_queue
      /\ r.delay_timer = h.delay_timer
      /\ r.attached = h.attached
      /\ r.num_cells = h.num_cells
  BY <1>1 DEF scheduler_idle, Half
<1>. HIDE DEF r
<1>3. TimerInv(r, "freed")
  BY <1>2 DEF HalfInv, TimerInv
<1>4. MuxInv(r, "freed")
  BY <1>1, <1>2, Zenon DEF HalfInv, MuxInv
<1>5. FreedInv(r, "freed")
  BY <1>2 DEF HalfInv, FreedInv
<1>. QED
  BY <1>2, <1>3, <1>4, <1>5 DEF HalfInv, r

-----------------------------------------------------------------------------
(* What the operators do to the cells themselves: their order, their ready  *)
(* times and the block on the streams.                                      *)

\* The step leaves the cells of the direction alone.
SameCells(h, g) ==
  /\ g.queue = h.queue
  /\ g.delay_queue = h.delay_queue
  /\ g.count = h.count
  /\ g.last_ready = h.last_ready
  /\ g.streams_blocked = h.streams_blocked

\* The step accepts one cell, into exactly one of the queues.
AddsCell(h, g) ==
  \E cell \in Cell :
    /\ cell.seq = h.count + 1
    /\ g.count = h.count + 1
    /\ \/ /\ h.delay_queue = <<>>
          /\ g.delay_queue = <<>>
          /\ g.queue = Append(h.queue, cell)
          /\ g.last_ready = h.last_ready
       \/ /\ g.queue = h.queue
          /\ g.delay_queue = Append(h.delay_queue, cell)
          /\ cell.ready_tv = g.last_ready
          /\ g.last_ready >= h.last_ready

\* The n oldest delayed cells are released.
MovesCells(h, g, n) ==
  /\ g.queue = h.queue \o SubSeq(h.delay_queue, 1, n)
  /\ g.delay_queue = SubSeq(h.delay_queue, n + 1, Len(h.delay_queue))
  /\ g.count = h.count
  /\ g.last_ready = h.last_ready
  /\ g.streams_blocked = h.streams_blocked

\* The oldest cell of the main queue is taken.
TakesCell(h, g) ==
  /\ h.queue # <<>>
  /\ g.queue = Tail(h.queue)
  /\ g.delay_queue = h.delay_queue
  /\ g.count = h.count
  /\ g.last_ready = h.last_ready
  /\ g.streams_blocked => h.streams_blocked /\ g.queue # <<>>

\* The main queue is emptied, the delay queue perhaps as well.
DropsCells(h, g) ==
  /\ g.queue = <<>>
  /\ g.delay_queue \in {h.delay_queue, <<>>}
  /\ g.count = h.count
  /\ g.last_ready = h.last_ready
  /\ g.streams_blocked = h.streams_blocked

\* The operators that only deal with timers, channels and the scheduler.
LEMMA QuietSteps ==
  ASSUME NEW h \in Half, NEW id \in Nat
  PROVE  /\ SameCells(h, free_delay_timer(h))
         /\ SameCells(h, leave_fired_timer(h))
         /\ SameCells(h, scheduler_channel_has_waiting_cells(h))
         /\ SameCells(h, update_circuit_on_cmux(h))
         /\ SameCells(h, scheduler_idle(h))
         /\ SameCells(h, flush_empty(h))
         /\ SameCells(h, channel_closing(h))
         /\ SameCells(h, set_circid_chan(h, id))
         /\ SameCells(h, clear_circid_chan(h))
<1>. DEFINE n == Len(h.queue)
<1>1. SameCells(h, update_circuit_on_cmux(h))
  <2>1. update_circuit_on_cmux(h) = IF h.attached THEN [h EXCEPT !.num_cells = n] ELSE h
    BY DEF update_circuit_on_cmux
  <2>. HIDE DEF n
  <2>. QED BY <2>1 DEF SameCells, Half
<1>2. SameCells(h, set_circid_chan(h, id))
  <2>1. set_circid_chan(h, id) =
          [h EXCEPT !.chan = "open", !.circ_id = id, !.attached = TRUE,
                    !.num_cells = n]
    BY DEF set_circid_chan
  <2>. HIDE DEF n
  <2>. QED BY <2>1 DEF SameCells, Half
<1>3. /\ SameCells(h, free_delay_timer(h))
      /\ SameCells(h, leave_fired_timer(h))
      /\ SameCells(h, scheduler_channel_has_waiting_cells(h))
      /\ SameCells(h, scheduler_idle(h))
      /\ SameCells(h, flush_empty(h))
      /\ SameCells(h, channel_closing(h))
  BY DEF SameCells, Half, free_delay_timer, leave_fired_timer, scheduler_idle,
         scheduler_channel_has_waiting_cells, flush_empty, channel_closing
<1>4. SameCells(h, clear_circid_chan(h))
  BY DEF SameCells, Half, clear_circid_chan, detach
<1>. QED BY <1>1, <1>2, <1>3, <1>4

\* So is the start of a timer.
LEMMA ScheduleQuiet ==
  ASSUME NEW h \in Half, NEW mono \in Nat, NEW wall \in Nat
  PROVE  SameCells(h, schedule_delay_timer(h, mono, wall))
<1>. DEFINE wait == Head(h.delay_queue).ready_tv - wall
            delay == IF wait < 0 THEN 0 ELSE wait
            e == CurTick(mono) + delay \div UsecPerTick
<1>1. schedule_delay_timer(h, mono, wall) =
        [h EXCEPT !.delay_timer = "armed", !.expires = e]
  BY DEF schedule_delay_timer
<1>. HIDE DEF e
<1>. QED BY <1>1 DEF SameCells, Half

\* delay_or_append_cell puts the cell in one queue; in the delay queue its
\* ready time is not before that of any cell in front of it.
LEMMA DelayOrAppendAdds ==
  ASSUME NEW h \in Half, NEW cell \in Cell, NEW delay \in Nat,
         ~DelayPolicySet => h.delay_queue = <<>>,
         NEW mono \in Nat, NEW wall \in Nat
  PROVE  LET r == delay_or_append_cell(h, cell, delay, mono, wall) IN
         /\ r.count = h.count
         /\ r.streams_blocked = h.streams_blocked
         /\ \E c \in Cell :
              /\ c.seq = cell.seq
              /\ \/ /\ h.delay_queue = <<>>
                    /\ r.delay_queue = <<>>
                    /\ r.queue = Append(h.queue, c)
                    /\ r.last_ready = h.last_ready
                 \/ /\ r.queue = h.queue
                    /\ r.delay_queue = Append(h.delay_queue, c)
                    /\ c.ready_tv = r.last_ready
                    /\ r.last_ready >= h.last_ready
<1>. DEFINE r == delay_or_append_cell(h, cell, delay, mono, wall)
            ready == get_ready_timeval(h, wall, delay)
            c == [cell EXCEPT !.ready_tv = ready]
            q == Append(h.delay_queue, c)
            p == Append(h.queue, cell)
            late == [h EXCEPT !.last_ready = ready, !.delay_queue = q]
<1>1. /\ h.queue \in Seq(Cell)
      /\ h.delay_queue \in Seq(Cell)
      /\ h.last_ready \in Nat
  BY DEF Half
<1>2. CASE ~DelayPolicySet
  <2>1. r = [h EXCEPT !.queue = p]
    BY <1>2 DEF delay_or_append_cell
  <2>2. p = Append(h.queue, cell)
    OBVIOUS
  <2>. HIDE DEF p, r
  <2>3. /\ r.queue = p
        /\ r.delay_queue = h.delay_queue
        /\ r.last_ready = h.last_ready
        /\ r.count = h.count
        /\ r.streams_blocked = h.streams_blocked
    BY <2>1 DEF Half
  <2>. QED
    BY <1>2, <2>2, <2>3 DEF r
<1>3. CASE DelayPolicySet
  <2>1. ready \in Nat /\ ready >= h.last_ready
    BY <1>1 DEF get_ready_timeval
  <2>2. c \in Cell /\ c.seq = cell.seq /\ c.ready_tv = ready
    <3>. HIDE DEF ready
    <3>. QED BY <2>1 DEF Cell
  <2>3. q \in Seq(Cell)
    <3>. HIDE DEF c
    <3>. QED BY <1>1, <2>2, AppendProperties
  <2>4. r = IF h.delay_timer = "none"
            THEN schedule_delay_timer(late, mono, wall) ELSE late
    BY <1>3 DEF delay_or_append_cell
  <2>5. q = Append(h.delay_queue, c)
    OBVIOUS
  <2>. HIDE DEF c, q, ready
  <2>6. /\ late \in Half
        /\ late.queue = h.queue
        /\ late.delay_queue = q
        /\ late.last_ready = ready
        /\ late.count = h.count
        /\ late.streams_blocked = h.streams_blocked
    BY <2>1, <2>3 DEF Half
  <2>. HIDE DEF late, r
  <2>7. /\ r.queue = late.queue
        /\ r.delay_queue = late.delay_queue
        /\ r.last_ready = late.last_ready
        /\ r.count = late.count
        /\ r.streams_blocked = late.streams_blocked
    BY <2>4, <2>6, ScheduleQuiet DEF SameCells
  <2>. QED
    BY <2>1, <2>2, <2>5, <2>6, <2>7 DEF r
<1>. QED
  BY <1>2, <1>3, QueueParameters

\* append_cell_to_circuit_queue up to the check of memory, and to its end.  A
\* direction that is blocked afterwards has the new cell to wait for.
LEMMA AppendAdds ==
  ASSUME NEW h, Appendable(h), NEW command \in Commands, NEW delay \in Nat,
         NEW mono \in Nat, NEW wall \in Nat
  PROVE  LET added == cell_queue_append_packed_copy(h, command, delay, mono, wall)
             done  == append_tail(added)
         IN  /\ AddsCell(h, added)
             /\ AddsCell(h, done)
             /\ h.streams_blocked => done.streams_blocked
<1>. DEFINE k == h.count + 1
            numbered == [h EXCEPT !.count = k]
            cell == [seq |-> k, circ_id |-> h.circ_id,
                     command |-> command, ready_tv |-> 0]
            added == delay_or_append_cell(numbered, cell, delay, mono, wall)
            b == added.streams_blocked \/ TooManyCells(added)
            t1 == [added EXCEPT !.streams_blocked = b]
            u == update_circuit_on_cmux(t1)
            done == append_tail(added)
<1>1. /\ h \in Half /\ k \in Nat /\ h.circ_id \in Nat
      /\ ~DelayPolicySet => h.delay_queue = <<>>
  BY DEF Appendable, Reclaimable, Half
<1>2. cell \in Cell /\ cell.seq = k
  <2>. HIDE DEF k
  <2>. QED BY <1>1 DEF Cell
<1>3. /\ numbered \in Half
      /\ numbered.queue = h.queue
      /\ numbered.delay_queue = h.delay_queue
      /\ numbered.last_ready = h.last_ready
      /\ numbered.streams_blocked = h.streams_blocked
      /\ numbered.count = k
  <2>. HIDE DEF k
  <2>. QED BY <1>1 DEF Half
<1>4. added = cell_queue_append_packed_copy(h, command, delay, mono, wall)
  BY DEF cell_queue_append_packed_copy
<1>. HIDE DEF numbered, cell
<1>5. /\ added.count = k
      /\ added.streams_blocked = h.streams_blocked
      /\ \E c \in Cell :
           /\ c.seq = k
           /\ \/ /\ h.delay_queue = <<>>
                 /\ added.delay_queue = <<>>
                 /\ added.queue = Append(h.queue, c)
                 /\ added.last_ready = h.last_ready
              \/ /\ added.queue = h.queue
                 /\ added.delay_queue = Append(h.delay_queue, c)
                 /\ c.ready_tv = added.last_ready
                 /\ added.last_ready >= h.last_ready
  <2>. DEFINE g == numbered  x == cell
              r == delay_or_append_cell(g, x, delay, mono, wall)
  <2>1. g \in Half /\ x \in Cell /\ (~DelayPolicySet => g.delay_queue = <<>>)
    BY <1>1, <1>2, <1>3
  <2>2. r = added
    OBVIOUS
  <2>. HIDE DEF g, x, added
  <2>3. /\ r.count = g.count
        /\ r.streams_blocked = g.streams_blocked
        /\ \E c \in Cell :
             /\ c.seq = x.seq
             /\ \/ /\ g.delay_queue = <<>>
                   /\ r.delay_queue = <<>>
                   /\ r.queue = Append(g.queue, c)
                   /\ r.last_ready = g.last_ready
                \/ /\ r.queue = g.queue
                   /\ r.delay_queue = Append(g.delay_queue, c)
                   /\ c.ready_tv = r.last_ready
                   /\ r.last_ready >= g.last_ready
    BY <2>1, DelayOrAppendAdds
  <2>. HIDE DEF r
  <2>4. g = numbered /\ x = cell
    BY DEF g, x
  <2>. QED BY <1>2, <1>3, <2>2, <2>3, <2>4
<1>6. AddsCell(h, added)
  <2>. HIDE DEF added
  <2>. QED BY <1>5 DEF AddsCell
<1>7. added \in Half
  <2>1. Appendable(added)
    BY <1>4, AppendCell
  <2>. HIDE DEF added
  <2>. QED BY <2>1 DEF Appendable, Reclaimable
<1>. HIDE DEF added
<1>8. b \in BOOLEAN /\ (added.streams_blocked => b)
  OBVIOUS
<1>9. t1 = [added EXCEPT !.streams_blocked = @ \/ TooManyCells(added)]
  BY <1>7 DEF Half
<1>. HIDE DEF b
<1>10. /\ t1 \in Half
       /\ t1.queue = added.queue
       /\ t1.delay_queue = added.delay_queue
       /\ t1.count = added.count
       /\ t1.last_ready = added.last_ready
       /\ t1.streams_blocked = b
  BY <1>7, <1>8 DEF Half
<1>11. done = scheduler_channel_has_waiting_cells(u)
  BY <1>9 DEF append_tail
<1>. HIDE DEF t1
<1>12. u \in Half /\ SameCells(t1, u)
  BY <1>10, SmallSteps, QuietSteps
<1>. HIDE DEF u, done
<1>13. SameCells(u, done)
  BY <1>11, <1>12, QuietSteps
<1>14. /\ done.queue = added.queue
       /\ done.delay_queue = added.delay_queue
       /\ done.count = added.count
       /\ done.last_ready = added.last_ready
       /\ done.streams_blocked = b
  BY <1>10, <1>12, <1>13 DEF SameCells
<1>15. AddsCell(h, done)
  BY <1>6, <1>14 DEF AddsCell
<1>. QED
  BY <1>4, <1>5, <1>6, <1>8, <1>14, <1>15 DEF done

\* cell_ready_callback moves cells from one queue to the end of the other.
LEMMA ReleaseMoves ==
  ASSUME NEW h, HalfInv(h, "open"), h.chan # "none",
         NEW n \in 0..Len(h.delay_queue), NEW mono \in Nat, NEW wall \in Nat
  PROVE  MovesCells(h, release_cells(h, n, mono, wall), n)
<1>. DEFINE f == free_delay_timer(h)
            released == h.queue \o SubSeq(h.delay_queue, 1, n)
            left == SubSeq(h.delay_queue, n + 1, Len(h.delay_queue))
            moved == [f EXCEPT !.queue = released, !.delay_queue = left]
            u == update_circuit_on_cmux(moved)
            told == scheduler_channel_has_waiting_cells(u)
            r == release_cells(h, n, mono, wall)
<1>1. /\ h \in Half
      /\ h.queue \in Seq(Cell)
      /\ h.delay_queue \in Seq(Cell)
  BY DEF HalfInv, Half
<1>2. released \in Seq(Cell) /\ left \in Seq(Cell)
  BY <1>1
<1>3. f \in Half /\ SameCells(h, f)
  BY <1>1, SmallSteps, QuietSteps
<1>4. r = IF told.delay_queue = <<>> THEN told
          ELSE schedule_delay_timer(told, mono, wall)
  <2>1. moved = moved_cells(f, n)
    <3>. HIDE DEF f
    <3>. QED BY <1>3 DEF moved_cells, Half, SameCells
  <2>. HIDE DEF moved
  <2>. QED BY <2>1 DEF release_cells
<1>5. /\ moved \in Half
      /\ moved.queue = released
      /\ moved.delay_queue = left
      /\ moved.count = h.count
      /\ moved.last_ready = h.last_ready
      /\ moved.streams_blocked = h.streams_blocked
  <2>. HIDE DEF f, released, left
  <2>. QED BY <1>2, <1>3 DEF Half, SameCells
<1>. HIDE DEF moved
<1>6. u \in Half /\ SameCells(moved, u)
  BY <1>5, SmallSteps, QuietSteps
<1>. HIDE DEF u
<1>7. told \in Half /\ SameCells(u, told)
  BY <1>6, SmallSteps, QuietSteps
<1>. HIDE DEF told, r
<1>8. SameCells(told, r)
  BY <1>4, <1>7, ScheduleQuiet DEF SameCells
<1>. QED
  BY <1>5, <1>6, <1>7, <1>8 DEF SameCells, MovesCells, r

\* A flush takes the oldest cell; streams stay blocked only for cells that
\* are still in the queue.
LEMMA FlushTakes ==
  ASSUME NEW h \in Half, h.queue # <<>>
  PROVE  TakesCell(h, flush_cell(h))
<1>. DEFINE q == Tail(h.queue)
            n == Len(h.queue) - 1
            popped == [h EXCEPT !.queue = q, !.num_cells = n]
            b == h.streams_blocked /\ ~(Len(q) <= LowWater)
            f == [popped EXCEPT !.streams_blocked = b]
<1>1. h.queue \in Seq(Cell) /\ h.streams_blocked \in BOOLEAN
  BY DEF Half
<1>2. q \in Seq(Cell)
  BY <1>1
<1>3. flush_cell(h) = f
  <2>1. popped.queue = q /\ popped.streams_blocked = h.streams_blocked
    <3>. HIDE DEF q, n
    <3>. QED BY <1>1 DEF Half
  <2>2. popped = [h EXCEPT !.queue = Tail(@), !.num_cells = Len(h.queue) - 1]
    OBVIOUS
  <2>3. f = [popped EXCEPT !.streams_blocked = @ /\ ~(Len(popped.queue) <= LowWater)]
    <3>. HIDE DEF popped, q, n
    <3>. QED BY <2>1
  <2>. HIDE DEF popped, f
  <2>. QED BY <2>2, <2>3 DEF flush_cell
<1>4. b => h.streams_blocked /\ q # <<>>
  <2>. HIDE DEF q
  <2>1. q = <<>> => Len(q) = 0
    BY EmptySeq
  <2>2. LowWater \in Nat
    BY QueueParameters
  <2>. QED BY <2>1, <2>2
<1>5. /\ f.queue = q
      /\ f.delay_queue = h.delay_queue
      /\ f.count = h.count
      /\ f.last_ready = h.last_ready
      /\ f.streams_blocked = b
  <2>. HIDE DEF q, n, b
  <2>. QED BY DEF Half
<1>6. q = Tail(h.queue)
  OBVIOUS
<1>. HIDE DEF f, b, q
<1>. QED BY <1>3, <1>4, <1>5, <1>6 DEF TakesCell

\* What empties queues: failed writes, TRUNCATE, lack of memory, the end.
LEMMA DroppingSteps ==
  ASSUME NEW h \in Half
  PROVE  /\ DropsCells(h, flush_fails(h))
         /\ DropsCells(h, free_cells(h))
         /\ free_cells(h).delay_queue = <<>>
         /\ LET r == clear_circid_chan(circuit_clear_cell_queue(h)) IN
            DropsCells(h, r) /\ r.delay_queue = h.delay_queue
         /\ LET r == free_cells(clear_circid_chan(h)) IN
            DropsCells(h, r) /\ r.delay_queue = <<>>
<1>. DEFINE z == <<>>
            e == [h EXCEPT !.queue = z, !.num_cells = 0]
            x == [h EXCEPT !.queue = z, !.delay_queue = z]
            c == clear_circid_chan(h)
            y == [c EXCEPT !.queue = z, !.delay_queue = z]
            m == [h EXCEPT !.queue = z]
            u == update_circuit_on_cmux(m)
<1>1. z \in Seq(Cell) /\ z = <<>>
  OBVIOUS
<1>2. c \in Half /\ SameCells(h, c)
  <2>1. c \in Half
    BY DEF clear_circid_chan, detach, Half
  <2>. QED BY <2>1, QuietSteps
<1>3. /\ flush_fails(h) = channel_closing(e)
      /\ free_cells(h) = free_delay_timer(x)
      /\ free_cells(c) = free_delay_timer(y)
      /\ circuit_clear_cell_queue(h) = u
  <2>. HIDE DEF c
  <2>. QED BY DEF flush_fails, free_cells, circuit_clear_cell_queue
<1>. HIDE DEF z, c
<1>4. /\ e \in Half /\ e.queue = z /\ e.delay_queue = h.delay_queue
      /\ e.count = h.count /\ e.last_ready = h.last_ready
      /\ e.streams_blocked = h.streams_blocked
  BY <1>1 DEF Half
<1>5. /\ x \in Half /\ x.queue = z /\ x.delay_queue = z
      /\ x.count = h.count /\ x.last_ready = h.last_ready
      /\ x.streams_blocked = h.streams_blocked
  BY <1>1 DEF Half
<1>6. /\ y \in Half /\ y.queue = z /\ y.delay_queue = z
      /\ y.count = h.count /\ y.last_ready = h.last_ready
      /\ y.streams_blocked = h.streams_blocked
  BY <1>1, <1>2 DEF Half, SameCells
<1>7. /\ m \in Half /\ m.queue = z /\ m.delay_queue = h.delay_queue
      /\ m.count = h.count /\ m.last_ready = h.last_ready
      /\ m.streams_blocked = h.streams_blocked
  BY <1>1 DEF Half
<1>. HIDE DEF e, x, y, m
<1>8. u \in Half /\ SameCells(m, u)
  BY <1>7, SmallSteps, QuietSteps
<1>. HIDE DEF u
<1>9. /\ SameCells(e, channel_closing(e))
      /\ SameCells(x, free_delay_timer(x))
      /\ SameCells(y, free_delay_timer(y))
      /\ SameCells(u, clear_circid_chan(u))
  BY <1>4, <1>5, <1>6, <1>8, QuietSteps
<1>10. DropsCells(h, flush_fails(h))
  BY <1>1, <1>3, <1>4, <1>9 DEF SameCells, DropsCells
<1>11. DropsCells(h, free_cells(h)) /\ free_cells(h).delay_queue = <<>>
  BY <1>1, <1>3, <1>5, <1>9 DEF SameCells, DropsCells
<1>12. DropsCells(h, free_cells(c)) /\ free_cells(c).delay_queue = <<>>
  BY <1>1, <1>3, <1>6, <1>9 DEF SameCells, DropsCells
<1>13. /\ DropsCells(h, clear_circid_chan(u))
       /\ clear_circid_chan(u).delay_queue = h.delay_queue
  BY <1>1, <1>7, <1>8, <1>9 DEF SameCells, DropsCells
<1>. QED BY <1>3, <1>10, <1>11, <1>12, <1>13 DEF c

\* A cell that is freed with everything else as soon as it is accepted.
Reclaimed(h, g) ==
  /\ g.queue = <<>>
  /\ g.delay_queue = <<>>
  /\ g.count = h.count + 1

\* The ready times of a direction are in order.
Ordered(h) ==
  /\ \A i, j \in 1..Len(h.delay_queue) :
       i < j => h.delay_queue[i].ready_tv <= h.delay_queue[j].ready_tv
  /\ \A i \in 1..Len(h.delay_queue) : h.delay_queue[i].ready_tv <= h.last_ready

\* Order survives freeing, accepting and releasing cells.
LEMMA EmptyOrdered ==
  ASSUME NEW g, g.delay_queue = <<>>
  PROVE  Ordered(g)
BY DEF Ordered

\* An accepted cell goes behind those that become ready before it.
LEMMA AddOrdered ==
  ASSUME NEW h \in Half, NEW g, Ordered(h), AddsCell(h, g)
  PROVE  Ordered(g)
<1>1. /\ h.delay_queue \in Seq(Cell)
      /\ h.last_ready \in Nat
      /\ \A i \in 1..Len(h.delay_queue) : h.delay_queue[i].ready_tv \in Nat
  <2>1. h.delay_queue \in Seq(Cell) /\ h.last_ready \in Nat
    BY DEF Half
  <2>2. \A i \in 1..Len(h.delay_queue) : h.delay_queue[i] \in Cell
    BY <2>1, ElementOfSeq
  <2>. QED BY <2>1, <2>2 DEF Cell
<1>2. CASE g.delay_queue = <<>>
  BY <1>2, EmptyOrdered
<1>3. ASSUME NEW c \in Cell, g.delay_queue = Append(h.delay_queue, c),
             c.ready_tv = g.last_ready, g.last_ready >= h.last_ready
      PROVE  Ordered(g)
  <2>. DEFINE q == h.delay_queue  p == g.delay_queue  n == Len(q)
  <2>1. /\ Len(p) = n + 1 /\ n \in Nat
        /\ \A i \in 1..n : p[i] = q[i]
        /\ p[n + 1] = c
    BY <1>1, <1>3, AppendProperties
  <2>2. c.ready_tv \in Nat
    BY DEF Cell
  <2>3. \A i \in 1..n : p[i].ready_tv <= h.last_ready /\ p[i].ready_tv \in Nat
    BY <1>1, <2>1 DEF Ordered
  <2>4. \A i \in 1..Len(p) : p[i].ready_tv <= g.last_ready
    <3>. SUFFICES ASSUME NEW i \in 1..Len(p)
                  PROVE  p[i].ready_tv <= g.last_ready
      OBVIOUS
    <3>. HIDE DEF p, q, n
    <3>1. CASE i = n + 1
      BY <1>3, <2>1, <2>2, <3>1
    <3>2. CASE i \in 1..n
      BY <1>1, <1>3, <2>2, <2>3, <3>2
    <3>. QED BY <2>1, <3>1, <3>2
  <2>5. \A i, j \in 1..Len(p) : i < j => p[i].ready_tv <= p[j].ready_tv
    <3>. SUFFICES ASSUME NEW i \in 1..Len(p), NEW j \in 1..Len(p), i < j
                  PROVE  p[i].ready_tv <= p[j].ready_tv
      OBVIOUS
    <3>1. \A k, m \in 1..n : k < m => q[k].ready_tv <= q[m].ready_tv
      BY DEF Ordered
    <3>. HIDE DEF p, q, n
    <3>2. CASE j = n + 1
      BY <1>3, <2>1, <2>4, <3>2
    <3>3. CASE j \in 1..n
      BY <2>1, <3>1, <3>3
    <3>. QED BY <2>1, <3>2, <3>3
  <2>. QED BY <2>4, <2>5 DEF Ordered
<1>. QED BY <1>2, <1>3 DEF AddsCell

\* Releasing the first cells leaves the others in order.
LEMMA MoveOrdered ==
  ASSUME NEW h \in Half, NEW g, Ordered(h), NEW n \in 0..Len(h.delay_queue),
         MovesCells(h, g, n)
  PROVE  Ordered(g)
<1>. DEFINE q == h.delay_queue  p == g.delay_queue  m == Len(q)
<1>1. q \in Seq(Cell) /\ m \in Nat /\ n \in 0..m
  BY DEF Half
<1>2. p = SubSeq(q, n + 1, m) /\ g.last_ready = h.last_ready
  BY DEF MovesCells
<1>3. /\ \A k, l \in 1..m : k < l => q[k].ready_tv <= q[l].ready_tv
      /\ \A k \in 1..m : q[k].ready_tv <= h.last_ready
  BY DEF Ordered
<1>. HIDE DEF q, m, p
<1>4. Len(p) = m - n /\ \A i \in 1..Len(p) : p[i] = q[n + i] /\ n + i \in 1..m
  <2>1. \A i \in n + 1..m : q[i] \in Cell
    <3>1. n + 1..m \subseteq 1..Len(q)
      BY <1>1 DEF m
    <3>. QED BY <1>1, <3>1, ElementOfSeq
  <2>2. /\ Len(p) = IF n + 1 <= m THEN m - (n + 1) + 1 ELSE 0
        /\ \A i \in 1..m - (n + 1) + 1 : p[i] = q[n + 1 + i - 1]
    BY <1>1, <1>2, <2>1, SubSeqProperties
  <2>3. Len(p) = m - n
    BY <1>1, <2>2
  <2>4. \A i \in 1..Len(p) : p[i] = q[n + 1 + i - 1]
    BY <1>1, <2>2, <2>3
  <2>5. \A i \in 1..Len(p) : n + 1 + i - 1 = n + i /\ n + i \in 1..m
    BY <1>1, <2>3
  <2>. QED BY <2>3, <2>4, <2>5
<1>5. \A i \in 1..Len(p) : p[i].ready_tv <= g.last_ready
  BY <1>2, <1>3, <1>4
<1>6. \A i, j \in 1..Len(p) : i < j => p[i].ready_tv <= p[j].ready_tv
  <2>. SUFFICES ASSUME NEW i \in 1..Len(p), NEW j \in 1..Len(p), i < j
                PROVE  p[i].ready_tv <= p[j].ready_tv
    OBVIOUS
  <2>1. n + i \in 1..m /\ n + j \in 1..m /\ n + i < n + j
    BY <1>1, <1>4
  <2>2. q[n + i].ready_tv <= q[n + j].ready_tv
    BY <1>3, <2>1
  <2>. QED BY <1>4, <2>2
<1>. QED BY <1>5, <1>6 DEF Ordered, p

\* The numbers of the cells of a queue.
Numbers(q) == [i \in 1..Len(q) |-> q[i].seq]

\* Numbers commutes with what is done to queues.
LEMMA NumbersType ==
  ASSUME NEW q \in Seq(Cell)
  PROVE  /\ Numbers(q) \in Seq(Nat)
         /\ Len(Numbers(q)) = Len(q)
         /\ \A i \in 1..Len(q) : Numbers(q)[i] = q[i].seq
<1>1. \A i \in 1..Len(q) : q[i].seq \in Nat
  <2>1. \A i \in 1..Len(q) : q[i] \in Cell
    BY ElementOfSeq
  <2>. QED BY <2>1 DEF Cell
<1>. QED BY <1>1 DEF Numbers

\* No cells, no numbers.
LEMMA EmptyNumbers == Numbers(<<>>) = <<>>
<1>1. <<>> \in Seq(Cell) /\ Len(<<>>) = 0
  BY EmptySeq
<1>2. Numbers(<<>>) \in Seq(Nat) /\ Len(Numbers(<<>>)) = 0
  BY <1>1, NumbersType
<1>. QED BY <1>2, EmptySeq

\* A cell appended adds its number at the end.
LEMMA NumbersAppend ==
  ASSUME NEW q \in Seq(Cell), NEW c \in Cell
  PROVE  Numbers(Append(q, c)) = Append(Numbers(q), c.seq)
<1>. DEFINE p == Append(q, c)  x == Numbers(p)  y == Append(Numbers(q), c.seq)
<1>1. /\ p \in Seq(Cell) /\ Len(p) = Len(q) + 1 /\ Len(q) \in Nat
      /\ \A i \in 1..Len(q) : p[i] = q[i]
      /\ p[Len(q) + 1] = c
  BY AppendProperties
<1>2. c.seq \in Nat
  BY DEF Cell
<1>3. /\ x \in Seq(Nat) /\ Len(x) = Len(q) + 1
      /\ \A i \in 1..Len(q) + 1 : x[i] = p[i].seq
  BY <1>1, NumbersType
<1>4. /\ y \in Seq(Nat) /\ Len(y) = Len(q) + 1
      /\ \A i \in 1..Len(q) : y[i] = q[i].seq
      /\ y[Len(q) + 1] = c.seq
  BY <1>2, NumbersType, AppendProperties
<1>. HIDE DEF p, x, y
<1>5. \A i \in 1..Len(x) : x[i] = y[i]
  <2>. SUFFICES ASSUME NEW i \in 1..Len(q) + 1
                PROVE  x[i] = y[i]
    BY <1>3
  <2>1. CASE i \in 1..Len(q)
    BY <1>1, <1>3, <1>4, <2>1
  <2>2. CASE i = Len(q) + 1
    BY <1>1, <1>3, <1>4, <2>2
  <2>. QED BY <1>1, <2>1, <2>2
<1>6. x = y
  BY <1>3, <1>4, <1>5, SeqEqual
<1>. QED BY <1>6 DEF x, y, p

\* Part of the cells has that part of the numbers.
LEMMA NumbersSubSeq ==
  ASSUME NEW q \in Seq(Cell), NEW m \in 1..Len(q) + 1, NEW n \in 0..Len(q)
  PROVE  Numbers(SubSeq(q, m, n)) = SubSeq(Numbers(q), m, n)
<1>. DEFINE p == SubSeq(q, m, n)  x == Numbers(p)
            z == Numbers(q)  y == SubSeq(z, m, n)
            l == IF m <= n THEN n - m + 1 ELSE 0
<1>1. Len(q) \in Nat /\ m \in Nat /\ n \in Nat /\ m \in Int /\ n \in Int
  OBVIOUS
<1>2. /\ z \in Seq(Nat) /\ Len(z) = Len(q)
      /\ \A i \in 1..Len(q) : z[i] = q[i].seq
  BY NumbersType
<1>3. m..n \subseteq 1..Len(q)
  BY <1>1
<1>4. \A i \in m..n : q[i] \in Cell
  BY <1>3, ElementOfSeq
<1>. HIDE DEF z
<1>5. \A i \in m..n : z[i] \in Nat
  BY <1>2, <1>3, ElementOfSeq
<1>6. /\ p \in Seq(Cell) /\ Len(p) = l
      /\ \A i \in 1..n - m + 1 : p[i] = q[m + i - 1]
  BY <1>1, <1>4, SubSeqProperties
<1>7. /\ y \in Seq(Nat) /\ Len(y) = l
      /\ \A i \in 1..n - m + 1 : y[i] = z[m + i - 1]
  BY <1>1, <1>5, SubSeqProperties
<1>. HIDE DEF p, y
<1>8. x \in Seq(Nat) /\ Len(x) = l /\ \A i \in 1..l : x[i] = p[i].seq
  BY <1>6, NumbersType
<1>. HIDE DEF x
<1>9. \A i \in 1..Len(x) : x[i] = y[i]
  <2>. SUFFICES ASSUME NEW i \in 1..l
                PROVE  x[i] = y[i]
    BY <1>8
  <2>1. i \in 1..n - m + 1 /\ m + i - 1 \in 1..Len(q)
    BY <1>1
  <2>2. y[i] = q[m + i - 1].seq
    BY <1>2, <1>7, <2>1
  <2>. QED BY <1>6, <1>8, <2>1, <2>2
<1>10. x = y
  BY <1>7, <1>8, <1>9, SeqEqual
<1>. QED BY <1>10 DEF x, y, p, z

\* Taking the first cell takes the first number.
LEMMA NumbersTail ==
  ASSUME NEW q \in Seq(Cell), q # <<>>
  PROVE  /\ Numbers(Tail(q)) = Tail(Numbers(q))
         /\ Numbers(q) # <<>>
         /\ Head(Numbers(q)) = Head(q).seq
<1>1. Len(q) \in Nat \ {0}
  BY EmptySeq
<1>2. /\ Numbers(q) \in Seq(Nat) /\ Len(Numbers(q)) = Len(q)
      /\ \A i \in 1..Len(q) : Numbers(q)[i] = q[i].seq
  BY NumbersType
<1>3. Numbers(q) # <<>>
  BY <1>1, <1>2, EmptySeq
<1>4. Tail(q) = SubSeq(q, 2, Len(q))
  BY TailIsSubSeq
<1>5. Tail(Numbers(q)) = SubSeq(Numbers(q), 2, Len(Numbers(q)))
  BY <1>2, <1>3, TailIsSubSeq
<1>6. Numbers(SubSeq(q, 2, Len(q))) = SubSeq(Numbers(q), 2, Len(q))
  <2>1. 2 \in 1..Len(q) + 1 /\ Len(q) \in 0..Len(q)
    BY <1>1
  <2>. QED BY <2>1, NumbersSubSeq
<1>7. Head(q) = q[1] /\ Head(Numbers(q)) = Numbers(q)[1]
  BY <1>2, <1>3
<1>8. Numbers(q)[1] = q[1].seq
  BY <1>1, <1>2
<1>9. Numbers(Tail(q)) = Tail(Numbers(q))
  BY <1>2, <1>4, <1>5, <1>6, Zenon
<1>. QED BY <1>3, <1>7, <1>8, <1>9, Zenon

\* What the abstract pipe holds for a direction: the delayed cells of a closed
\* circuit are not in it any more.
Contents(h, open) == Numbers(IF open THEN InFlight(h) ELSE h.queue)

\* The cells in flight are the main queue and behind it the delay queue.
LEMMA InFlightType ==
  ASSUME NEW h \in Half
  PROVE  /\ h.queue \in Seq(Cell) /\ h.delay_queue \in Seq(Cell)
         /\ InFlight(h) \in Seq(Cell)
         /\ Len(InFlight(h)) = Len(h.queue) + Len(h.delay_queue)
         /\ Len(h.queue) \in Nat /\ Len(h.delay_queue) \in Nat
         /\ h.count \in Nat
<1>1. h.queue \in Seq(Cell) /\ h.delay_queue \in Seq(Cell) /\ h.count \in Nat
  BY DEF Half
<1>. QED BY <1>1, ConcatProperties, LenProperties DEF InFlight

\* Either queue a cell goes to, it is the last one in flight.
LEMMA AddContents ==
  ASSUME NEW h \in Half, NEW g, AddsCell(h, g)
  PROVE  Contents(g, TRUE) = Append(Contents(h, TRUE), h.count + 1)
<1>. DEFINE s == h.queue  t == h.delay_queue
<1>1. s \in Seq(Cell) /\ t \in Seq(Cell) /\ InFlight(h) \in Seq(Cell)
  BY InFlightType
<1>. PICK c \in Cell :
       /\ c.seq = h.count + 1
       /\ \/ t = <<>> /\ g.delay_queue = <<>> /\ g.queue = Append(s, c)
          \/ g.queue = s /\ g.delay_queue = Append(t, c)
  BY DEF AddsCell
<1>2. s \o t = InFlight(h)
  BY DEF InFlight
<1>3. InFlight(g) = g.queue \o g.delay_queue
  BY DEF InFlight
<1>. HIDE DEF s, t
<1>4. Append(s, c) \in Seq(Cell)
  BY <1>1, AppendProperties
<1>5. InFlight(g) = Append(InFlight(h), c)
  <2>1. CASE t = <<>> /\ g.delay_queue = <<>> /\ g.queue = Append(s, c)
    <3>1. s \o t = s
      BY <1>1, <2>1, ConcatEmptySeq
    <3>2. InFlight(g) = Append(s, c)
      BY <1>3, <1>4, <2>1, ConcatEmptySeq
    <3>. QED BY <1>2, <3>1, <3>2
  <2>2. CASE g.queue = s /\ g.delay_queue = Append(t, c)
    <3>1. Append(t, c) = t \o <<c>> /\ Append(s \o t, c) = (s \o t) \o <<c>>
      BY <1>1, <1>2, AppendIsConcat
    <3>2. <<c>> \in Seq(Cell)
      OBVIOUS
    <3>3. (s \o t) \o <<c>> = s \o (t \o <<c>>)
      BY <1>1, <3>2, ConcatAssociative
    <3>4. InFlight(g) = s \o Append(t, c)
      BY <1>3, <2>2
    <3>. QED BY <1>2, <3>1, <3>3, <3>4, Zenon
  <2>. QED BY <2>1, <2>2 DEF s, t
<1>6. Numbers(Append(InFlight(h), c)) = Append(Numbers(InFlight(h)), c.seq)
  BY <1>1, NumbersAppend
<1>. QED BY <1>5, <1>6 DEF Contents

\* A release changes nothing of what is in flight.
LEMMA MoveContents ==
  ASSUME NEW h \in Half, NEW g, NEW n \in 0..Len(h.delay_queue), MovesCells(h, g, n)
  PROVE  Contents(g, TRUE) = Contents(h, TRUE)
<1>. DEFINE s == h.queue  t == h.delay_queue  m == Len(t)
            a == SubSeq(t, 1, n)  b == SubSeq(t, n + 1, m)
<1>1. s \in Seq(Cell) /\ t \in Seq(Cell) /\ m \in Nat
  BY InFlightType
<1>2. a \in Seq(Cell) /\ b \in Seq(Cell) /\ a \o b = t
  <2>1. a \in Seq(Cell) /\ b \in Seq(Cell)
    BY <1>1
  <2>2. a \o b = SubSeq(t, 1, m)
    <3>1. 1 \in 1..m + 1 /\ n \in 1 - 1..m /\ m \in n..m
      BY <1>1
    <3>. HIDE DEF t
    <3>. QED BY <1>1, <3>1, ConcatAdjacentSubSeq
  <2>3. SubSeq(t, 1, m) = t
    BY <1>1, SubSeqFull
  <2>. QED BY <2>1, <2>2, <2>3, Zenon
<1>3. g.queue = s \o a /\ g.delay_queue = b
  BY DEF MovesCells
<1>4. InFlight(h) = s \o t /\ InFlight(g) = g.queue \o g.delay_queue
  BY DEF InFlight
<1>. HIDE DEF s, t, a, b, m
<1>5. (s \o a) \o b = s \o (a \o b)
  <2>1. \A x, y, z \in Seq(Cell) : (x \o y) \o z = x \o (y \o z)
    BY ConcatAssociative
  <2>. QED BY <1>1, <1>2, <2>1, Zenon
<1>6. InFlight(g) = InFlight(h)
  BY <1>2, <1>3, <1>4, <1>5, Zenon
<1>. QED BY <1>6 DEF Contents

\* A flush takes the first of the pipe, open or closed.
LEMMA TakeContents ==
  ASSUME NEW h \in Half, NEW g, TakesCell(h, g), NEW open \in BOOLEAN
  PROVE  /\ Contents(h, open) # <<>>
         /\ Head(Contents(h, open)) = Head(h.queue).seq
         /\ Contents(g, open) = Tail(Contents(h, open))
<1>. DEFINE s == h.queue  t == h.delay_queue
            p == IF open THEN s \o t ELSE s
            q == IF open THEN Tail(s) \o t ELSE Tail(s)
<1>1. s \in Seq(Cell) /\ t \in Seq(Cell) /\ s # <<>>
  BY InFlightType DEF TakesCell
<1>2. g.queue = Tail(s) /\ g.delay_queue = t
  BY DEF TakesCell
<1>3. Contents(h, open) = Numbers(p) /\ Contents(g, open) = Numbers(q)
  BY <1>2 DEF Contents, InFlight
<1>. HIDE DEF s, t
<1>4. /\ s \o t \in Seq(Cell) /\ s \o t # <<>>
      /\ Head(s \o t) = Head(s) /\ Tail(s \o t) = Tail(s) \o t
  <2>1. s \o t \in Seq(Cell) /\ s \o t # <<>>
    BY <1>1, ConcatProperties, ConcatEqualIffEmpty
  <2>2. /\ Len(s \o t) = Len(s) + Len(t) /\ Len(s) \in Nat \ {0} /\ Len(t) \in Nat
        /\ \A i \in 1..Len(s) + Len(t) :
             (s \o t)[i] = IF i <= Len(s) THEN s[i] ELSE t[i - Len(s)]
    BY <1>1, ConcatProperties, LenProperties, EmptySeq
  <2>3. Head(s \o t) = Head(s)
    BY <1>1, <2>1, <2>2
  <2>4. Tail(s \o t) = Tail(s) \o t
    <3>. DEFINE x == Tail(s \o t)  y == Tail(s) \o t
    <3>1. /\ Tail(s) \in Seq(Cell) /\ Len(Tail(s)) = Len(s) - 1
          /\ \A i \in 1..Len(Tail(s)) : Tail(s)[i] = s[i + 1]
      BY <1>1, HeadTailProperties
    <3>2. /\ x \in Seq(Cell) /\ Len(x) = Len(s) + Len(t) - 1
          /\ \A i \in 1..Len(x) : x[i] = (s \o t)[i + 1]
      BY <2>1, <2>2, HeadTailProperties
    <3>3. /\ y \in Seq(Cell) /\ Len(y) = Len(s) - 1 + Len(t)
          /\ \A i \in 1..Len(s) - 1 + Len(t) :
               y[i] = IF i <= Len(s) - 1 THEN Tail(s)[i] ELSE t[i - (Len(s) - 1)]
      BY <1>1, <3>1, ConcatProperties
    <3>. HIDE DEF x, y
    <3>4. \A i \in 1..Len(x) : x[i] = y[i]
      <4>. SUFFICES ASSUME NEW i \in 1..Len(x)
                    PROVE  x[i] = y[i]
        OBVIOUS
      <4>1. x[i] = IF i + 1 <= Len(s) THEN s[i + 1] ELSE t[i + 1 - Len(s)]
        BY <2>2, <3>2
      <4>2. y[i] = IF i <= Len(s) - 1 THEN Tail(s)[i] ELSE t[i - (Len(s) - 1)]
        BY <2>2, <3>2, <3>3
      <4>3. CASE i + 1 <= Len(s)
        BY <2>2, <3>1, <4>1, <4>2, <4>3
      <4>4. CASE ~(i + 1 <= Len(s))
        <5>1. i + 1 - Len(s) = i - (Len(s) - 1) /\ ~(i <= Len(s) - 1)
          BY <2>2, <4>4
        <5>. QED BY <4>1, <4>2, <4>4, <5>1
      <4>. QED BY <4>3, <4>4
    <3>5. x = y
      BY <2>2, <3>2, <3>3, <3>4, SeqEqual
    <3>. QED BY <3>5 DEF x, y
  <2>. QED BY <2>1, <2>3, <2>4
<1>5. p \in Seq(Cell) /\ p # <<>> /\ Head(p) = Head(s) /\ q = Tail(p)
  BY <1>1, <1>4
<1>. HIDE DEF p, q
<1>6. /\ Numbers(Tail(p)) = Tail(Numbers(p))
      /\ Numbers(p) # <<>>
      /\ Head(Numbers(p)) = Head(p).seq
  BY <1>5, NumbersTail
<1>. QED BY <1>3, <1>5, <1>6 DEF s

\* Cutting the next hop loses the released cells, the oldest of the pipe.
LEMMA CutContents ==
  ASSUME NEW h \in Half, NEW g, DropsCells(h, g), g.delay_queue = h.delay_queue
  PROVE  \E k \in 0..Len(Contents(h, TRUE)) :
           Contents(g, TRUE) = SubSeq(Contents(h, TRUE), k + 1, Len(Contents(h, TRUE)))
<1>. DEFINE s == h.queue  t == h.delay_queue  k == Len(s)  l == k + Len(t)
            r == s \o t  z == Numbers(r)
<1>1. /\ s \in Seq(Cell) /\ t \in Seq(Cell) /\ r \in Seq(Cell)
      /\ k \in Nat /\ Len(t) \in Nat /\ Len(r) = l
  BY InFlightType DEF InFlight
<1>2. Contents(h, TRUE) = z
  BY DEF Contents, InFlight
<1>3. Contents(g, TRUE) = Numbers(t)
  <2>1. g.queue = <<>>
    BY DEF DropsCells
  <2>2. <<>> \o t = t
    BY <1>1, ConcatEmptySeq
  <2>. QED BY <2>1, <2>2 DEF Contents, InFlight
<1>4. Len(z) = l
  BY <1>1, NumbersType
<1>. HIDE DEF s
<1>5. SubSeq(r, k + 1, l) = t
  <2>1. CASE t = <<>>
    <3>1. Len(t) = 0
      BY <2>1, EmptySeq
    <3>2. l < k + 1 /\ l \in Int /\ k + 1 \in Int
      BY <1>1, <3>1
    <3>3. SubSeq(r, k + 1, l) = <<>>
      BY <3>2, SubSeqEmpty
    <3>. QED BY <2>1, <3>3
  <2>2. CASE t # <<>>
    <3>1. Len(t) \in Nat \ {0}
      BY <1>1, <2>2, EmptySeq
    <3>2. k + 1 \in Len(s) + 1..Len(s) + Len(t) /\ l \in Len(s) + 1..Len(s) + Len(t)
      BY <1>1, <3>1
    <3>3. k + 1 - Len(s) = 1 /\ l - Len(s) = Len(t)
      BY <1>1
    <3>. HIDE DEF k, l, t
    <3>4. SubSeq(r, k + 1, l) = SubSeq(t, k + 1 - Len(s), l - Len(s))
      BY <1>1, <3>2, SubSeqOfConcat2
    <3>5. SubSeq(t, 1, Len(t)) = t
      BY <1>1, SubSeqFull
    <3>. QED BY <3>3, <3>4, <3>5, Zenon
  <2>. QED BY <2>1, <2>2
<1>6. Numbers(SubSeq(r, k + 1, l)) = SubSeq(z, k + 1, l)
  <2>1. k + 1 \in 1..Len(r) + 1 /\ l \in 0..Len(r)
    BY <1>1
  <2>. HIDE DEF r, k, l
  <2>. QED BY <1>1, <2>1, NumbersSubSeq
<1>. HIDE DEF r, z, t
<1>7. k \in 0..Len(z)
  BY <1>1, <1>4
<1>. HIDE DEF k, l
<1>. QED BY <1>2, <1>3, <1>4, <1>5, <1>6, <1>7

\* Closing keeps the released cells, the oldest of the pipe, or none.
LEMMA CloseContents ==
  ASSUME NEW h \in Half, NEW g, SameCells(h, g) \/ DropsCells(h, g)
  PROVE  \E k \in 0..Len(Contents(h, TRUE)) :
           Contents(g, FALSE) = SubSeq(Contents(h, TRUE), 1, k)
<1>. DEFINE s == h.queue  t == h.delay_queue  r == s \o t  z == Numbers(r)
<1>1. /\ s \in Seq(Cell) /\ t \in Seq(Cell) /\ r \in Seq(Cell)
      /\ Len(s) \in Nat /\ Len(t) \in Nat /\ Len(r) = Len(s) + Len(t)
  BY InFlightType DEF InFlight
<1>2. Contents(h, TRUE) = z /\ Contents(g, FALSE) = Numbers(g.queue)
  BY DEF Contents, InFlight
<1>3. Len(z) = Len(r) /\ Len(z) \in Nat
  BY <1>1, NumbersType, LenProperties
<1>4. CASE g.queue = <<>>
  <2>1. Numbers(<<>>) = <<>>
    BY EmptyNumbers
  <2>2. SubSeq(z, 1, 0) = <<>>
    <3>. HIDE DEF z
    <3>. QED BY SubSeqEmpty
  <2>3. 0 \in 0..Len(z)
    <3>. DEFINE n == Len(z)
    <3>1. n \in Nat
      BY <1>3
    <3>. HIDE DEF n
    <3>2. 0 \in 0..n
      BY <3>1
    <3>. QED BY <3>2 DEF n
  <2>. QED BY <1>2, <1>4, <2>1, <2>2, <2>3
<1>5. CASE g.queue = s
  <2>. HIDE DEF s, t
  <2>1. SubSeq(r, 1, Len(s)) = s
    <3>1. CASE s = <<>>
      <4>1. Len(s) = 0
        BY <3>1, EmptySeq
      <4>. QED BY <3>1, <4>1, SubSeqEmpty
    <3>2. CASE s # <<>>
      <4>1. 1 \in 1..Len(s) /\ Len(s) \in 1..Len(s)
        BY <1>1, <3>2, EmptySeq
      <4>2. SubSeq(r, 1, Len(s)) = SubSeq(s, 1, Len(s))
        BY <1>1, <4>1, SubSeqOfConcat1
      <4>. QED BY <1>1, <4>2, SubSeqFull
    <3>. QED BY <3>1, <3>2
  <2>2. Numbers(SubSeq(r, 1, Len(s))) = SubSeq(z, 1, Len(s))
    <3>1. 1 \in 1..Len(r) + 1 /\ Len(s) \in 0..Len(r)
      BY <1>1
    <3>. HIDE DEF r
    <3>. QED BY <1>1, <3>1, NumbersSubSeq
  <2>3. Len(s) \in 0..Len(z)
    BY <1>1, <1>3
  <2>. HIDE DEF r, z
  <2>. QED BY <1>2, <1>5, <2>1, <2>2, <2>3
<1>. QED BY <1>4, <1>5 DEF SameCells, DropsCells

-----------------------------------------------------------------------------
(* When a scheduled timer runs: the tick it is scheduled for is not early by *)
(* more than a tick for the first delayed cell.                              *)

\* The ready time of the head, against the tick that the timer waits for.
OnTime(h) ==
  h.delay_timer = "armed" =>
    Head(h.delay_queue).ready_tv <= UsecPerTick * h.expires + (UsecPerTick - 1)

\* The step leaves the timer and what it waits for alone.
KeepsTimer(h, g) ==
  /\ g.delay_timer = h.delay_timer
  /\ g.expires = h.expires
  /\ g.delay_queue = h.delay_queue

\* Rounding down loses less than one tick.
LEMMA Rounding ==
  ASSUME NEW u \in Nat \ {0}, NEW x \in Nat
  PROVE  x \div u \in Nat /\ u * (x \div u) <= x /\ x <= u * (x \div u) + (u - 1)
OBVIOUS

\* More ticks last longer.
LEMMA TicksOrdered ==
  ASSUME NEW u \in Nat \ {0}, NEW x \in Nat, NEW y \in Nat, x <= y
  PROVE  u * x <= u * y
OBVIOUS

\* The current tick is the time, rounded up.
LEMMA CurTickBounds ==
  ASSUME NEW mono \in Nat
  PROVE  /\ CurTick(mono) \in Nat
         /\ mono <= UsecPerTick * CurTick(mono)
         /\ UsecPerTick * CurTick(mono) <= mono + (UsecPerTick - 1)
<1>1. UsecPerTick \in Nat \ {0}
  BY QueueParameters
<1>2. mono + UsecPerTick - 1 \in Nat
  BY <1>1
<1>3. mono + UsecPerTick - 1
        <= UsecPerTick * CurTick(mono) + (UsecPerTick - 1)
      /\ UsecPerTick * CurTick(mono) <= mono + UsecPerTick - 1
      /\ CurTick(mono) \in Nat
  BY <1>1, <1>2, Rounding DEF CurTick
<1>. HIDE DEF CurTick
<1>4. UsecPerTick * CurTick(mono) \in Nat
  BY <1>1, <1>3
<1>. QED BY <1>1, <1>3, <1>4

\* schedule_delay_timer, as long as both clocks show the same time.
LEMMA ScheduleOnTime ==
  ASSUME NEW h \in Half, h.delay_queue # <<>>, NEW now \in Nat
  PROVE  OnTime(schedule_delay_timer(h, now, now))
<1>. DEFINE ready == Head(h.delay_queue).ready_tv
            wait == ready - now
            delay == IF wait < 0 THEN 0 ELSE wait
            tick == CurTick(now)
            turns == delay \div UsecPerTick
            e == tick + turns
            r == schedule_delay_timer(h, now, now)
<1>1. ready \in Nat
  <2>1. Head(h.delay_queue) \in Cell
    BY DEF Half
  <2>. QED BY <2>1 DEF Cell
<1>2. r = [h EXCEPT !.delay_timer = "armed", !.expires = e]
  BY DEF schedule_delay_timer
<1>. HIDE DEF r
<1>3. UsecPerTick \in Nat \ {0}
  BY QueueParameters
<1>4. tick \in Nat /\ now <= UsecPerTick * tick
  BY CurTickBounds
<1>5. delay \in Nat /\ ready <= now + delay
  BY <1>1
<1>. HIDE DEF delay, tick, ready
<1>6. turns \in Nat /\ delay <= UsecPerTick * turns + (UsecPerTick - 1)
  BY <1>3, <1>5, Rounding
<1>. HIDE DEF turns
<1>7. /\ UsecPerTick * e = UsecPerTick * tick + UsecPerTick * turns
      /\ UsecPerTick * tick \in Nat /\ UsecPerTick * turns \in Nat
  BY <1>3, <1>4, <1>6
<1>. HIDE DEF e
<1>8. ready <= UsecPerTick * e + (UsecPerTick - 1)
  BY <1>1, <1>3, <1>4, <1>5, <1>6, <1>7
<1>9. r.expires = e /\ r.delay_queue = h.delay_queue
  BY <1>2 DEF Half
<1>. QED BY <1>8, <1>9 DEF OnTime, ready, r

\* What keeps the timer keeps its time.
LEMMA KeptOnTime ==
  ASSUME NEW h, NEW g, KeepsTimer(h, g), OnTime(h)
  PROVE  OnTime(g)
BY DEF KeepsTimer, OnTime

\* The operators that have nothing to do with the timer, and those that end it.
LEMMA TimerSteps ==
  ASSUME NEW h \in Half, NEW id \in Nat
  PROVE  /\ KeepsTimer(h, scheduler_channel_has_waiting_cells(h))
         /\ KeepsTimer(h, update_circuit_on_cmux(h))
         /\ KeepsTimer(h, scheduler_idle(h))
         /\ KeepsTimer(h, flush_empty(h))
         /\ KeepsTimer(h, channel_closing(h))
         /\ KeepsTimer(h, set_circid_chan(h, id))
         /\ KeepsTimer(h, clear_circid_chan(h))
         /\ free_delay_timer(h).delay_timer = "none"
         /\ leave_fired_timer(h).delay_timer = "fired"
<1>. DEFINE n == Len(h.queue)
<1>1. KeepsTimer(h, update_circuit_on_cmux(h))
  <2>1. update_circuit_on_cmux(h) = IF h.attached THEN [h EXCEPT !.num_cells = n] ELSE h
    BY DEF update_circuit_on_cmux
  <2>. HIDE DEF n
  <2>. QED BY <2>1 DEF KeepsTimer, Half
<1>2. KeepsTimer(h, set_circid_chan(h, id))
  <2>1. set_circid_chan(h, id) =
          [h EXCEPT !.chan = "open", !.circ_id = id, !.attached = TRUE,
                    !.num_cells = n]
    BY DEF set_circid_chan
  <2>. HIDE DEF n
  <2>. QED BY <2>1 DEF KeepsTimer, Half
<1>3. /\ KeepsTimer(h, scheduler_channel_has_waiting_cells(h))
      /\ KeepsTimer(h, scheduler_idle(h))
      /\ KeepsTimer(h, flush_empty(h))
      /\ KeepsTimer(h, channel_closing(h))
  BY DEF KeepsTimer, Half, scheduler_idle,
         scheduler_channel_has_waiting_cells, flush_empty, channel_closing
<1>4. KeepsTimer(h, clear_circid_chan(h))
  BY DEF KeepsTimer, Half, clear_circid_chan, detach
<1>5. /\ free_delay_timer(h).delay_timer = "none"
      /\ leave_fired_timer(h).delay_timer = "fired"
  BY DEF Half, free_delay_timer, leave_fired_timer
<1>. QED BY <1>1, <1>2, <1>3, <1>4, <1>5

\* The operators that change the main queue only, or free everything.
LEMMA QueueTimerSteps ==
  ASSUME NEW h \in Half
  PROVE  /\ KeepsTimer(h, flush_fails(h))
         /\ KeepsTimer(h, flush_cell(h))
         /\ KeepsTimer(h, clear_circid_chan(circuit_clear_cell_queue(h)))
         /\ free_cells(h).delay_timer = "none"
         /\ free_cells(clear_circid_chan(h)).delay_timer = "none"
<1>. DEFINE z == <<>>
            x == [h EXCEPT !.queue = z, !.delay_queue = z]
            c == clear_circid_chan(h)
            y == [c EXCEPT !.queue = z, !.delay_queue = z]
            m == [h EXCEPT !.queue = z]
            u == update_circuit_on_cmux(m)
            e == [h EXCEPT !.queue = z, !.num_cells = 0]
<1>1. z \in Seq(Cell)
  OBVIOUS
<1>2. c \in Half
  BY DEF clear_circid_chan, detach, Half
<1>3. /\ flush_fails(h) = channel_closing(e)
      /\ free_cells(h) = free_delay_timer(x)
      /\ free_cells(c) = free_delay_timer(y)
      /\ circuit_clear_cell_queue(h) = u
  <2>. HIDE DEF c
  <2>. QED BY DEF flush_fails, free_cells, circuit_clear_cell_queue
<1>. HIDE DEF z, c
<1>4. e \in Half /\ KeepsTimer(h, e)
  BY <1>1 DEF Half, KeepsTimer
<1>5. x \in Half /\ y \in Half
  BY <1>1, <1>2 DEF Half
<1>6. m \in Half /\ KeepsTimer(h, m)
  BY <1>1 DEF Half, KeepsTimer
<1>. HIDE DEF e, x, y, m
<1>7. KeepsTimer(h, flush_fails(h))
  BY <1>3, <1>4, TimerSteps DEF KeepsTimer
<1>8. KeepsTimer(h, clear_circid_chan(u))
  <2>1. u \in Half /\ KeepsTimer(m, u)
    BY <1>6, SmallSteps, TimerSteps
  <2>. HIDE DEF u
  <2>2. KeepsTimer(u, clear_circid_chan(u))
    BY <2>1, TimerSteps
  <2>. QED BY <1>6, <2>1, <2>2 DEF KeepsTimer
<1>9. KeepsTimer(h, flush_cell(h))
  <2>. DEFINE q == Tail(h.queue)
              k == Len(h.queue) - 1
              popped == [h EXCEPT !.queue = q, !.num_cells = k]
              b == popped.streams_blocked /\ ~(Len(popped.queue) <= LowWater)
  <2>1. flush_cell(h) = [popped EXCEPT !.streams_blocked = b]
    BY DEF flush_cell
  <2>. HIDE DEF q, k, b
  <2>. QED BY <2>1 DEF KeepsTimer, Half
<1>. QED BY <1>3, <1>5, <1>7, <1>8, <1>9, TimerSteps DEF c, u

\* cell_ready_callback schedules the timer again for what is now the head.
LEMMA ReleaseOnTime ==
  ASSUME NEW h, HalfInv(h, "open"), h.chan # "none",
         NEW n \in 0..Len(h.delay_queue), NEW now \in Nat
  PROVE  OnTime(release_cells(h, n, now, now))
<1>. DEFINE f == free_delay_timer(h)
            moved == moved_cells(f, n)
            u == update_circuit_on_cmux(moved)
            told == scheduler_channel_has_waiting_cells(u)
            r == release_cells(h, n, now, now)
<1>1. r = IF told.delay_queue = <<>> THEN told
          ELSE schedule_delay_timer(told, now, now)
  <2>. HIDE DEF f
  <2>. QED BY DEF release_cells, f
<1>2. f \in Half /\ f.delay_timer = "none" /\ SameCells(h, f)
  BY SmallSteps, TimerSteps, QuietSteps DEF HalfInv
<1>3. moved \in Half /\ moved.delay_timer = "none"
  <2>. DEFINE released == f.queue \o SubSeq(f.delay_queue, 1, n)
              left == SubSeq(f.delay_queue, n + 1, Len(f.delay_queue))
  <2>1. released \in Seq(Cell) /\ left \in Seq(Cell)
    <3>1. f.queue \in Seq(Cell) /\ f.delay_queue \in Seq(Cell)
      BY <1>2 DEF Half
    <3>2. n \in 0..Len(f.delay_queue)
      BY <1>2 DEF SameCells
    <3>. HIDE DEF f
    <3>. QED BY <3>1, <3>2
  <2>2. moved = [f EXCEPT !.queue = released, !.delay_queue = left]
    <3>. HIDE DEF f
    <3>. QED BY <1>2 DEF moved_cells, Half
  <2>. HIDE DEF released, left, moved, f
  <2>. QED BY <1>2, <2>1, <2>2 DEF Half
<1>. HIDE DEF moved
<1>4. u \in Half /\ u.delay_timer = "none"
  BY <1>3, SmallSteps, TimerSteps DEF KeepsTimer
<1>. HIDE DEF u
<1>5. told \in Half /\ told.delay_timer = "none"
  BY <1>4, SmallSteps, TimerSteps DEF KeepsTimer
<1>. HIDE DEF told, r
<1>6. CASE told.delay_queue = <<>>
  BY <1>1, <1>5, <1>6 DEF OnTime, r
<1>7. CASE told.delay_queue # <<>>
  BY <1>1, <1>5, <1>7, ScheduleOnTime DEF r
<1>. QED BY <1>6, <1>7

\* append_cell_to_circuit_queue starts a timer only for a new head.
LEMMA AppendOnTime ==
  ASSUME NEW h, Appendable(h), OnTime(h), NEW command \in Commands,
         NEW delay \in Nat, NEW now \in Nat
  PROVE  OnTime(append_tail(
                  cell_queue_append_packed_copy(h, command, delay, now, now)))
<1>. DEFINE k == h.count + 1
            numbered == [h EXCEPT !.count = k]
            cell == [seq |-> k, circ_id |-> h.circ_id,
                     command |-> command, ready_tv |-> 0]
            ready == get_ready_timeval(numbered, now, delay)
            c == [cell EXCEPT !.ready_tv = ready]
            q == Append(numbered.delay_queue, c)
            p == Append(numbered.queue, cell)
            late == [numbered EXCEPT !.last_ready = ready, !.delay_queue = q]
            added == delay_or_append_cell(numbered, cell, delay, now, now)
            b == added.streams_blocked \/ TooManyCells(added)
            t1 == [added EXCEPT !.streams_blocked = b]
            u == update_circuit_on_cmux(t1)
            done == append_tail(added)
<1>1. /\ h \in Half /\ k \in Nat /\ h.circ_id \in Nat
      /\ h.delay_timer = "armed" => h.delay_queue # <<>>
      /\ h.delay_timer \in {"none", "armed"}
  BY DEF Appendable, Reclaimable, Half
<1>2. cell \in Cell
  <2>. HIDE DEF k
  <2>. QED BY <1>1 DEF Cell
<1>3. numbered \in Half /\ KeepsTimer(h, numbered)
  <2>. HIDE DEF k
  <2>. QED BY <1>1 DEF Half, KeepsTimer
<1>4. added = cell_queue_append_packed_copy(h, command, delay, now, now)
  BY DEF cell_queue_append_packed_copy
<1>. HIDE DEF numbered, cell
<1>5. OnTime(added)
  <2>1. CASE ~DelayPolicySet
    <3>1. added = [numbered EXCEPT !.queue = p]
      BY <2>1 DEF delay_or_append_cell
    <3>. HIDE DEF p
    <3>2. KeepsTimer(numbered, added)
      BY <1>3, <3>1 DEF KeepsTimer, Half
    <3>. HIDE DEF added
    <3>. QED BY <1>3, <3>2, KeptOnTime
  <2>2. CASE DelayPolicySet
    <3>1. ready \in Nat
      BY <1>3 DEF get_ready_timeval, Half
    <3>2. c \in Cell
      <4>. HIDE DEF ready
      <4>. QED BY <1>2, <3>1 DEF Cell
    <3>3. /\ q \in Seq(Cell) /\ q # <<>>
          /\ numbered.delay_queue # <<>> => Head(q) = Head(numbered.delay_queue)
      <4>1. numbered.delay_queue \in Seq(Cell)
        BY <1>3 DEF Half
      <4>. HIDE DEF c
      <4>. QED BY <3>2, <4>1, AppendProperties
    <3>4. added = IF numbered.delay_timer = "none"
                  THEN schedule_delay_timer(late, now, now) ELSE late
      BY <2>2 DEF delay_or_append_cell
    <3>. HIDE DEF c, q, ready
    <3>5. /\ late \in Half
          /\ late.delay_queue = q
          /\ late.delay_timer = numbered.delay_timer
          /\ late.expires = numbered.expires
      BY <1>3, <3>1, <3>3 DEF Half
    <3>. HIDE DEF late, added
    <3>6. CASE numbered.delay_timer = "none"
      BY <3>3, <3>4, <3>5, <3>6, ScheduleOnTime
    <3>7. CASE numbered.delay_timer # "none"
      BY <1>1, <1>3, <3>3, <3>4, <3>5, <3>7 DEF KeepsTimer, OnTime
    <3>. QED BY <3>6, <3>7
  <2>. QED BY <2>1, <2>2, QueueParameters
<1>6. added \in Half
  <2>1. Appendable(added)
    BY <1>4, AppendCell
  <2>. HIDE DEF added
  <2>. QED BY <2>1 DEF Appendable, Reclaimable
<1>. HIDE DEF added
<1>7. b \in BOOLEAN
  OBVIOUS
<1>8. t1 = [added EXCEPT !.streams_blocked = @ \/ TooManyCells(added)]
  BY <1>6 DEF Half
<1>. HIDE DEF b
<1>9. t1 \in Half /\ KeepsTimer(added, t1)
  BY <1>6, <1>7 DEF Half, KeepsTimer
<1>10. done = scheduler_channel_has_waiting_cells(u)
  BY <1>8 DEF append_tail
<1>. HIDE DEF t1
<1>11. u \in Half /\ KeepsTimer(t1, u)
  BY <1>9, SmallSteps, TimerSteps
<1>. HIDE DEF u, done
<1>12. KeepsTimer(u, done)
  BY <1>10, <1>11, TimerSteps
<1>13. OnTime(done)
  BY <1>5, <1>9, <1>11, <1>12, KeptOnTime DEF KeepsTimer
<1>. QED BY <1>4, <1>13 DEF done
=============================================================================

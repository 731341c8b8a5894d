----------------------------- MODULE CellQueues -----------------------------
(***************************************************************************)
(* The cell queues of one direction of an OR circuit at the relay that     *)
(* modulates its traffic, and what relay.c does to them.  A "half" is the   *)
(* part of circuit_t/or_circuit_t that belongs to one direction, together   *)
(* with the circuit's entry in the circuitmux of that direction's channel:  *)
(*                                                                         *)
(*   chan, circ_id     n_chan/n_circ_id or p_chan/p_circ_id                *)
(*   queue             n_chan_cells or p_chan_cells                        *)
(*   delay_queue       n_delay_queue or p_delay_queue                      *)
(*   delay_timer       n_delay_timer or p_delay_timer: NULL, scheduled, or  *)
(*                     fired but still pointed to by the circuit           *)
(*   expires           the tick of timers.c at which that timer runs       *)
(*   last_ready        n_last_ready_tv or p_last_ready_tv                  *)
(*   streams_blocked   streams_blocked_on_n_chan or _p_chan                *)
(*   attached, num_cells   the circuitmux entry and its cell_count         *)
(*   sched_pending     the channel waits in the scheduler's pending list   *)
(*   count             cells accepted so far (numbers the cells; no code)   *)
(*                                                                         *)
(* Every operator maps a half to a half and is named after its C function. *)
(* wall is gettimeofday(), mono is monotime_get(), both in microseconds.   *)
(*                                                                         *)
(* An operator whose name starts with Bad is a faulty variant of the        *)
(* definition after it; no specification uses it.                           *)
(***************************************************************************)
EXTENDS Integers, Sequences

CONSTANTS
  DelayPolicySet,   \* delay_policy_is_set and delay_policy.mode is not NONE
  HighWater,        \* cell_queue_highwatermark()
  LowWater,         \* cell_queue_lowwatermark()
  MaxQueueSize,     \* max_circuit_cell_queue_size(_out)
  UsecPerTick       \* USEC_PER_TICK of timers.c

ASSUME QueueParameters ==
  /\ DelayPolicySet \in BOOLEAN
  /\ HighWater \in Nat \ {0}
  /\ LowWater \in Nat
  /\ MaxQueueSize \in Nat \ {0}
  /\ UsecPerTick \in Nat \ {0}

Commands == {"CREATE", "RELAY"}

\* packed_cell_t: the circuit id is packed into the cell when it is copied to
\* a queue, ready_tv is the field the modulation adds.
Cell == [seq : Nat, circ_id : Nat, command : Commands, ready_tv : Nat]

Half == [chan : {"none", "open", "closing"}, circ_id : Nat,
         queue : Seq(Cell), delay_queue : Seq(Cell),
         delay_timer : {"none", "armed", "fired"}, expires : Nat,
         last_ready : Nat, streams_blocked : BOOLEAN,
         attached : BOOLEAN, num_cells : Nat,
         sched_pending : BOOLEAN, count : Nat]

\* A direction with no channel, as tor_malloc_zero leaves it.
NewHalf == [chan |-> "none", circ_id |-> 0, queue |-> <<>>,
            delay_queue |-> <<>>, delay_timer |-> "none", expires |-> 0,
            last_ready |-> 0, streams_blocked |-> FALSE, attached |-> FALSE,
            num_cells |-> 0, sched_pending |-> FALSE, count |-> 0]

\* Cells of the half that are not on the wire yet, oldest first.
InFlight(h) == h.queue \o h.delay_queue

-----------------------------------------------------------------------------
(* Timers: timers.c rounds the current time up and the delay down.         *)

CurTick(mono) == (mono + UsecPerTick - 1) \div UsecPerTick

\* schedule_delay_timer: a timer for the first delayed cell; a ready time in
\* the past counts as a zero delay.  Bad: the two times are subtracted the
\* wrong way round.
BadScheduleTimer(h, mono, wall) ==
  LET wait  == wall - Head(h.delay_queue).ready_tv
      delay == IF wait < 0 THEN 0 ELSE wait
  IN  [h EXCEPT !.delay_timer = "armed",
                !.expires = CurTick(mono) + delay \div UsecPerTick]

schedule_delay_timer(h, mono, wall) ==
  LET wait  == Head(h.delay_queue).ready_tv - wall
      delay == IF wait < 0 THEN 0 ELSE wait
  IN  [h EXCEPT !.delay_timer = "armed",
                !.expires = CurTick(mono) + delay \div UsecPerTick]

\* timer_free and the NULL assignment that always follows it.
free_delay_timer(h) == [h EXCEPT !.delay_timer = "none", !.expires = 0]

-----------------------------------------------------------------------------
(* Queueing                                                                *)

\* A cell becomes ready one delay after its predecessor of that direction,
\* or one delay from now when the predecessor's time is past.
BadReadyFromNow(h, wall, delay) == wall + delay

get_ready_timeval(h, wall, delay) ==
  (IF h.last_ready < wall THEN wall ELSE h.last_ready) + delay

\* Bad: a cell that needs no delay skips the delay queue.
BadSkipDelayQueue(h, cell, delay, mono, wall) ==
  LET ready   == get_ready_timeval(h, wall, delay)
      delayed == [h EXCEPT !.last_ready = ready,
                           !.delay_queue = Append(@, [cell EXCEPT !.ready_tv = ready])]
  IN  IF delay = 0 THEN [h EXCEPT !.queue = Append(@, cell)]
      ELSE IF h.delay_timer = "none" THEN schedule_delay_timer(delayed, mono, wall)
      ELSE delayed

delay_or_append_cell(h, cell, delay, mono, wall) ==
  IF ~DelayPolicySet
  THEN [h EXCEPT !.queue = Append(@, cell)]
  ELSE LET ready   == get_ready_timeval(h, wall, delay)
           delayed == [h EXCEPT !.last_ready = ready,
                                !.delay_queue =
                                   Append(@, [cell EXCEPT !.ready_tv = ready])]
       IN  IF h.delay_timer = "none"
           THEN schedule_delay_timer(delayed, mono, wall)
           ELSE delayed

\* cell_queue_append_packed_copy: pack the cell with the circuit id the
\* direction has now.
cell_queue_append_packed_copy(h, command, delay, mono, wall) ==
  LET cell == [seq |-> h.count + 1, circ_id |-> h.circ_id,
               command |-> command, ready_tv |-> 0]
  IN  delay_or_append_cell([h EXCEPT !.count = @ + 1], cell, delay, mono, wall)

update_circuit_on_cmux(h) ==
  IF h.attached THEN [h EXCEPT !.num_cells = Len(h.queue)] ELSE h

scheduler_channel_has_waiting_cells(h) ==
  IF h.chan = "open" THEN [h EXCEPT !.sched_pending = TRUE] ELSE h

\* The limit on the main queue.
QueueFull(h) == Len(h.queue) >= MaxQueueSize

\* Both queues count for blocking the edge streams ...
TooManyCells(h) == Len(h.queue) + Len(h.delay_queue) >= HighWater

\* ... and what append_cell_to_circuit_queue does after the copy.
append_tail(h) ==
  scheduler_channel_has_waiting_cells(
    update_circuit_on_cmux(
      [h EXCEPT !.streams_blocked = @ \/ TooManyCells(h)]))

\* circuit_clear_cell_queue: the delay queue is not touched.
circuit_clear_cell_queue(h) ==
  update_circuit_on_cmux([h EXCEPT !.queue = <<>>])

\* marked_circuit_free_cells, one direction: both queues and the timer, but
\* not the circuitmux entry.
BadKeepTimer(h) == [h EXCEPT !.queue = <<>>, !.delay_queue = <<>>]

free_cells(h) ==
  free_delay_timer([h EXCEPT !.queue = <<>>, !.delay_queue = <<>>])

-----------------------------------------------------------------------------
(* The delay timer's callback and the flush                                *)

\* The loop of cell_ready_callback runs for (i=0; i<delay_queue->n; i++) and
\* pops on each turn, so it stops at half of the queue, or before the first
\* cell but the head that is not ready.  n is the number of turns.
StopsAfter(q, wall, n) ==
  LET half == (Len(q) + 1) \div 2
  IN  /\ n \in 0..half
      /\ \A i \in 2..n : q[i].ready_tv <= wall
      /\ n < half => n >= 1 /\ q[n + 1].ready_tv > wall

\* n turns of that loop: pop from the delay queue, append to the main queue.
BadPopsOneMore(h, n) ==
  [h EXCEPT !.queue = @ \o SubSeq(h.delay_queue, 1, n),
            !.delay_queue = SubSeq(@, n + 2, Len(@))]

moved_cells(h, n) ==
  [h EXCEPT !.queue = @ \o SubSeq(h.delay_queue, 1, n),
            !.delay_queue = SubSeq(@, n + 1, Len(@))]

\* Bad: nobody is told of the cells; the timer is not scheduled again.
BadUntold(h, n, mono, wall) ==
  LET moved == moved_cells(free_delay_timer(h), n)
  IN  IF moved.delay_queue = <<>> THEN moved
      ELSE schedule_delay_timer(moved, mono, wall)

BadNoRearm(h, n, mono, wall) ==
  scheduler_channel_has_waiting_cells(
    update_circuit_on_cmux(moved_cells(free_delay_timer(h), n)))

\* cell_ready_callback on an open circuit whose channel is there: release n
\* cells, tell the circuitmux and the scheduler, rearm for what is left.
release_cells(h, n, mono, wall) ==
  LET told == scheduler_channel_has_waiting_cells(
                update_circuit_on_cmux(moved_cells(free_delay_timer(h), n)))
  IN  IF told.delay_queue = <<>> THEN told
      ELSE schedule_delay_timer(told, mono, wall)

\* channel_flush_from_first_active_circuit, one cell of this circuit: only
\* the main queue counts for unblocking.
BadNeverUnblocks(h) ==
  [h EXCEPT !.queue = Tail(@), !.num_cells = Len(h.queue) - 1]

flush_cell(h) ==
  LET popped == [h EXCEPT !.queue = Tail(@), !.num_cells = Len(h.queue) - 1]
  IN  [popped EXCEPT !.streams_blocked =
                        @ /\ ~(Len(popped.queue) <= LowWater)]

\* The mux took the circuit for active but its queue is empty.
flush_empty(h) == [h EXCEPT !.num_cells = 0]

\* channel_flush_some_cells flushed nothing: SCHED_CHAN_WAITING_FOR_CELLS.
scheduler_idle(h) == [h EXCEPT !.sched_pending = FALSE]

\* cell_ready_callback on a marked circuit returns with the pointer to the
\* timer left in place.
leave_fired_timer(h) == [h EXCEPT !.delay_timer = "fired", !.expires = 0]

-----------------------------------------------------------------------------
(* Channels                                                                *)

\* channel_mark_for_close, channel_closed: out of the scheduler.
channel_closing(h) == [h EXCEPT !.chan = "closing", !.sched_pending = FALSE]

\* channel_write_packed_cell fails: the channel starts to close and every
\* later write of the flush fails too, until the queue is empty.
flush_fails(h) == channel_closing([h EXCEPT !.queue = <<>>, !.num_cells = 0])

\* circuit_set_{n,p}_circid_chan to a new channel and id: attach to its mux.
set_circid_chan(h, id) ==
  [h EXCEPT !.chan = "open", !.circ_id = id, !.attached = TRUE,
            !.num_cells = Len(h.queue)]

\* circuitmux_detach_circuit
detach(h) == [h EXCEPT !.attached = FALSE, !.num_cells = 0]

\* circuit_set_{n,p}_circid_chan(circ, 0, NULL) on a circuit that is not
\* marked: it is detached from the old channel's mux first.
BadStaysInMux(h) ==
  [h EXCEPT !.chan = "none", !.circ_id = 0, !.sched_pending = FALSE]

clear_circid_chan(h) ==
  [detach(h) EXCEPT !.chan = "none", !.circ_id = 0, !.sched_pending = FALSE]

-----------------------------------------------------------------------------
(* What holds of each direction of a circuit in the given phase between two *)
(* callbacks.                                                              *)

\* The delay timer and the delay queue.
TimerInv(h, phase) ==
  /\ ~DelayPolicySet => h.delay_queue = <<>>
  /\ phase = "open" /\ h.chan # "none" /\ h.delay_queue # <<>>
       => h.delay_timer = "armed"
  /\ h.delay_timer = "armed" => h.delay_queue # <<>>
  /\ h.delay_timer = "fired" => phase = "marked"

\* The circuitmux entry and the scheduler.
MuxInv(h, phase) ==
  /\ h.attached = (h.chan # "none")
  /\ h.attached => h.num_cells >= Len(h.queue)
  /\ h.attached /\ phase = "open" => h.num_cells = Len(h.queue)
  /\ h.chan = "open" /\ h.num_cells > 0 => h.sched_pending
  /\ phase = "open" /\ h.chan = "none" => h.queue = <<>>

\* A freed circuit.
FreedInv(h, phase) ==
  phase = "freed" =>
    /\ h.delay_timer = "none"
    /\ h.queue = <<>>
    /\ h.delay_queue = <<>>
    /\ h.chan = "none"

HalfInv(h, phase) ==
  /\ h \in Half
  /\ TimerInv(h, phase)
  /\ MuxInv(h, phase)
  /\ FreedInv(h, phase)
=============================================================================

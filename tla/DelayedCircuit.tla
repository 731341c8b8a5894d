--------------------------- MODULE DelayedCircuit ---------------------------
(***************************************************************************)
(* One OR circuit at the relay that delays its cells, from the CREATE that  *)
(* made it to circuit_free_: the cells that come in from both sides and     *)
(* from exit streams, the two delay timers, the flushes of the two          *)
(* channels, the EXTEND and TRUNCATE that change the next hop, the out-of-  *)
(* memory killer, and every way to be marked and freed.  Tor runs this on   *)
(* one thread: each action is one event-loop callback, run to its end.      *)
(*                                                                         *)
(* OUT is away from the origin (n_chan), IN is towards it (p_chan).         *)
(***************************************************************************)
EXTENDS CellQueues

CONSTANTS
  Streams,     \* exit streams that may be attached to the circuit
  Delays,      \* what get_delay_timeval may return, in microseconds
  MaxTime,     \* bound: last microsecond of either clock
  MaxCells,    \* bound: cells accepted per direction, a function
  MaxHops,     \* bound: next hops the circuit is extended to
  MaxJumps,    \* bound: times the wall clock is set
  Truncates    \* whether the origin may send RELAY_COMMAND_TRUNCATE

Dirs == {"OUT", "IN"}

ASSUME CircuitParameters ==
  /\ Delays \subseteq Nat
  /\ MaxTime \in Nat
  /\ MaxCells \in [Dirs -> Nat]
  /\ MaxHops \in Nat
  /\ MaxJumps \in Nat
  /\ Truncates \in BOOLEAN
  /\ "none" \notin Streams

VARIABLES
  circ,      \* the circuit: see CircType
  destroyq,  \* per direction, circuit ids in the channel's destroy queue
  wire,      \* per direction, the last cell written and the ids destroyed
  mono,      \* monotime_get()
  wall,      \* gettimeofday()
  jumps      \* times the wall clock was set

vars == <<circ, destroyq, wire, mono, wall, jumps>>

\* phase: not marked, marked_for_close, freed.  n_hop: the circuit waits for
\* a channel to its next hop (CIRCUIT_STATE_CHAN_WAIT).  streams is n_streams,
\* stopped those of them with edge_blocked_on_circ.
CircType ==
  [phase : {"open", "marked", "freed"}, half : [Dirs -> Half],
   n_hop : BOOLEAN, hops : Nat,
   streams : SUBSET Streams, stopped : SUBSET Streams]

TypeOK ==
  /\ circ \in CircType
  /\ circ.stopped \subseteq circ.streams
  /\ destroyq \in [Dirs -> Seq(Nat)]
  /\ wire \in [Dirs -> [seq : Nat, circ_id : Nat, destroyed : SUBSET Nat]]
  /\ mono \in Nat
  /\ wall \in Nat
  /\ jumps \in Nat

\* The circuit as command_process_create_cell leaves it: attached to the
\* channel the CREATE came from, no next hop.
Init ==
  /\ circ = [phase |-> "open",
             half |-> [d \in Dirs |->
                         IF d = "IN" THEN set_circid_chan(NewHalf, 1)
                         ELSE NewHalf],
             n_hop |-> FALSE, hops |-> 0, streams |-> {}, stopped |-> {}]
  /\ destroyq = [d \in Dirs |-> <<>>]
  /\ wire = [d \in Dirs |-> [seq |-> 0, circ_id |-> 0, destroyed |-> {}]]
  /\ mono = 0
  /\ wall = 0
  /\ jumps = 0

-----------------------------------------------------------------------------
(* What the handlers are made of: operators from a circuit to a circuit    *)

circuit_mark_for_close(c) ==
  IF c.phase = "open" THEN [c EXCEPT !.phase = "marked"] ELSE c

\* marked_circuit_free_cells
marked_circuit_free_cells(c) ==
  [c EXCEPT !.half = [d \in Dirs |-> free_cells(c.half[d])]]

\* append_cell_to_circuit_queue.  oom says that cell_queues_check_size found
\* the process over its memory limit and that circuits_handle_oom chose this
\* circuit; s is the stream the cell was packaged from, or NoStream.
NoStream == "none"

append_cell_to_circuit_queue(c, d, command, s, delay, oom) ==
  LET h     == c.half[d]
      added == cell_queue_append_packed_copy(h, command, delay, mono, wall)
      done  == append_tail(added)
      stop  == IF d = "OUT" THEN {}
               ELSE IF h.streams_blocked THEN {s} \cap c.streams
               ELSE IF done.streams_blocked THEN c.streams
               ELSE {}
  IN  IF c.phase # "open" THEN c
      ELSE IF QueueFull(h) THEN circuit_mark_for_close(c)
      ELSE IF oom
           THEN marked_circuit_free_cells(
                  circuit_mark_for_close([c EXCEPT !.half[d] = added]))
      ELSE [c EXCEPT !.half[d] = done, !.stopped = @ \cup stop]

\* Bound of every action that appends: the cell fits in MaxCells, and its
\* ready time before the end of time.
Fits(d, delay) ==
  /\ circ.half[d].count < MaxCells[d]
  /\ get_ready_timeval(circ.half[d], wall, delay) <= MaxTime

\* circuit_deliver_create_cell: take a fresh circuit id on the open channel
\* and queue the CREATE for the next hop.
circuit_deliver_create_cell(c, delay, oom) ==
  append_cell_to_circuit_queue(
    [c EXCEPT !.half["OUT"] = set_circid_chan(@, c.hops + 1),
              !.hops = @ + 1,
              !.n_hop = FALSE],
    "OUT", "CREATE", NoStream, delay, oom)

-----------------------------------------------------------------------------
(* Cells that arrive                                                       *)

\* circuit_receive_relay_cell away from the origin, not recognized: pass it
\* on, or close the circuit when it stops here.
ReceiveOut ==
  /\ circ.phase = "open"
  /\ \E delay \in Delays, oom \in BOOLEAN :
       /\ Fits("OUT", delay)
       /\ circ' = IF circ.half["OUT"].chan = "none"
                  THEN circuit_mark_for_close(circ)
                  ELSE append_cell_to_circuit_queue(circ, "OUT", "RELAY",
                                                    NoStream, delay, oom)
  /\ UNCHANGED <<destroyq, wire, mono, wall, jumps>>

\* A cell towards the origin that no stream's data made: one from the next
\* hop, or this relay's own CREATED, EXTENDED, CONNECTED, END or SENDME.
ReceiveIn ==
  /\ circ.phase = "open"
  /\ \E delay \in Delays, oom \in BOOLEAN :
       /\ Fits("IN", delay)
       /\ circ' = append_cell_to_circuit_queue(circ, "IN", "RELAY", NoStream,
                                               delay, oom)
  /\ UNCHANGED <<destroyq, wire, mono, wall, jumps>>

\* connection_edge_package_raw_inbuf of an exit stream that may read.
PackageFromStream(s) ==
  /\ circ.phase = "open"
  /\ s \in circ.streams \ circ.stopped
  /\ \E delay \in Delays, oom \in BOOLEAN :
       /\ Fits("IN", delay)
       /\ circ' = append_cell_to_circuit_queue(circ, "IN", "RELAY", s,
                                               delay, oom)
  /\ UNCHANGED <<destroyq, wire, mono, wall, jumps>>

\* connection_exit_connect: a stream joins n_streams, not blocked.
OpenStream(s) ==
  /\ circ.phase = "open"
  /\ s \notin circ.streams
  /\ circ' = [circ EXCEPT !.streams = @ \cup {s}]
  /\ UNCHANGED <<destroyq, wire, mono, wall, jumps>>

\* The stream ends and is unlinked from the circuit.
BadCloseStream(s) ==
  /\ circ.phase = "open"
  /\ s \in circ.streams
  /\ circ' = [circ EXCEPT !.streams = @ \ {s}]
  /\ UNCHANGED <<destroyq, wire, mono, wall, jumps>>

CloseStream(s) ==
  /\ circ.phase = "open"
  /\ s \in circ.streams
  /\ circ' = [circ EXCEPT !.streams = @ \ {s}, !.stopped = @ \ {s}]
  /\ UNCHANGED <<destroyq, wire, mono, wall, jumps>>

-----------------------------------------------------------------------------
(* Changing the next hop                                                   *)

\* circuit_extend: refused when there is a next hop already or one is being
\* connected, when the cell is bad or no circuit id is left; else the CREATE
\* goes out at once on an open channel, or the circuit waits for one.
Extend ==
  /\ circ.phase = "open"
  /\ \/ circ' = circuit_mark_for_close(circ)
     \/ /\ circ.half["OUT"].chan = "none"
        /\ ~circ.n_hop
        /\ circ.hops < MaxHops
        /\ \/ circ' = [circ EXCEPT !.n_hop = TRUE]
           \/ \E delay \in Delays, oom \in BOOLEAN :
                /\ Fits("OUT", delay)
                /\ circ' = circuit_deliver_create_cell(circ, delay, oom)
  /\ UNCHANGED <<destroyq, wire, mono, wall, jumps>>

\* circuit_n_chan_done: the channel the circuit waits for opened or failed.
NChanDone ==
  /\ circ.phase = "open"
  /\ circ.n_hop
  /\ \/ circ' = circuit_mark_for_close(circ)
     \/ \E delay \in Delays, oom \in BOOLEAN :
          /\ Fits("OUT", delay)
          /\ circ' = circuit_deliver_create_cell(circ, delay, oom)
  /\ UNCHANGED <<destroyq, wire, mono, wall, jumps>>

\* channel_send_destroy: nothing is sent on a channel that is going away.
destroys_for(h) == IF h.chan = "open" THEN <<h.circ_id>> ELSE <<>>

\* RELAY_COMMAND_TRUNCATE: forget a pending connection; drop the cells queued
\* for the next hop, send it a DESTROY, and let go of it; answer TRUNCATED.
cut_next_hop(c) ==
  IF c.half["OUT"].chan = "none" THEN c
  ELSE [c EXCEPT !.half["OUT"] = clear_circid_chan(circuit_clear_cell_queue(@))]

Truncate ==
  /\ Truncates
  /\ circ.phase = "open"
  /\ \E delay \in Delays, oom \in BOOLEAN :
       /\ Fits("IN", delay)
       /\ circ' = append_cell_to_circuit_queue(
                    cut_next_hop([circ EXCEPT !.n_hop = FALSE]),
                    "IN", "RELAY", NoStream, delay, oom)
  /\ destroyq' = [destroyq EXCEPT !["OUT"] = @ \o destroys_for(circ.half["OUT"])]
  /\ UNCHANGED <<wire, mono, wall, jumps>>

-----------------------------------------------------------------------------
(* Closing                                                                 *)

\* command_process_destroy_cell, from behind (IN) or from ahead (OUT).
ReceiveDestroy(d) ==
  /\ circ.phase = "open"
  /\ circ.half[d].chan # "none"
  /\ circ' = circuit_mark_for_close(
               [circ EXCEPT !.half[d] = clear_circid_chan(@)])
  /\ UNCHANGED <<destroyq, wire, mono, wall, jumps>>

\* channel_mark_for_close on the channel of direction d, for its own reasons.
ChannelClosing(d) ==
  /\ circ.phase # "freed"
  /\ circ.half[d].chan = "open"
  /\ circ' = [circ EXCEPT !.half[d] = channel_closing(@)]
  /\ UNCHANGED <<destroyq, wire, mono, wall, jumps>>

\* circuit_unlink_all_from_channel when that channel is closed: detached from
\* the mux whether marked or not, marked if it was not.
ChannelClosed(d) ==
  /\ circ.phase # "freed"
  /\ circ.half[d].chan = "closing"
  /\ circ' = circuit_mark_for_close(
               [circ EXCEPT !.half[d] = clear_circid_chan(@)])
  /\ destroyq' = [destroyq EXCEPT ![d] = <<>>]
  /\ UNCHANGED <<wire, mono, wall, jumps>>

\* Every other call of circuit_mark_for_close: protocol errors, timeouts.
MarkForClose ==
  /\ circ.phase = "open"
  /\ circ' = circuit_mark_for_close(circ)
  /\ UNCHANGED <<destroyq, wire, mono, wall, jumps>>

\* circuits_handle_oom run for another circuit's cell picks this one, which
\* may be marked already.
HandleOom ==
  /\ circ.phase # "freed"
  /\ circ' = marked_circuit_free_cells(circuit_mark_for_close(circ))
  /\ UNCHANGED <<destroyq, wire, mono, wall, jumps>>

\* circuit_close_all_marked: circuit_about_to_free, then circuit_free_.
CloseAllMarked ==
  /\ circ.phase = "marked"
  /\ circ' = [circ EXCEPT
                !.phase = "freed",
                !.half = [d \in Dirs |->
                            free_cells(clear_circid_chan(circ.half[d]))],
                !.n_hop = FALSE, !.streams = {}, !.stopped = {}]
  /\ destroyq' = [d \in Dirs |-> destroyq[d] \o destroys_for(circ.half[d])]
  /\ UNCHANGED <<wire, mono, wall, jumps>>

-----------------------------------------------------------------------------
(* The scheduler and the two channels                                      *)

\* channel_flush_from_first_active_circuit picks this circuit and writes a
\* cell; the streams start reading again when the main queue is short.
Flush(d) ==
  LET h == circ.half[d]
      f == flush_cell(h)
  IN  /\ h.chan = "open"
      /\ h.sched_pending
      /\ h.num_cells > 0
      /\ h.queue # <<>>
      /\ circ' = [circ EXCEPT
                    !.half[d] = f,
                    !.stopped = IF d = "IN" /\ h.streams_blocked
                                            /\ ~f.streams_blocked
                                THEN {} ELSE @]
      /\ wire' = [wire EXCEPT ![d].seq = Head(h.queue).seq,
                              ![d].circ_id = Head(h.queue).circ_id]
      /\ UNCHANGED <<destroyq, mono, wall, jumps>>

\* The mux took the circuit for active but its queue is empty: the counter
\* is set right, and a circuit that is not marked is closed.
FlushEmpty(d) ==
  /\ circ.half[d].chan = "open"
  /\ circ.half[d].sched_pending
  /\ circ.half[d].num_cells > 0
  /\ circ.half[d].queue = <<>>
  /\ circ' = circuit_mark_for_close([circ EXCEPT !.half[d] = flush_empty(@)])
  /\ UNCHANGED <<destroyq, wire, mono, wall, jumps>>

\* channel_write_packed_cell fails, which ends with the circuit marked; the
\* channel's own DESTROY cells are lost the same way.
FlushFails(d) ==
  /\ circ.half[d].chan = "open"
  /\ circ.half[d].sched_pending
  /\ circ.half[d].num_cells > 0
  /\ circ.half[d].queue # <<>>
  /\ circ' = circuit_mark_for_close(
               [circ EXCEPT !.half[d] = flush_fails(@)])
  /\ destroyq' = [destroyq EXCEPT ![d] = <<>>]
  /\ UNCHANGED <<wire, mono, wall, jumps>>

\* The mux has a DESTROY to send: circuits that went away come in between
\* the cells of those that did not.
FlushDestroy(d) ==
  /\ destroyq[d] # <<>>
  /\ circ.half[d].chan # "closing"
  /\ destroyq' = [destroyq EXCEPT ![d] = Tail(@)]
  /\ wire' = [wire EXCEPT ![d].destroyed = @ \cup {Head(destroyq[d])}]
  /\ UNCHANGED <<circ, mono, wall, jumps>>

\* The scheduler flushed nothing: SCHED_CHAN_WAITING_FOR_CELLS.
SchedulerIdle(d) ==
  /\ circ.half[d].sched_pending
  /\ circ.half[d].num_cells = 0
  /\ circ' = [circ EXCEPT !.half[d] = scheduler_idle(@)]
  /\ UNCHANGED <<destroyq, wire, mono, wall, jumps>>

-----------------------------------------------------------------------------
(* Time                                                                    *)

\* timers_run_pending runs cell_ready_callback; with the channel gone the
\* timer is freed and the cells stay where they are.
cell_ready_callback(c, d, n) ==
  LET h == c.half[d]
  IN  IF c.phase # "open"
      THEN [c EXCEPT !.half[d] = leave_fired_timer(@)]
      ELSE IF h.chan = "none"
      THEN [c EXCEPT !.half[d] = free_delay_timer(@)]
      ELSE [c EXCEPT !.half[d] = release_cells(@, n, mono, wall)]

TimerFires(d) ==
  /\ circ.half[d].delay_timer = "armed"
  /\ circ.half[d].expires <= CurTick(mono)
  /\ \E n \in 0..Len(circ.half[d].delay_queue) :
       /\ StopsAfter(circ.half[d].delay_queue, wall, n)
       /\ circ' = cell_ready_callback(circ, d, n)
  /\ UNCHANGED <<destroyq, wire, mono, wall, jumps>>

\* A microsecond passes on both clocks.
TimePasses ==
  /\ mono < MaxTime
  /\ mono' = mono + 1
  /\ wall' = wall + 1
  /\ UNCHANGED <<circ, destroyq, wire, jumps>>

\* The wall clock is set, forward or back; the monotonic one is not.
SetWallClock ==
  /\ jumps < MaxJumps
  /\ jumps' = jumps + 1
  /\ \E t \in 0..MaxTime : wall' = t
  /\ UNCHANGED <<circ, destroyq, wire, mono>>

-----------------------------------------------------------------------------
Next ==
  \/ ReceiveOut \/ ReceiveIn
  \/ \E s \in Streams : PackageFromStream(s) \/ OpenStream(s) \/ CloseStream(s)
  \/ Extend \/ NChanDone \/ Truncate
  \/ MarkForClose \/ HandleOom \/ CloseAllMarked
  \/ \E d \in Dirs : \/ ReceiveDestroy(d) \/ ChannelClosing(d) \/ ChannelClosed(d)
                     \/ Flush(d) \/ FlushEmpty(d) \/ FlushFails(d)
                     \/ FlushDestroy(d) \/ SchedulerIdle(d)
                     \/ TimerFires(d)
  \/ TimePasses \/ SetWallClock

\* The event loop runs what is due: timers fire, the scheduler flushes what a
\* channel can write, and marked circuits are freed after the callback that
\* marked them.  Nothing is assumed of the peers, the streams or memory.
Fairness ==
  /\ WF_vars(TimePasses)
  /\ WF_vars(CloseAllMarked)
  /\ \A d \in Dirs : WF_vars(TimerFires(d)) /\ WF_vars(Flush(d))

Spec == Init /\ [][Next]_vars

FairSpec == Spec /\ Fairness

-----------------------------------------------------------------------------
(* Properties                                                              *)

Queued(d) == InFlight(circ.half[d])

\* The inductive invariant: every direction is sound, an open circuit has its
\* channel towards the origin, and a waiting one has no next hop.
CircInv(c) ==
  /\ c \in CircType
  /\ c.stopped \subseteq c.streams
  /\ \A d \in Dirs : HalfInv(c.half[d], c.phase)
  /\ c.phase = "open" => c.half["IN"].chan # "none"
  /\ c.phase = "open" /\ c.n_hop => c.half["OUT"].chan = "none"

IInv == TypeOK /\ CircInv(circ)

\* The ready times of a delay queue never decrease, so the head is due first
\* and one timer per direction is enough, whatever the wall clock does
\* (get_ready_timeval keeps the last time and starts from it).
ReadyInOrder ==
  \A d \in Dirs :
    LET h == circ.half[d] IN
    /\ \A i, j \in 1..Len(h.delay_queue) :
         i < j => h.delay_queue[i].ready_tv <= h.delay_queue[j].ready_tv
    /\ \A i \in 1..Len(h.delay_queue) : h.delay_queue[i].ready_tv <= h.last_ready

\* The delay timer and the delay queue agree: an open circuit with delayed
\* cells for a channel has a timer, a scheduled timer always finds a cell
\* (schedule_delay_timer and the callback dereference the first one), and a
\* timer that ran on a closed circuit belongs to one not freed yet.
TimerMatchesQueue ==
  \A d \in Dirs :
    LET h == circ.half[d] IN
    /\ circ.phase = "open" /\ h.chan # "none" /\ h.delay_queue # <<>>
         => h.delay_timer = "armed"
    /\ h.delay_timer = "armed" => h.delay_queue # <<>>
    /\ h.delay_timer = "fired" => circ.phase = "marked"

\* Nothing outlives the circuit: when circuit_free_ is done no timer holds a
\* pointer to it, no cell is left and no mux or channel knows it.
NothingOutlivesCircuit ==
  circ.phase = "freed" =>
    \A d \in Dirs :
      LET h == circ.half[d] IN
      /\ h.delay_timer = "none"
      /\ Queued(d) = <<>>
      /\ ~h.attached
      /\ h.chan = "none"

\* The circuitmux counts the cells of the main queue of an open circuit, it
\* never misses cells even of a marked one, and a channel that can be written
\* is in the scheduler's list whenever the mux has cells for it: released
\* cells are never left without somebody to flush them.
MuxSeesReleasedCells ==
  \A d \in Dirs :
    LET h == circ.half[d] IN
    /\ h.attached = (h.chan # "none")
    /\ h.attached => h.num_cells >= Len(h.queue)
    /\ h.attached /\ circ.phase = "open" => h.num_cells = Len(h.queue)
    /\ h.chan = "open" /\ h.num_cells > 0 => h.sched_pending

\* Streams that stopped reading are never forgotten: while one is stopped
\* the circuit is marked blocked and still has cells to flush towards the
\* origin, and the flush of the last of them restarts the streams.
StoppedStreamsHaveAWaker ==
  circ.phase = "open" /\ circ.half["IN"].chan = "open" =>
    /\ circ.stopped # {} => circ.half["IN"].streams_blocked
    /\ circ.half["IN"].streams_blocked => Queued("IN") # <<>>

\* A delayed cell leaves its delay queue before its ready time by less than
\* two ticks of timers.c, whatever the order of arrivals, timers and flushes,
\* as long as nobody sets the wall clock.
ReleasedOnTime ==
  [][\A d \in Dirs :
       LET old == circ.half[d].delay_queue
           new == circ'.half[d].delay_queue
       IN  circ'.phase = "open" /\ Len(new) < Len(old) =>
             \A i \in 1..(Len(old) - Len(new)) :
               old[i].ready_tv <= wall + 2 * (UsecPerTick - 1)]_vars

\* Every cell accepted for a channel is written in the end, or the channel
\* or the circuit goes away: no timer, mux counter or scheduler state loses it.
CellsLeave ==
  \A d \in Dirs : \A n \in 1..MaxCells[d] :
    LET held == \E i \in 1..Len(Queued(d)) : Queued(d)[i].seq = n IN
    circ.phase = "open" /\ circ.half[d].chan = "open" /\ held
      ~> ~held \/ circ.half[d].chan # "open"

\* A stopped stream reads again, or it or the circuit is closed.
StreamsRestart ==
  \A s \in Streams :
    s \in circ.stopped ~> s \notin circ.stopped \/ circ.half["IN"].chan # "open"

\* Both directions implement the abstract pipe: no cell overtakes another or is
\* lost, whatever delays, appends, timers and flushes come between.  A cut loses
\* the main queue, the delay queue survives it.  The delayed cells of a closed
\* circuit are lost already: the callback does nothing for them.
Pipe(d) ==
  LET h == circ.half[d]
      q == IF circ.phase = "open" THEN InFlight(h) ELSE h.queue
  IN  [i \in 1..Len(q) |-> q[i].seq]

OutPipe == INSTANCE CellPipe WITH
  pipe <- Pipe("OUT"), accepted <- circ.half["OUT"].count,
  delivered <- wire["OUT"].seq, open <- circ.phase = "open",
  linked <- circ.half["OUT"].chan # "none"

InPipe == INSTANCE CellPipe WITH
  pipe <- Pipe("IN"), accepted <- circ.half["IN"].count,
  delivered <- wire["IN"].seq, open <- circ.phase = "open",
  linked <- circ.half["IN"].chan # "none"

OutIsAPipe == OutPipe!Spec
InIsAPipe == InPipe!Spec

-----------------------------------------------------------------------------
(* What a comment says                                                     *)

\* "Remove all the cells queued on <b>circ</b> for <b>chan</b>.": a cell in a
\* queue of an open circuit is for the channel and id the direction has now.
QueuedForCurrentHop ==
  circ.phase = "open" =>
    \A d \in Dirs : \A i \in 1..Len(Queued(d)) :
      Queued(d)[i].circ_id = circ.half[d].circ_id
=============================================================================

----------------------------- MODULE CircuitMux -----------------------------
(***************************************************************************)
(* The circuits of one channel: its circuitmux with the EWMA policy          *)
(* (circuitmux.c, circuitmux_ewma.c), the queue of DESTROY cells, and the    *)
(* circuit ids of the channel in chan_circid_map (circuitlist.c).            *)
(*                                                                         *)
(* A circuit is seen with the direction that uses this channel: its id       *)
(* there, the length of its main queue, {n,p}_delete_pending.  NewCirc is a   *)
(* circuit that does not use the channel (one that does not exist yet, or     *)
(* one that waits for a next hop).  What fills the queue is in CellQueues,    *)
(* when the scheduler flushes is in ChannelScheduler.                         *)
(*                                                                         *)
(* EWMA weights are exact: cell_count is kept as an integer multiple of       *)
(* 1/Unit, the scale factor is one half per step of the clock.               *)
(*                                                                         *)
(* An operator whose name starts with Bad is a faulty variant of the          *)
(* definition after it; no specification uses it.                             *)
(***************************************************************************)
EXTENDS Integers, Sequences, FiniteSets, SmartlistHeap

CONSTANTS
  Circuits,     \* circuits of the process (their memory is used again)
  Ids,          \* circuit ids of the channel
  TickLen,      \* steps of the clock in ewma_tick_len
  MaxTime,      \* bound: steps of the clock
  MaxCells      \* bound: cells put into queues

ASSUME MuxParameters ==
  /\ Circuits \cap {"none", "placeholder"} = {}
  /\ "none" \notin Ids
  /\ TickLen \in Nat \ {0}
  /\ MaxTime \in Nat
  /\ MaxCells \in Nat

VARIABLES
  chan,       \* state of the channel; "freed" when channel_free_ is done
  circ,       \* the circuits
  owner,      \* chan_circid_map: a circuit, "placeholder", or "none"
  entry,      \* chanid_circid_map of the mux: the circuits attached
  mux,        \* the rest of circuitmux_t and ewma_policy_data_t
  clock,      \* the time and the EWMA ticks of the process
  callback,   \* a send of a DESTROY that is not finished
  queued,     \* cells put into queues so far (bound)
  sent,       \* what each attached circuit sent: a cell at time t weighs 2^t
  overtaken   \* relay cells written since a DESTROY waits

vars == <<chan, circ, owner, entry, mux, clock, callback, queued, sent, overtaken>>

NewCirc == [id |-> "none", marked |-> FALSE, queue |-> 0, delete_pending |-> FALSE]

\* muxinfo and cell_ewma_t of an id; circ = "none" when it is not in the map.
Detached == [circ |-> "none", cell_count |-> 0, weight |-> 0, adjusted |-> 0]

\* 2^n, as a function that can be reasoned about.
TwoTo[n \in Nat] == IF n = 0 THEN 1 ELSE 2 * TwoTo[n - 1]

\* The weight of one cell at the start of the current tick; large enough for
\* all rescaling of a run to be exact.
Unit == TwoTo[MaxTime + 2 * TickLen]

-----------------------------------------------------------------------------
(* Ticks                                                                   *)

\* cell_ewma_get_tick: computes the tick without storing it.
cell_ewma_get_tick == clock.tick + (clock.now - clock.tick_start) \div TickLen

\* cell_ewma_get_current_tick_and_fraction: stores a new tick only when more
\* than a tick has passed; the remainder may be a whole tick.
\* Bad: the start of the tick is not moved.
BadTickStart ==
  LET passed == (clock.now - clock.tick_start) \div TickLen
  IN  IF clock.now - clock.tick_start > TickLen
      THEN [clock EXCEPT !.tick = @ + passed] ELSE clock

current_tick ==
  LET passed == (clock.now - clock.tick_start) \div TickLen
  IN  IF clock.now - clock.tick_start > TickLen
      THEN [clock EXCEPT !.tick = @ + passed,
                         !.tick_start = @ + passed * TickLen]
      ELSE clock

\* get_scale_factor(from, to) applied to a weight.
Scaled(weight, from, to) ==
  IF from <= to THEN weight \div TwoTo[TickLen * (to - from)]
                ELSE weight * TwoTo[TickLen * (from - to)]

-----------------------------------------------------------------------------
(* The mux with its map of circuits: operators on records [m, e].           *)

Key(e) == [i \in Ids |-> e[i].weight]

\* add_cell_ewma: bring the circuit to the scale of the heap, then insert.
\* Bad: as it is.
BadAddUnscaled(s, i) ==
  [s EXCEPT !.m.heap = smartlist_pqueue_add(@, Key(s.e), i)]

add_cell_ewma(s, i) ==
  LET e == [s.e EXCEPT ![i].weight = Scaled(@, s.e[i].adjusted, s.m.recalibrated),
                       ![i].adjusted = s.m.recalibrated]
  IN  [s EXCEPT !.e = e, !.m.heap = smartlist_pqueue_add(@, Key(e), i)]

remove_cell_ewma(s, i) ==
  [s EXCEPT !.m.heap = smartlist_pqueue_remove(@, Key(s.e), i)]

scale_active_circuits(s, tick) ==
  [s EXCEPT
     !.e = [i \in Ids |->
              IF i \in Items(s.m.heap)
              THEN [s.e[i] EXCEPT !.weight = Scaled(@, s.m.recalibrated, tick),
                                  !.adjusted = tick]
              ELSE s.e[i]],
     !.m.recalibrated = tick]

\* circuitmux_set_num_cells.  Bad: the total is not updated for a circuit
\* that becomes inactive.
BadSetNumCells(s, i, n) ==
  LET old == s.e[i].cell_count
      new == [s EXCEPT !.e[i].cell_count = n]
  IN  CASE old > 0 /\ n = 0 -> remove_cell_ewma([new EXCEPT !.m.n_active = @ - 1], i)
        [] old = 0 /\ n > 0 -> add_cell_ewma([new EXCEPT !.m.n_active = @ + 1,
                                                         !.m.n_cells = @ + n], i)
        [] OTHER -> [new EXCEPT !.m.n_cells = @ - old + n]

circuitmux_set_num_cells(s, i, n) ==
  LET old == s.e[i].cell_count
      new == [s EXCEPT !.e[i].cell_count = n, !.m.n_cells = @ - old + n]
  IN  CASE old > 0 /\ n = 0 -> remove_cell_ewma([new EXCEPT !.m.n_active = @ - 1], i)
        [] old = 0 /\ n > 0 -> add_cell_ewma([new EXCEPT !.m.n_active = @ + 1], i)
        [] OTHER -> new

\* circuitmux_attach_circuit: a new entry gets a weight of zero in the current
\* tick, one that is there already only a new count.
circuitmux_attach_circuit(s, c, i, n) ==
  IF s.e[i].circ # "none" THEN circuitmux_set_num_cells(s, i, n)
  ELSE circuitmux_set_num_cells(
         [s EXCEPT !.e[i] = [Detached EXCEPT !.circ = c,
                                             !.adjusted = cell_ewma_get_tick]], i, n)

\* circuitmux_detach_circuit.  Bad: an active circuit stays in the heap.
BadDetach(s, i) ==
  IF s.e[i].circ = "none" THEN s
  ELSE [s EXCEPT !.e[i] = Detached,
                 !.m.n_active = @ - (IF s.e[i].cell_count > 0 THEN 1 ELSE 0),
                 !.m.n_cells = @ - s.e[i].cell_count]

circuitmux_detach_circuit(s, i) ==
  IF s.e[i].circ = "none" THEN s
  ELSE LET quiet == IF s.e[i].cell_count = 0 THEN s
                    ELSE circuitmux_set_num_cells(s, i, 0)
       IN  [quiet EXCEPT !.e[i] = Detached]

\* ewma_notify_xmit_cells for one cell, at the tick the clock has now: the
\* head of the heap is popped and the circuit that sent put back.
\* Bad: nothing is rescaled when a new tick began.
BadXmitUnscaled(s, i) ==
  LET now    == current_tick
      weight == s.e[i].weight + Unit * TwoTo[now.now - now.tick_start]
      paid   == [s EXCEPT !.e[i].weight = weight]
  IN  add_cell_ewma([paid EXCEPT !.m.heap = smartlist_pqueue_pop(@, Key(paid.e))], i)

ewma_notify_xmit_cells(s, i) ==
  LET now    == current_tick
      scaled == IF now.tick = s.m.recalibrated THEN s
                ELSE scale_active_circuits(s, now.tick)
      weight == scaled.e[i].weight + Unit * TwoTo[now.now - now.tick_start]
      paid   == [scaled EXCEPT !.e[i].weight = weight]
  IN  add_cell_ewma([paid EXCEPT !.m.heap = smartlist_pqueue_pop(@, Key(paid.e))], i)

\* circuitmux_notify_xmit_cells, one cell.
circuitmux_notify_xmit_cells(s, i) ==
  LET paid == ewma_notify_xmit_cells(
                [s EXCEPT !.e[i].cell_count = @ - 1, !.m.n_cells = @ - 1], i)
  IN  IF paid.e[i].cell_count > 0 THEN paid
      ELSE remove_cell_ewma([paid EXCEPT !.m.n_active = @ - 1], i)

-----------------------------------------------------------------------------
(* Circuits and ids                                                        *)

State == [m |-> mux, e |-> entry]

Becomes(s) == mux' = s.m /\ entry' = s.e

Idle == callback.step = "idle"

\* Circuits whose main queue this channel flushes.
OnChannel(c) == circ[c].id # "none"

\* update_circuit_on_cmux after the queues changed to those of cs.
update_circuit_on_cmux(s, c, cs) ==
  IF s.e[cs[c].id].circ = "none" THEN s
  ELSE circuitmux_set_num_cells(s, cs[c].id, cs[c].queue)

\* The map after circuit_set_circid_chan_helper(circ, 0, NULL), and what
\* circuit_set_{n,p}_circid_chan does about a DESTROY that waits:
\* channel_mark_circid_unusable.
\* Bad: the id is free although its DESTROY waits.
BadUnlinkedOwner(c) == [owner EXCEPT ![circ[c].id] = "none"]

UnlinkedOwner(c) ==
  [owner EXCEPT ![circ[c].id] =
     IF circ[c].delete_pending THEN "placeholder" ELSE "none"]

\* The circuit leaves the mux, the map and, with them, the sums.
LeavesChannel(c) ==
  /\ owner' = UnlinkedOwner(c)
  /\ Becomes(circuitmux_detach_circuit(State, circ[c].id))
  /\ sent' = [sent EXCEPT ![circ[c].id] = 0]

\* A circuit that does not use the channel gets an id on it: a CREATE that is
\* accepted (n = 0; the id must not be in use), or a circuit extended over the
\* channel with an id that get_unique_circ_id_by_chan found free, whose CREATE
\* is queued at once or delayed.
UseId(c, i, n) ==
  /\ Idle /\ chan = "open"
  /\ ~OnChannel(c) /\ ~circ[c].marked
  /\ owner[i] = "none"
  /\ queued + n <= MaxCells
  /\ circ' = [circ EXCEPT ![c].id = i, ![c].queue = n]
  /\ owner' = [owner EXCEPT ![i] = c]
  /\ Becomes(circuitmux_attach_circuit(State, c, i, n))
  /\ queued' = queued + n
  /\ UNCHANGED <<chan, clock, callback, sent, overtaken>>

\* cell_ready_callback: n delayed cells reach the main queue.
ReleaseCells(c, n) ==
  /\ Idle
  /\ OnChannel(c) /\ ~circ[c].marked
  /\ queued + n <= MaxCells
  /\ circ' = [circ EXCEPT ![c].queue = @ + n]
  /\ Becomes(update_circuit_on_cmux(State, c, circ'))
  /\ queued' = queued + n
  /\ UNCHANGED <<chan, owner, clock, callback, sent, overtaken>>

\* append_cell_to_circuit_queue: the cell is queued, then memory may be short
\* and circuits_handle_oom marks some circuits and empties their queues; the
\* mux hears of this circuit only, and only if it is still open.
AppendCell(c, killed) ==
  /\ Idle
  /\ OnChannel(c) /\ ~circ[c].marked
  /\ \A k \in killed : OnChannel(k)
  /\ queued < MaxCells
  /\ circ' = [k \in Circuits |->
                IF k \in killed THEN [circ[k] EXCEPT !.marked = TRUE, !.queue = 0]
                ELSE IF k = c THEN [circ[k] EXCEPT !.queue = @ + 1] ELSE circ[k]]
  /\ Becomes(IF c \in killed THEN State ELSE update_circuit_on_cmux(State, c, circ'))
  /\ queued' = queued + 1
  /\ UNCHANGED <<chan, owner, clock, callback, sent, overtaken>>

\* circuit_mark_for_close, for any reason, of a circuit that uses the channel.
MarkForClose(c) ==
  /\ Idle
  /\ OnChannel(c) /\ ~circ[c].marked
  /\ circ' = [circ EXCEPT ![c].marked = TRUE]
  /\ UNCHANGED <<chan, owner, entry, mux, clock, callback, queued, sent, overtaken>>

\* command_process_destroy_cell: an open circuit leaves the channel, then it
\* is marked.
ProcessDestroy(c) ==
  /\ Idle /\ chan = "open"
  /\ OnChannel(c) /\ ~circ[c].marked
  /\ LeavesChannel(c)
  /\ circ' = [circ EXCEPT ![c] = [NewCirc EXCEPT !.marked = TRUE]]
  /\ UNCHANGED <<chan, clock, callback, queued, overtaken>>

-----------------------------------------------------------------------------
(* Sending a DESTROY                                                       *)

\* circuitmux_append_destroy_cell for id i.  When the outbuf is empty it is
\* primed with a cell, before the caller goes on.
AppendDestroy(s, i) == [s EXCEPT !.m.destroy_queue = Append(@, i)]

Continue(c, primed) ==
  callback' = [step |-> IF primed THEN "prime" ELSE "finish", circ |-> c]

\* circuit_about_to_free and the TRUNCATE handler on a channel that is open:
\* clear the queue, note that a DESTROY is pending, append it.
SendDestroy(c) ==
  /\ Idle /\ chan = "open" /\ OnChannel(c)
  /\ circ' = [circ EXCEPT ![c].queue = 0, ![c].delete_pending = TRUE]
  /\ Becomes(AppendDestroy(update_circuit_on_cmux(State, c, circ'), circ[c].id))
  /\ \E primed \in BOOLEAN : Continue(c, primed)
  /\ UNCHANGED <<chan, owner, clock, queued, sent, overtaken>>

\* ... the rest of it: detach from the mux, give up the id.
FinishDestroy ==
  /\ callback.step = "finish"
  /\ LET c == callback.circ IN
     IF c = "none" THEN UNCHANGED <<circ, owner, entry, mux, sent>>
     ELSE /\ LeavesChannel(c)
          /\ circ' = [circ EXCEPT ![c] = NewCirc]
  /\ callback' = [step |-> "idle", circ |-> "none"]
  /\ UNCHANGED <<chan, clock, queued, overtaken>>

\* command_process_create_cell refuses a CREATE whose id is not in use.
RefuseCreate(i) ==
  /\ Idle /\ chan = "open"
  /\ owner[i] = "none"
  /\ owner' = [owner EXCEPT ![i] = "placeholder"]
  /\ Becomes(AppendDestroy(State, i))
  /\ \E primed \in BOOLEAN : Continue("none", primed)
  /\ UNCHANGED <<chan, circ, clock, queued, sent, overtaken>>

-----------------------------------------------------------------------------
(* channel_flush_from_first_active_circuit: one turn of its loop, for the   *)
(* scheduler or to prime the outbuf.                                       *)

Flushing == chan = "open" /\ callback.step \in {"idle", "prime"}

\* Priming ends with the first cell; there is one, the DESTROY.
Wrote ==
  callback' = IF Idle THEN callback ELSE [callback EXCEPT !.step = "finish"]

\* circuitmux_get_first_active_circuit.  Bad: it does not alternate.
BadDestroyTurn == mux.destroy_queue # <<>> /\ mux.n_active = 0

DestroyTurn ==
  /\ mux.destroy_queue # <<>>
  /\ ~mux.last_cell_was_destroy \/ mux.n_active = 0

\* ewma_pick_active_circuit
Picked == Head(mux.heap)

\* channel_note_destroy_not_pending, called by write_packed_cell.
\* Bad: it stays noted when the circuit is still there.
BadNotPending(i) ==
  /\ circ' = circ
  /\ owner' = IF owner[i] \in Circuits THEN owner ELSE [owner EXCEPT ![i] = "none"]

channel_note_destroy_not_pending(i) ==
  IF owner[i] \in Circuits
  THEN /\ circ' = [circ EXCEPT ![owner[i]].delete_pending = FALSE]
       /\ owner' = owner
  ELSE /\ owner' = [owner EXCEPT ![i] = "none"]
       /\ circ' = circ

WriteDestroy ==
  /\ Flushing /\ DestroyTurn
  /\ channel_note_destroy_not_pending(Head(mux.destroy_queue))
  /\ mux' = [mux EXCEPT !.destroy_queue = Tail(@), !.last_cell_was_destroy = TRUE]
  /\ overtaken' = 0
  /\ Wrote
  /\ UNCHANGED <<chan, entry, clock, queued, sent>>

\* A circuit the mux takes for active: its id is Picked.
RelayTurn == Flushing /\ ~DestroyTurn /\ mux.n_active > 0 /\ mux.heap # <<>>

\* ... has a cell: write it, tell the mux and the policy.
WriteRelay ==
  /\ RelayTurn
  /\ LET i    == Picked
         c    == entry[i].circ
         left == circ[c].queue - 1
         xmit == circuitmux_notify_xmit_cells(
                   [State EXCEPT !.m.last_cell_was_destroy = FALSE], i)
     IN  /\ circ[c].queue > 0
         /\ circ' = [circ EXCEPT ![c].queue = left]
         /\ Becomes(circuitmux_set_num_cells(xmit, i, left))
         /\ sent' = [sent EXCEPT ![i] = @ + TwoTo[clock.now]]
  /\ clock' = current_tick
  /\ overtaken' = IF mux.destroy_queue = <<>> THEN 0 ELSE overtaken + 1
  /\ Wrote
  /\ UNCHANGED <<chan, owner, queued>>

\* ... has none (memory was reclaimed): tell the mux, close it, go on.
SkipEmpty ==
  /\ RelayTurn
  /\ LET i == Picked
         c == entry[i].circ
     IN  /\ circ[c].queue = 0
         /\ circ' = [circ EXCEPT ![c].marked = TRUE]
         /\ Becomes(circuitmux_set_num_cells(
                      [State EXCEPT !.m.last_cell_was_destroy = FALSE], i, 0))
  /\ UNCHANGED <<chan, owner, clock, callback, queued, sent, overtaken>>

-----------------------------------------------------------------------------
(* The end of circuits and of the channel; time                            *)

\* circuit_free_ of a marked circuit that does not use the channel.
FreeUnlinked(c) ==
  /\ Idle
  /\ circ[c].marked /\ ~OnChannel(c)
  /\ circ' = [circ EXCEPT ![c] = NewCirc]
  /\ UNCHANGED <<chan, owner, entry, mux, clock, callback, queued, sent, overtaken>>

\* circuit_about_to_free while the channel closes: no DESTROY.
FreeWhileClosing(c) ==
  /\ Idle /\ chan = "closing"
  /\ circ[c].marked /\ OnChannel(c)
  /\ LeavesChannel(c)
  /\ circ' = [circ EXCEPT ![c] = NewCirc]
  /\ UNCHANGED <<chan, clock, callback, queued, overtaken>>

\* channel_mark_for_close
CloseChannel ==
  /\ Idle /\ chan = "open"
  /\ chan' = "closing"
  /\ UNCHANGED <<circ, owner, entry, mux, clock, callback, queued, sent, overtaken>>

\* circuitmux_detach_all_circuits takes the circuits of gone out of the heap,
\* one after the other.
remove_one_of(h, gone) ==
  IF Items(h) \cap gone = {} THEN h
  ELSE smartlist_pqueue_remove(h, Key(entry), CHOOSE i \in Items(h) : i \in gone)

remove_all_of(h, gone) ==
  LET after[n \in Nat] == IF n = 0 THEN h ELSE remove_one_of(after[n - 1], gone)
  IN  after[Len(h)]

\* channel_closed: circuit_unlink_all_from_channel detaches every entry whose
\* circuit chan_circid_map still knows, unlinks these circuits and marks them.
ChannelClosed ==
  /\ Idle /\ chan = "closing"
  /\ chan' = "closed"
  /\ LET found == {i \in Ids : entry[i].circ # "none" /\ owner[i] \in Circuits}
         gone  == {owner[i] : i \in found}
     IN  /\ circ' = [c \in Circuits |->
                       IF c \in gone THEN [NewCirc EXCEPT !.marked = TRUE] ELSE circ[c]]
         /\ owner' = [i \in Ids |-> IF owner[i] \in gone THEN "none" ELSE owner[i]]
         /\ entry' = [i \in Ids |-> Detached]
         /\ mux' = [mux EXCEPT !.n_active = 0, !.n_cells = 0,
                               !.heap = remove_all_of(@, found)]
  /\ sent' = [i \in Ids |-> 0]
  /\ UNCHANGED <<clock, callback, queued, overtaken>>

\* channel_free_: circuitmux_mark_destroyed_circids_usable, circuitmux_free.
\* Bad: the ids of queued DESTROYs stay in the map.
BadForgetIds == owner

UsableAgain == [i \in Ids |-> IF i \in Items(mux.destroy_queue) THEN "none" ELSE owner[i]]

FreeChannel ==
  /\ Idle /\ chan = "closed"
  /\ chan' = "freed"
  /\ owner' = UsableAgain
  /\ mux' = [mux EXCEPT !.destroy_queue = <<>>]
  /\ UNCHANGED <<circ, entry, clock, callback, queued, sent, overtaken>>

Tick ==
  /\ Idle
  /\ clock.now < MaxTime
  /\ clock' = [clock EXCEPT !.now = @ + 1]
  /\ UNCHANGED <<chan, circ, owner, entry, mux, callback, queued, sent, overtaken>>

\* The mux of another channel sends: the ticks are those of the process.
OtherMuxSends ==
  /\ Idle
  /\ clock' = current_tick
  /\ UNCHANGED <<chan, circ, owner, entry, mux, callback, queued, sent, overtaken>>

\* A new channel, some time into a tick (ewma_alloc_cmux_data).
Init ==
  /\ chan = "open"
  /\ circ = [c \in Circuits |-> NewCirc]
  /\ owner = [i \in Ids |-> "none"]
  /\ entry = [i \in Ids |-> Detached]
  /\ \E t \in 0..TickLen :
       /\ t <= MaxTime
       /\ clock = [now |-> t, tick |-> 0, tick_start |-> 0]
       /\ mux = [n_active |-> 0, n_cells |-> 0, heap |-> <<>>,
                 recalibrated |-> t \div TickLen,
                 destroy_queue |-> <<>>, last_cell_was_destroy |-> FALSE]
  /\ callback = [step |-> "idle", circ |-> "none"]
  /\ queued = 0
  /\ sent = [i \in Ids |-> 0]
  /\ overtaken = 0

CircuitStep(c) ==
  \/ \E i \in Ids, n \in 0..1 : UseId(c, i, n)
  \/ \E n \in 1..2 : ReleaseCells(c, n)
  \/ \E killed \in SUBSET Circuits : AppendCell(c, killed)
  \/ MarkForClose(c)
  \/ ProcessDestroy(c)
  \/ SendDestroy(c)
  \/ FreeUnlinked(c)
  \/ FreeWhileClosing(c)

Next ==
  \/ \E c \in Circuits : CircuitStep(c)
  \/ \E i \in Ids : RefuseCreate(i)
  \/ FinishDestroy \/ WriteDestroy \/ WriteRelay \/ SkipEmpty
  \/ CloseChannel \/ ChannelClosed \/ FreeChannel
  \/ Tick \/ OtherMuxSends

Spec == Init /\ [][Next]_vars

-----------------------------------------------------------------------------
(* Properties                                                              *)

Attached == {i \in Ids : entry[i].circ # "none"}
Active == {i \in Ids : entry[i].cell_count > 0}

\* The cells that the entries of e count, as pairs of an id and a number.
Counted(e) == UNION {{i} \X (1..e[i].cell_count) : i \in Ids}

\* Copies agree: the circuits in the mux, the id map and the circuits' own ids
\* name each other (circuitmux_detach_all_circuits asserts that it finds every
\* circuit); the mux counts all cells an open circuit has and never fewer than
\* a marked one has (else a circuit is starved, or an open one is closed for
\* an empty queue); the heap holds each active circuit once, all at the tick it
\* was recalibrated at (asserted by scale_active_circuits); the totals that
\* circuitmux_get_first_active_circuit asserts are the sums.
MuxIsConsistent ==
  /\ \A i \in Attached : owner[i] = entry[i].circ
  /\ \A i \in Ids : owner[i] \in Circuits => circ[owner[i]].id = i
  /\ \A c \in Circuits : OnChannel(c) =>
       /\ owner[circ[c].id] = c
       /\ entry[circ[c].id].circ = c
       /\ entry[circ[c].id].cell_count >= circ[c].queue
       /\ ~circ[c].marked => entry[circ[c].id].cell_count = circ[c].queue
  /\ Items(mux.heap) = Active /\ Len(mux.heap) = Cardinality(Active)
  /\ \A i \in Active : entry[i].adjusted = mux.recalibrated
  /\ mux.n_active = Cardinality(Active)
  /\ mux.n_cells = Cardinality(Counted(entry))

\* "Conceptually ... a cell sent N seconds ago counts F^N times as much as a
\* cell sent now, and we favor the circuit that has sent the fewest cells":
\* whatever ticks pass, however lazily weights are rescaled and ids are
\* attached again, a written cell belongs to an active circuit that no other
\* one beats by the exact sum.
QuietestIsPicked ==
  [][\A i \in Ids : sent'[i] > sent[i] =>
       \A j \in Active : sent[i] <= sent[j]]_vars

\* channel_mark_circid_unusable "keep[s] the circuit id from getting re-used
\* while we have queued but not yet sent a destroy cell": every queued DESTROY
\* has an id of its own that no circuit can take, no other id is withheld,
\* and none refers to the channel when it is freed.
IdsAreReserved ==
  LET waiting == Items(mux.destroy_queue)
      Closing(c) == callback.step # "idle" /\ callback.circ = c
  IN  /\ \A a, b \in 1..Len(mux.destroy_queue) :
           mux.destroy_queue[a] = mux.destroy_queue[b] => a = b
      /\ \A i \in waiting :
           \/ owner[i] = "placeholder"
           \/ owner[i] \in Circuits /\ Closing(owner[i]) /\ circ[owner[i]].delete_pending
      /\ \A i \in Ids : owner[i] = "placeholder" => i \in waiting
      /\ \A c \in Circuits : circ[c].delete_pending => circ[c].id \in waiting
      /\ chan = "freed" => \A i \in Ids : owner[i] = "none"

\* A DESTROY lets at most one relay cell pass while it waits at the head of
\* its queue, whichever circuits come, go or run empty in between.
DestroysAlternate == overtaken <= 1
=============================================================================

-------------------------- MODULE ChannelScheduler --------------------------
(***************************************************************************)
(* The KIST scheduler of a relay and the channels it serves (scheduler.c,  *)
(* scheduler_kist.c, with the parts of channel.c, channeltls.c,            *)
(* connection_or.c and circuitmux.c that move a channel between scheduler  *)
(* states).  A channel with cells must be in the list of pending channels, *)
(* and whoever is in that list must have a connection and, while the       *)
(* scheduler runs, an entry in its socket table.                           *)
(*                                                                         *)
(* A run of the scheduler is one callback.  It is split into the turns of  *)
(* its loop; nothing else happens while run.phase is not "idle".           *)
(***************************************************************************)
EXTENDS Naturals

CONSTANTS
  Channels,
  None,             \* no channel
  MaxCells,         \* bound, per channel: circuit cells its multiplexer counts
  MaxDestroys,      \* bound: DESTROY cells queued on a channel
  MaxOutbuf,        \* cells that outbuf and kernel take together (KIST's limit)
  KernelThreshold,  \* cells an outbuf keeps while other channels are served
  LowWater          \* below so many cells an outbuf asks for more

ASSUME SchedulerParameters ==
  /\ None \notin Channels
  /\ MaxCells \in [Channels -> Nat]
  /\ {MaxDestroys, KernelThreshold, LowWater} \subseteq Nat
  /\ MaxOutbuf \in Nat \ {0}

VARIABLES
  chan,  \* the channels, each with its connection, multiplexer and table entry
  ev,    \* run_sched_ev is scheduled
  run    \* the local variables of kist_scheduler_run

vars == <<chan, ev, run>>

SchedStates == {"IDLE", "WAITING_FOR_CELLS", "WAITING_TO_WRITE", "PENDING"}

(* cells are in the queues of circuits; stale ones are only in the counts: *)
(* a queue was cleared for memory and its circuit is not freed yet.        *)
Channel(ch) ==
  [state : {"FREED", "OPENING", "OPEN", "CLOSING", "CLOSED"}, conn : BOOLEAN,
   sched : SchedStates, pending : BOOLEAN, entry : BOOLEAN, room : 0..MaxOutbuf,
   cells : 0..MaxCells[ch], stale : 0..MaxCells[ch], destroys : 0..MaxDestroys,
   last_was_destroy : BOOLEAN, outbuf : 0..MaxOutbuf]

(* dirty is only for the properties: the channels that had a cell flushed  *)
(* in this run and no write to the kernel since.                           *)
Run ==
  [phase : {"idle", "loop", "write"}, prev : Channels \cup {None},
   readd : SUBSET Channels, table : SUBSET Channels, dirty : SUBSET Channels]

FreedChannel ==
  [state |-> "FREED", conn |-> FALSE, sched |-> "IDLE", pending |-> FALSE,
   entry |-> FALSE, room |-> 0, cells |-> 0, stale |-> 0, destroys |-> 0,
   last_was_destroy |-> FALSE, outbuf |-> 0]

NoRun == [phase |-> "idle", prev |-> None, readd |-> {}, table |-> {}, dirty |-> {}]

circuitmux_num_cells(c) == c.cells + c.stale + c.destroys

(* scheduler_kist.c: a missing entry is reported and does not limit.       *)
socket_can_write(c) == c.entry => c.room > 0

-----------------------------------------------------------------------------
(* What the rest of the program tells the scheduler.                       *)

MakePending(c) == [c EXCEPT !.sched = "PENDING", !.pending = TRUE]

scheduler_channel_has_waiting_cells(c) ==
  CASE c.sched = "WAITING_FOR_CELLS" -> MakePending(c)
    [] c.sched = "IDLE" -> [c EXCEPT !.sched = "WAITING_TO_WRITE"]
    [] OTHER -> c

scheduler_channel_wants_writes(c) ==
  CASE c.sched = "WAITING_TO_WRITE" -> MakePending(c)
    [] c.sched = "IDLE" -> [c EXCEPT !.sched = "WAITING_FOR_CELLS"]
    [] OTHER -> c

BadReleaseChannel(c) ==
  [c EXCEPT !.entry = FALSE, !.room = 0, !.sched = "IDLE"]

scheduler_release_channel(c) ==
  [c EXCEPT !.pending = FALSE, !.entry = FALSE, !.room = 0, !.sched = "IDLE"]

Closing(c) == scheduler_release_channel([c EXCEPT !.state = "CLOSING"])

(* A channel that became pending scheduled the event.                      *)
ScheduleFor(old, new) == ev' = (ev \/ (new.pending /\ ~old.pending))

-----------------------------------------------------------------------------
(* Writing: circuit queues to outbuf, outbuf to kernel.                    *)

connection_or_flushed_some(c) ==
  IF c.outbuf < LowWater THEN scheduler_channel_wants_writes(c) ELSE c

(* The outcomes of a write: some cells leave, or the connection breaks.    *)
(* Nothing is written on a connection that is marked for close.            *)
connection_handle_write(c) ==
  IF c.state # "OPEN" \/ c.outbuf = 0
    THEN {c}
    ELSE {c, Closing(c)}
           \cup {connection_or_flushed_some([c EXCEPT !.outbuf = n]) :
                   n \in 0..(c.outbuf - 1)}

(* Putting a cell on the outbuf of the connection may fail, which closes   *)
(* the channel; the caller is not told.                                    *)
channel_write_packed_cell(c) ==
  {[c EXCEPT !.outbuf = @ + 1], Closing(c)}

(* One cell of the multiplexer's choice.  DESTROYs and circuits take turns. *)
(* A circuit without cells loses its count when it is chosen; it has used  *)
(* the circuits' turn up.                                                  *)
channel_flush_one(c) ==
  LET destroy(d) == channel_write_packed_cell(
                      [d EXCEPT !.destroys = @ - 1, !.last_was_destroy = TRUE])
      relayed(d) == channel_write_packed_cell(
                      [d EXCEPT !.cells = @ - 1, !.last_was_destroy = FALSE])
      left(s) == [c EXCEPT !.stale = s, !.last_was_destroy = FALSE]
      queued == c.cells + c.stale > 0
  IN CASE c.destroys > 0 /\ (~c.last_was_destroy \/ ~queued) -> destroy(c)
       [] c.destroys > 0 /\ c.last_was_destroy /\ queued ->
            (IF c.cells > 0 THEN relayed(c) ELSE {})
              \cup UNION {destroy(left(s)) : s \in 0..c.stale \ {c.stale}}
       [] c.destroys = 0 /\ c.cells > 0 -> UNION {relayed(left(s)) : s \in 0..c.stale}
       [] OTHER -> {left(0)}

channel_flush_some_cells(c) ==
  IF c.state = "OPEN" /\ circuitmux_num_cells(c) > 0
    THEN channel_flush_one(c)
    ELSE {c}

(* circuitmux_append_destroy_cell: an empty outbuf gets a cell at once.    *)
PrimeBuffer(c) == IF c.outbuf = 0 THEN channel_flush_one(c) ELSE {c}

-----------------------------------------------------------------------------
(* The life of a channel.                                                  *)

Idle == run.phase = "idle"

Becomes(ch, c) ==
  /\ chan' = [chan EXCEPT ![ch] = c]
  /\ ScheduleFor(chan[ch], c)
  /\ UNCHANGED run

Launch(ch) ==
  /\ Idle
  /\ chan[ch].state = "FREED"
  /\ Becomes(ch, [FreedChannel EXCEPT !.state = "OPENING", !.conn = TRUE])

(* The handshake is over.  Circuits that waited for this channel get their *)
(* CREATE cells; then the scheduler hears that the channel is writeable.   *)
channel_change_state_open(ch) ==
  /\ Idle
  /\ chan[ch].state = "OPENING"
  /\ LET open == [chan[ch] EXCEPT !.state = "OPEN"]
         extended(n) ==
           IF n = 0 THEN open
           ELSE scheduler_channel_has_waiting_cells([open EXCEPT !.cells = n])
     IN \E n \in 0..MaxCells[ch] :
          Becomes(ch, scheduler_channel_wants_writes(extended(n)))

(* append_cell_to_circuit_queue and cell_ready_callback.  The circuits of  *)
(* a closing channel are attached until its connection is gone.  The       *)
(* scheduler is told of a cell that goes to a delay queue, too.            *)
AppendCell(ch) ==
  /\ Idle
  /\ chan[ch].state \in {"OPEN", "CLOSING"}
  /\ \E n \in {0, 1} :
       /\ chan[ch].cells + chan[ch].stale + n <= MaxCells[ch]
       /\ Becomes(ch, scheduler_channel_has_waiting_cells(
                        [chan[ch] EXCEPT !.cells = @ + n]))

(* Memory is short: queues are cleared, the counts stay.                   *)
ClearForMemory(ch) ==
  /\ Idle
  /\ \E n \in 1..chan[ch].cells :
       Becomes(ch, [chan[ch] EXCEPT !.cells = @ - n, !.stale = @ + n])

(* Circuits are freed, or let go of the channel after a TRUNCATE.          *)
circuitmux_detach_circuit(ch) ==
  /\ Idle
  /\ \E n \in 0..chan[ch].cells, s \in 0..chan[ch].stale :
       /\ n + s > 0
       /\ Becomes(ch, [chan[ch] EXCEPT !.cells = @ - n, !.stale = @ - s])

channel_send_destroy(ch) ==
  /\ Idle
  /\ chan[ch].state = "OPEN"
  /\ chan[ch].destroys < MaxDestroys
  /\ \E c \in PrimeBuffer([chan[ch] EXCEPT !.destroys = @ + 1]) : Becomes(ch, c)

(* libevent finds the socket writeable.                                    *)
HandleWrite(ch) ==
  /\ Idle
  /\ chan[ch].outbuf > 0
  /\ \E c \in connection_handle_write(chan[ch]) \ {chan[ch]} : Becomes(ch, c)

(* channel_mark_for_close, channel_close_from_lower_layer, _for_error.     *)
Close(ch) ==
  /\ Idle
  /\ chan[ch].state \in {"OPENING", "OPEN"}
  /\ Becomes(ch, Closing(chan[ch]))

(* The connection goes: circuits are unlinked, the channel is closed.      *)
connection_or_about_to_close(ch) ==
  /\ Idle
  /\ chan[ch].state = "CLOSING"
  /\ Becomes(ch, scheduler_release_channel(
                   [chan[ch] EXCEPT !.state = "CLOSED", !.conn = FALSE,
                                    !.outbuf = 0, !.cells = 0, !.stale = 0]))

channel_free(ch) ==
  /\ Idle
  /\ chan[ch].state = "CLOSED"
  /\ LET released == scheduler_release_channel(chan[ch])
     IN Becomes(ch, [released EXCEPT !.state = "FREED", !.destroys = 0,
                                     !.last_was_destroy = FALSE])

-----------------------------------------------------------------------------
(* A run of the scheduler.                                                 *)

(* The kernel's limit leaves out what the outbuf holds already.            *)
Limits(c) == 0..(MaxOutbuf - c.outbuf)

BeginRun ==
  /\ Idle
  /\ ev
  /\ \E limit \in [{ch \in Channels : chan[ch].pending} -> 0..MaxOutbuf] :
       /\ \A ch \in DOMAIN limit : limit[ch] \in Limits(chan[ch])
       /\ chan' = [ch \in Channels |->
                     IF ch \in DOMAIN limit
                       THEN [chan[ch] EXCEPT !.entry = TRUE, !.room = limit[ch]]
                       ELSE chan[ch]]
  /\ ev' = FALSE
  /\ run' = [NoRun EXCEPT !.phase = "loop"]

(* Switching channels writes the outbuf of the previous one if it is long. *)
SwitchWrites(ch) ==
  /\ run.prev \notin {None, ch}
  /\ chan[run.prev].outbuf > KernelThreshold

AfterSwitch(ch) ==
  IF SwitchWrites(ch)
    THEN {[chan EXCEPT ![run.prev] = c] : c \in connection_handle_write(chan[run.prev])}
    ELSE {chan}

BadTableAdd(table, ch) == table

outbuf_table_add(table, ch) == table \cup {ch}

BadHoldBack(c) == MakePending(c)

(* Case 3 of the loop: cells to send, but no room.  The channel stays out  *)
(* of the list for the rest of the run.                                    *)
HoldBack(c) == c

(* What becomes of a channel after its turn (cases 1 to 4).                *)
Decide(c) ==
  IF circuitmux_num_cells(c) = 0 THEN [c EXCEPT !.sched = "WAITING_FOR_CELLS"]
  ELSE IF socket_can_write(c) THEN MakePending(c)
  ELSE HoldBack(c)

HeldBack(c) == circuitmux_num_cells(c) > 0 /\ ~socket_can_write(c)

(* One turn of the loop for the channel taken from the list; after is what *)
(* the switch of channels left.                                            *)
Serve(ch, table, dirty, after) ==
  LET popped == [chan[ch] EXCEPT !.pending = FALSE]
      next(c, held, d) ==
        /\ chan' = [after EXCEPT ![ch] = c]
        /\ run' = [run EXCEPT !.prev = ch, !.table = table, !.dirty = d,
                              !.readd = IF held THEN @ \cup {ch} ELSE @]
  IN IF ~socket_can_write(popped)
       THEN next(Decide(popped), HeldBack(popped), dirty)
       ELSE \E c \in channel_flush_some_cells(popped) :
              LET sent == c.outbuf > popped.outbuf
                  counted == [c EXCEPT !.room = @ - 1]
              IN CASE c.state # "OPEN" ->
                        next([c EXCEPT !.sched = "IDLE"], FALSE, dirty)
                   [] c.state = "OPEN" /\ ~sent ->
                        next([c EXCEPT !.sched = "WAITING_FOR_CELLS"], FALSE, dirty)
                   [] OTHER ->
                        next(Decide(counted), HeldBack(counted), dirty \cup {ch})

(* The list is a heap ordered by the multiplexers' priorities: any channel *)
(* may be the best.                                                        *)
ServeNext(ch) ==
  /\ run.phase = "loop"
  /\ chan[ch].pending
  /\ LET table == outbuf_table_add(run.table, ch)
         written == IF SwitchWrites(ch) THEN {run.prev} ELSE {}
     IN \E after \in AfterSwitch(ch) :
          Serve(ch, table \ written, run.dirty \ written, after)
  /\ UNCHANGED ev

LoopIsOver ==
  /\ run.phase = "loop"
  /\ \A ch \in Channels : ~chan[ch].pending
  /\ run' = [run EXCEPT !.phase = "write"]
  /\ UNCHANGED <<chan, ev>>

(* The outbufs in the table are written.                                   *)
each_channel_write_to_kernel(ch) ==
  /\ run.phase = "write"
  /\ ch \in run.table
  /\ \E c \in connection_handle_write(chan[ch]) :
       chan' = [chan EXCEPT ![ch] = c]
  /\ run' = [run EXCEPT !.table = @ \ {ch}, !.dirty = @ \ {ch}]
  /\ UNCHANGED ev

BadReadd(readd) == {ch \in readd : chan[ch].sched # "PENDING"}

(* The channels that go back to the list.                                  *)
Readd(readd) == readd

(* The held back channels return to the list, whatever became of them      *)
(* meanwhile; scheduler_evt_callback schedules the event again.  What is   *)
(* left of the limits is forgotten: nobody reads it before BeginRun.       *)
EndRun ==
  /\ run.phase = "write"
  /\ run.table = {}
  /\ LET left(ch) == [chan[ch] EXCEPT !.room = 0]
     IN chan' = [ch \in Channels |->
                   IF ch \in Readd(run.readd) THEN MakePending(left(ch)) ELSE left(ch)]
  /\ ev' = (ev \/ \E ch \in Channels : chan'[ch].pending)
  /\ run' = NoRun

-----------------------------------------------------------------------------
Init ==
  /\ chan = [ch \in Channels |-> FreedChannel]
  /\ ev = FALSE
  /\ run = NoRun

ChannelStep(ch) ==
  \/ Launch(ch)
  \/ channel_change_state_open(ch)
  \/ AppendCell(ch)
  \/ ClearForMemory(ch)
  \/ circuitmux_detach_circuit(ch)
  \/ channel_send_destroy(ch)
  \/ HandleWrite(ch)
  \/ Close(ch)
  \/ connection_or_about_to_close(ch)
  \/ channel_free(ch)

RunStep ==
  \/ BeginRun
  \/ \E ch \in Channels : ServeNext(ch)
  \/ LoopIsOver
  \/ \E ch \in Channels : each_channel_write_to_kernel(ch)
  \/ EndRun

Next == (\E ch \in Channels : ChannelStep(ch)) \/ RunStep

Spec == Init /\ [][Next]_vars

(* libevent runs a scheduled event, and a callback runs to its end.        *)
FairSpec == Spec /\ WF_vars(RunStep)

-----------------------------------------------------------------------------
(* Every variable has its type; above all an outbuf never holds more than  *)
(* connection and kernel take, for all the cells that are put on it by     *)
(* priming and by runs whose limits were computed earlier.                 *)
TypeOK ==
  /\ DOMAIN chan = Channels
  /\ \A ch \in Channels : chan[ch] \in Channel(ch)
  /\ ev \in BOOLEAN
  /\ run \in Run

(* No circuit cell of an open channel is forgotten: between two runs its   *)
(* channel is pending and the scheduler's event is on its way (all of      *)
(* scheduler_channel_has_waiting_cells, the four cases of the loop, the    *)
(* list of held back channels and the call of schedule after the run).     *)
NoForgottenCells ==
  \A ch \in Channels :
    /\ Idle
    /\ chan[ch].state = "OPEN"
    /\ chan[ch].cells + chan[ch].stale > 0
    => chan[ch].sched = "PENDING" /\ chan[ch].pending /\ ev

(* None of the scheduler's SCHED_BUG checks fires: the list holds exactly  *)
(* the channels in state PENDING (nobody is added twice), whoever the      *)
(* scheduler touches has a connection whose outbuf it can measure, and     *)
(* while it runs everyone in the list has an entry in the socket table,    *)
(* also after a write failure released a channel in the middle of the run. *)
NoSchedBug ==
  \A ch \in Channels :
    /\ Idle => (chan[ch].pending <=> chan[ch].sched = "PENDING")
    /\ chan[ch].pending => chan[ch].conn /\ ch \notin run.readd
    /\ run.phase = "loop" /\ chan[ch].pending => chan[ch].entry
    /\ ch \in run.readd \cup run.table \cup {run.prev} => chan[ch].conn

(* A cell that a run put on an outbuf gets a write to the kernel in the    *)
(* same run: its channel is in the outbuf table ("Write the outbuf of any  *)
(* channels that still have data"), also when it was written on a switch   *)
(* and served again later.                                                 *)
FlushedIsWritten ==
  /\ run.dirty \subseteq run.table
  /\ Idle => run.dirty = {}

(* A run ends: a channel with cells and without room is not served again   *)
(* in the same run ("we would never exit the scheduling loop").            *)
RunEnds == (run.phase # "idle") ~> Idle
=============================================================================

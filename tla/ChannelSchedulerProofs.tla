----------------------- MODULE ChannelSchedulerProofs -----------------------
(* The inductive invariant of ChannelScheduler and the theorems it gives,  *)
(* for every set of channels and every limit, threshold and watermark.     *)
EXTENDS ChannelScheduler, TLAPS

\* A channel between two calls of the scheduler; held: it waits for the end
\* of the run, outside of the list.
ChannelInv(ch, c, held) ==
  /\ c \in Channel(ch)
  /\ c.cells + c.stale <= MaxCells[ch]
  /\ c.state = "OPENING" => c.cells = 0 /\ c.stale = 0
  /\ c.conn <=> c.state \in {"OPENING", "OPEN", "CLOSING"}
  /\ c.state \notin {"OPEN", "CLOSING"} => c.sched = "IDLE" /\ ~c.pending
  /\ c.state = "OPEN" => c.sched \in {"WAITING_FOR_CELLS", "PENDING"}
  /\ c.pending => c.sched = "PENDING"
  /\ c.sched = "PENDING" => c.pending \/ held
  /\ held => ~c.pending
  /\ c.state = "OPEN" /\ c.cells + c.stale > 0 => c.sched = "PENDING"

\* What the loop may rely on when it takes a channel from the list.
InLoop(c) == c.pending => c.entry /\ c.outbuf + c.room <= MaxOutbuf

\* The channels that the run refers to.
Referred(r) == (r.readd \cup r.table \cup {r.prev}) \ {None}

IInv ==
  /\ ev \in BOOLEAN
  /\ run \in Run
  /\ DOMAIN chan = Channels
  /\ \A ch \in Channels : ChannelInv(ch, chan[ch], ch \in run.readd)
  /\ run.phase = "loop" => \A ch \in Channels : InLoop(chan[ch])
  /\ Idle => run = NoRun /\ \A ch \in Channels : chan[ch].pending => ev
  /\ run.dirty \subseteq run.table
  /\ \A ch \in Referred(run) : chan[ch].state \in {"OPEN", "CLOSING"}

-----------------------------------------------------------------------------
(* One channel.                                                            *)

\* A change of the counts, the outbuf or the table entry that leaves the
\* channel's states alone and adds no circuit cell.
LEMMA CountsDrop ==
  ASSUME NEW ch \in Channels, NEW held \in BOOLEAN,
         NEW c, ChannelInv(ch, c, held), NEW r \in Channel(ch),
         r.state = c.state, r.conn = c.conn, r.sched = c.sched,
         r.pending = c.pending, r.cells <= c.cells, r.stale <= c.stale
  PROVE  ChannelInv(ch, r, held)
<1>1. /\ c \in Channel(ch)
      /\ c.cells \in Nat /\ c.stale \in Nat /\ r.cells \in Nat /\ r.stale \in Nat
      /\ MaxCells[ch] \in Nat
  BY SchedulerParameters DEF ChannelInv, Channel
<1>. QED
  BY <1>1 DEF ChannelInv

\* scheduler_release_channel on a channel that starts to close.
LEMMA ClosingInv ==
  ASSUME NEW ch \in Channels, NEW held \in BOOLEAN,
         NEW c, ChannelInv(ch, c, held), c.state \in {"OPENING", "OPEN", "CLOSING"}
  PROVE  /\ ChannelInv(ch, Closing(c), held)
         /\ Closing(c).state = "CLOSING"
         /\ ~Closing(c).pending
<1>. DEFINE d == [c EXCEPT !.state = "CLOSING"]
            r == scheduler_release_channel(d)
<1>0. c \in Channel(ch) /\ 0 \in 0..MaxOutbuf
  BY SchedulerParameters DEF ChannelInv
<1>2. /\ d \in Channel(ch)
      /\ d.state = "CLOSING" /\ d.conn = c.conn
      /\ d.cells = c.cells /\ d.stale = c.stale
  BY <1>0 DEF Channel
<1>. HIDE DEF d
<1>3. /\ r \in Channel(ch)
      /\ r.state = d.state /\ r.conn = d.conn /\ r.sched = "IDLE" /\ r.pending = FALSE
      /\ r.cells = d.cells /\ r.stale = d.stale
  BY <1>0, <1>2 DEF scheduler_release_channel, Channel, SchedStates
<1>. HIDE DEF r
<1>4. ChannelInv(ch, r, held)
  BY <1>2, <1>3 DEF ChannelInv
<1>5. r = Closing(c)
  BY DEF r, d, Closing
<1>. QED
  BY <1>2, <1>3, <1>4, <1>5

\* Writing to the kernel: scheduler_channel_wants_writes changes nothing, as
\* an open channel is waiting for cells or pending.
LEMMA HandleWriteInv ==
  ASSUME NEW ch \in Channels, NEW held \in BOOLEAN,
         NEW c, ChannelInv(ch, c, held), NEW r \in connection_handle_write(c)
  PROVE  /\ ChannelInv(ch, r, held)
         /\ r.state # c.state => c.state = "OPEN" /\ r.state = "CLOSING"
         /\ r.pending => c.pending /\ r.entry = c.entry
                           /\ r.room = c.room /\ r.outbuf <= c.outbuf
<1>0. c \in Channel(ch) /\ c.outbuf \in 0..MaxOutbuf
  BY DEF ChannelInv, Channel
<1>1. CASE r = c
  BY <1>0, <1>1, SchedulerParameters
<1>2. CASE c.state = "OPEN" /\ r = Closing(c)
  BY <1>2, ClosingInv
<1>3. ASSUME c.state = "OPEN", NEW n \in 0..(c.outbuf - 1),
             r = connection_or_flushed_some([c EXCEPT !.outbuf = n])
      PROVE  /\ ChannelInv(ch, r, held)
             /\ r.state = c.state
             /\ r.pending = c.pending /\ r.entry = c.entry
             /\ r.room = c.room /\ r.outbuf <= c.outbuf
  <2>. DEFINE d == [c EXCEPT !.outbuf = n]
  <2>1. /\ d \in Channel(ch)
        /\ d.state = c.state /\ d.conn = c.conn /\ d.sched = c.sched
        /\ d.pending = c.pending /\ d.entry = c.entry /\ d.room = c.room
        /\ d.cells = c.cells /\ d.stale = c.stale /\ d.outbuf <= c.outbuf
    BY <1>0, SchedulerParameters DEF Channel
  <2>. HIDE DEF d
  <2>2. d.sched \in {"WAITING_FOR_CELLS", "PENDING"}
    BY <1>3, <2>1 DEF ChannelInv
  <2>3. connection_or_flushed_some(d) = d
    BY <2>2 DEF connection_or_flushed_some, scheduler_channel_wants_writes
  <2>4. r = d
    BY <1>3, <2>3 DEF d
  <2>5. d.cells <= c.cells /\ d.stale <= c.stale
    BY <2>1, <1>0, SchedulerParameters DEF Channel
  <2>6. ChannelInv(ch, d, held)
    BY <2>1, <2>5, CountsDrop
  <2>. QED
    BY <2>1, <2>4, <2>6
<1>4. \/ r = c
      \/ c.state = "OPEN" /\ r = Closing(c)
      \/ c.state = "OPEN" /\ \E n \in 0..(c.outbuf - 1) :
                                r = connection_or_flushed_some([c EXCEPT !.outbuf = n])
  BY DEF connection_handle_write
<1>. QED
  BY <1>1, <1>2, <1>3, <1>4

\* What putting a cell of d on its outbuf may leave.
Flushed(ch, held, d, r) ==
  /\ ChannelInv(ch, r, held)
  /\ r.state \in {"OPEN", "CLOSING"}
  /\ r.pending => d.pending
  /\ r.state = "OPEN" =>
       /\ r.pending = d.pending /\ r.sched = d.sched
       /\ r.entry = d.entry /\ r.room = d.room
       /\ \/ r.outbuf = d.outbuf + 1
          \/ r.outbuf = d.outbuf /\ r.cells + r.stale = 0

\* channel_write_packed_cell on an outbuf that has room.
LEMMA WriteCell ==
  ASSUME NEW ch \in Channels, NEW held \in BOOLEAN,
         NEW d, ChannelInv(ch, d, held), d.state = "OPEN", d.outbuf < MaxOutbuf,
         NEW r \in channel_write_packed_cell(d)
  PROVE  Flushed(ch, held, d, r)
<1>0. d \in Channel(ch) /\ MaxOutbuf \in Nat /\ MaxCells[ch] \in Nat
  BY SchedulerParameters DEF ChannelInv
<1>1. CASE r = Closing(d)
  <2>1. ChannelInv(ch, r, held) /\ r.state = "CLOSING" /\ ~r.pending
    BY <1>1, ClosingInv
  <2>. QED
    BY <2>1 DEF Flushed
<1>2. CASE r = [d EXCEPT !.outbuf = @ + 1]
  <2>1. /\ r \in Channel(ch)
        /\ r.state = d.state /\ r.conn = d.conn /\ r.sched = d.sched
        /\ r.pending = d.pending /\ r.entry = d.entry /\ r.room = d.room
        /\ r.cells = d.cells /\ r.stale = d.stale /\ r.outbuf = d.outbuf + 1
    BY <1>0, <1>2 DEF Channel
  <2>2. d.cells <= d.cells /\ d.stale <= d.stale
    BY <1>0 DEF Channel
  <2>3. ChannelInv(ch, r, held)
    BY <2>1, <2>2, CountsDrop
  <2>. QED
    BY <2>1, <2>3 DEF Flushed
<1>. QED
  BY <1>1, <1>2 DEF channel_write_packed_cell

\* A multiplexer that let go of a cell and then has it written.
LEMMA TakeCell ==
  ASSUME NEW ch \in Channels, NEW held \in BOOLEAN,
         NEW c, ChannelInv(ch, c, held), c.state = "OPEN", c.outbuf < MaxOutbuf,
         NEW d \in Channel(ch),
         d.state = c.state, d.conn = c.conn, d.sched = c.sched,
         d.pending = c.pending, d.entry = c.entry, d.room = c.room,
         d.outbuf = c.outbuf, d.cells <= c.cells, d.stale <= c.stale,
         NEW r \in channel_write_packed_cell(d)
  PROVE  Flushed(ch, held, c, r)
<1>1. ChannelInv(ch, d, held)
  BY CountsDrop
<1>2. Flushed(ch, held, d, r)
  BY <1>1, WriteCell
<1>. QED
  BY <1>2 DEF Flushed

\* channel_flush_one: whoever stays open and sent nothing has no cell left.
LEMMA FlushOne ==
  ASSUME NEW ch \in Channels, NEW held \in BOOLEAN,
         NEW c, ChannelInv(ch, c, held), c.state = "OPEN", c.outbuf < MaxOutbuf,
         NEW r \in channel_flush_one(c)
  PROVE  Flushed(ch, held, c, r)
<1>. DEFINE left(s) == [c EXCEPT !.stale = s, !.last_was_destroy = FALSE]
            dd(d) == [d EXCEPT !.destroys = @ - 1, !.last_was_destroy = TRUE]
            rr(d) == [d EXCEPT !.cells = @ - 1, !.last_was_destroy = FALSE]
            Like(d) == /\ d \in Channel(ch)
                       /\ d.state = c.state /\ d.conn = c.conn /\ d.sched = c.sched
                       /\ d.pending = c.pending /\ d.entry = c.entry
                       /\ d.room = c.room /\ d.outbuf = c.outbuf
                       /\ d.cells <= c.cells /\ d.stale <= c.stale
<1>0. c \in Channel(ch) /\ MaxCells[ch] \in Nat /\ MaxDestroys \in Nat
  BY SchedulerParameters DEF ChannelInv
<1>1. Like(c)
  BY <1>0 DEF Channel
<1>2. ASSUME NEW s \in 0..c.stale
      PROVE  /\ Like(left(s))
             /\ left(s).destroys = c.destroys /\ left(s).cells = c.cells
             /\ left(s).stale = s
  <2>1. s \in 0..MaxCells[ch] /\ s <= c.stale /\ c.cells <= c.cells
    BY <1>0 DEF Channel
  <2>. QED
    BY <1>0, <2>1 DEF Channel
<1>3. ASSUME NEW d, Like(d), d.destroys > 0
      PROVE  Like(dd(d))
  <2>1. d.destroys \in 0..MaxDestroys /\ d.destroys - 1 \in 0..MaxDestroys
    BY <1>0, <1>3 DEF Channel
  <2>. QED
    BY <1>3, <2>1 DEF Channel
<1>4. ASSUME NEW d, Like(d), d.cells > 0
      PROVE  Like(rr(d))
  <2>1. /\ d.cells \in 0..MaxCells[ch] /\ d.cells - 1 \in 0..MaxCells[ch]
        /\ d.cells - 1 <= c.cells
    BY <1>0, <1>4 DEF Channel
  <2>. QED
    BY <1>4, <2>1 DEF Channel
<1>5. ASSUME NEW d, Like(d), r \in channel_write_packed_cell(d)
      PROVE  Flushed(ch, held, c, r)
  BY <1>5, TakeCell
<1>6. c.cells \in Nat /\ c.stale \in Nat /\ c.destroys \in Nat
  BY <1>0 DEF Channel
<1>. HIDE DEF Like
<1>7. CASE r \in channel_write_packed_cell(dd(c)) /\ c.destroys > 0
  BY <1>1, <1>3, <1>5, <1>7
<1>8. CASE r \in channel_write_packed_cell(rr(c)) /\ c.cells > 0
  BY <1>1, <1>4, <1>5, <1>8
<1>9. CASE /\ c.destroys > 0
           /\ \E s \in 0..c.stale : r \in channel_write_packed_cell(dd(left(s)))
  <2>1. PICK s \in 0..c.stale : r \in channel_write_packed_cell(dd(left(s)))
    BY <1>9
  <2>. DEFINE d == left(s)
  <2>2. Like(d) /\ d.destroys > 0
    BY <1>2, <1>9
  <2>. HIDE DEF d
  <2>3. Like(dd(d))
    BY <1>3, <2>2
  <2>. QED
    BY <1>5, <2>1, <2>3 DEF d
<1>10. CASE /\ c.cells > 0
            /\ \E s \in 0..c.stale : r \in channel_write_packed_cell(rr(left(s)))
  <2>1. PICK s \in 0..c.stale : r \in channel_write_packed_cell(rr(left(s)))
    BY <1>10
  <2>. DEFINE d == left(s)
  <2>2. Like(d) /\ d.cells > 0
    BY <1>2, <1>10
  <2>. HIDE DEF d
  <2>3. Like(rr(d))
    BY <1>4, <2>2
  <2>. QED
    BY <1>5, <2>1, <2>3 DEF d
<1>11. CASE c.destroys = 0 /\ c.cells = 0 /\ r = left(0)
  <2>0. 0 \in 0..c.stale
    BY <1>6
  <2>1. Like(r) /\ r.cells = 0 /\ r.stale = 0
    BY <1>2, <2>0, <1>11
  <2>2. ChannelInv(ch, r, held)
    BY <2>1, CountsDrop DEF Like
  <2>. QED
    BY <2>1, <2>2 DEF Flushed, Like
<1>12. \/ r \in channel_write_packed_cell(dd(c)) /\ c.destroys > 0
       \/ r \in channel_write_packed_cell(rr(c)) /\ c.cells > 0
       \/ /\ c.destroys > 0
          /\ \E s \in 0..c.stale : r \in channel_write_packed_cell(dd(left(s)))
       \/ /\ c.cells > 0
          /\ \E s \in 0..c.stale : r \in channel_write_packed_cell(rr(left(s)))
       \/ c.destroys = 0 /\ c.cells = 0 /\ r = left(0)
  <2>. DEFINE queued == c.cells + c.stale > 0
  <2>1. CASE c.destroys > 0 /\ (~c.last_was_destroy \/ ~queued)
    BY <2>1 DEF channel_flush_one
  <2>2. CASE c.destroys > 0 /\ c.last_was_destroy /\ queued
    BY <2>2, <1>6 DEF channel_flush_one
  <2>3. CASE c.destroys = 0 /\ c.cells > 0
    BY <2>3, <1>6 DEF channel_flush_one
  <2>4. CASE c.destroys = 0 /\ c.cells = 0
    BY <2>4, <1>6 DEF channel_flush_one
  <2>5. (c.destroys = 0 \/ c.destroys > 0) /\ (c.cells = 0 \/ c.cells > 0)
    BY <1>6
  <2>. HIDE DEF left, dd, rr, queued
  <2>. QED
    BY <2>1, <2>2, <2>3, <2>4, <2>5, Zenon
<1>. QED
  BY <1>7, <1>8, <1>9, <1>10, <1>11, <1>12

-----------------------------------------------------------------------------
(* Between two runs.                                                       *)

LEMMA IdleFacts ==
  ASSUME IInv, Idle
  PROVE  /\ run = NoRun /\ run.readd = {} /\ Referred(run) = {}
         /\ \A ch \in Channels : ChannelInv(ch, chan[ch], FALSE)
<1>1. run = NoRun
  BY DEF IInv
<1>2. run.readd = {} /\ Referred(run) = {}
  BY <1>1 DEF NoRun, Referred
<1>3. \A ch \in Channels : (ch \in run.readd) = FALSE
  BY <1>2
<1>. QED
  BY <1>1, <1>2, <1>3 DEF IInv

LEMMA BecomesInv ==
  ASSUME IInv, Idle, NEW ch \in Channels, NEW c, ChannelInv(ch, c, FALSE),
         Becomes(ch, c)
  PROVE  IInv'
<1>1. /\ run = NoRun /\ run' = NoRun /\ run' = run
      /\ run'.readd = {} /\ Referred(run') = {}
  BY IdleFacts DEF Becomes
<1>2. /\ DOMAIN chan' = Channels
      /\ chan'[ch] = c
      /\ \A x \in Channels : x # ch => chan'[x] = chan[x]
  BY DEF Becomes, IInv
<1>3. \A x \in Channels : ChannelInv(x, chan'[x], x \in run'.readd)
  <2>. TAKE x \in Channels
  <2>1. (x \in run'.readd) = FALSE
    BY <1>1
  <2>2. ChannelInv(x, chan'[x], FALSE)
    BY <1>2, IdleFacts
  <2>. QED
    BY <2>1, <2>2
<1>4. ev' \in BOOLEAN
  BY DEF Becomes, ScheduleFor
<1>5. \A x \in Channels : chan'[x].pending => ev'
  <2>. TAKE x \in Channels
  <2>1. chan[x].pending => ev
    BY DEF IInv
  <2>2. ev' = (ev \/ (c.pending /\ ~chan[ch].pending))
    BY DEF Becomes, ScheduleFor
  <2>3. CASE x = ch
    BY <1>2, <2>1, <2>2, <2>3
  <2>4. CASE x # ch
    BY <1>2, <2>1, <2>2, <2>4
  <2>. QED
    BY <2>3, <2>4
<1>6. run' \in Run /\ run'.phase = "idle" /\ run'.dirty \subseteq run'.table
  BY <1>1 DEF IInv, NoRun
<1>. QED
  BY <1>1, <1>2, <1>3, <1>4, <1>5, <1>6 DEF IInv, Idle

\* scheduler_channel_has_waiting_cells makes an open channel pending.
LEMMA HasWaitingCells ==
  ASSUME NEW ch \in Channels, NEW c \in Channel(ch),
         c.cells + c.stale <= MaxCells[ch],
         c.state \in {"OPEN", "CLOSING"}, c.conn,
         c.state = "OPEN" => c.sched \in {"WAITING_FOR_CELLS", "PENDING"},
         c.pending <=> c.sched = "PENDING"
  PROVE  ChannelInv(ch, scheduler_channel_has_waiting_cells(c), FALSE)
<1>. DEFINE r == scheduler_channel_has_waiting_cells(c)
<1>1. /\ r \in Channel(ch)
      /\ r.cells = c.cells /\ r.stale = c.stale /\ r.state = c.state /\ r.conn = c.conn
      /\ r.sched = (CASE c.sched = "WAITING_FOR_CELLS" -> "PENDING"
                      [] c.sched = "IDLE" -> "WAITING_TO_WRITE"
                      [] OTHER -> c.sched)
      /\ r.pending = IF c.sched = "WAITING_FOR_CELLS" THEN TRUE ELSE c.pending
  <2>1. CASE c.sched = "WAITING_FOR_CELLS"
    BY <2>1 DEF scheduler_channel_has_waiting_cells, MakePending, Channel, SchedStates
  <2>2. CASE c.sched = "IDLE"
    BY <2>2 DEF scheduler_channel_has_waiting_cells, MakePending, Channel, SchedStates
  <2>3. CASE c.sched \notin {"IDLE", "WAITING_FOR_CELLS"}
    BY <2>3 DEF scheduler_channel_has_waiting_cells
  <2>. QED
    BY <2>1, <2>2, <2>3
<1>2. c.sched \in SchedStates
  BY DEF Channel
<1>. HIDE DEF r
<1>3. /\ r.pending <=> r.sched = "PENDING"
      /\ r.state = "OPEN" => r.sched = "PENDING"
  BY <1>1, <1>2 DEF SchedStates
<1>4. ChannelInv(ch, r, FALSE)
  BY <1>1, <1>3 DEF ChannelInv
<1>. QED
  BY <1>4 DEF r

LEMMA LaunchInv ==
  ASSUME IInv, NEW ch \in Channels, Launch(ch)
  PROVE  IInv'
<1>. DEFINE c == [FreedChannel EXCEPT !.state = "OPENING", !.conn = TRUE]
<1>0. /\ 0 \in 0..MaxOutbuf /\ 0 \in 0..MaxCells[ch] /\ 0 \in 0..MaxDestroys
      /\ MaxCells[ch] \in Nat
  BY SchedulerParameters
<1>1. /\ c \in Channel(ch)
      /\ c.state = "OPENING" /\ c.conn = TRUE /\ c.sched = "IDLE" /\ c.pending = FALSE
      /\ c.cells = 0 /\ c.stale = 0
  BY <1>0 DEF FreedChannel, Channel, SchedStates
<1>. HIDE DEF c
<1>2. ChannelInv(ch, c, FALSE)
  BY <1>0, <1>1 DEF ChannelInv
<1>3. Idle /\ Becomes(ch, c)
  BY DEF Launch, c
<1>. QED
  BY <1>2, <1>3, BecomesInv

\* The cells of the circuits that waited come first, so that the channel is
\* pending when it becomes writeable.
LEMMA OpenInv ==
  ASSUME IInv, NEW ch \in Channels, channel_change_state_open(ch)
  PROVE  IInv'
<1>. DEFINE old == chan[ch]
            open == [old EXCEPT !.state = "OPEN"]
            extended(n) ==
              IF n = 0 THEN open
              ELSE scheduler_channel_has_waiting_cells([open EXCEPT !.cells = n])
<1>1. PICK n \in 0..MaxCells[ch] :
        Becomes(ch, scheduler_channel_wants_writes(extended(n)))
  BY DEF channel_change_state_open
<1>2. Idle /\ old.state = "OPENING" /\ ChannelInv(ch, old, FALSE)
  BY IdleFacts DEF channel_change_state_open
<1>3. MaxCells[ch] \in Nat
  BY SchedulerParameters
<1>. HIDE DEF old
<1>4. /\ open \in Channel(ch)
      /\ open.state = "OPEN" /\ open.conn = TRUE /\ open.sched = "IDLE"
      /\ open.pending = FALSE /\ open.cells = 0 /\ open.stale = 0
  BY <1>2 DEF ChannelInv, Channel
<1>. HIDE DEF open
<1>. DEFINE c == scheduler_channel_wants_writes(extended(n))
<1>5. CASE n = 0
  <2>1. c = [open EXCEPT !.sched = "WAITING_FOR_CELLS"]
    BY <1>4, <1>5 DEF scheduler_channel_wants_writes
  <2>2. /\ c \in Channel(ch)
        /\ c.state = "OPEN" /\ c.conn = TRUE /\ c.sched = "WAITING_FOR_CELLS"
        /\ c.pending = FALSE /\ c.cells = 0 /\ c.stale = 0
    BY <1>4, <2>1 DEF Channel, SchedStates
  <2>. HIDE DEF c
  <2>3. ChannelInv(ch, c, FALSE)
    BY <1>3, <2>2 DEF ChannelInv
  <2>. QED
    BY <1>1, <1>2, <2>3, BecomesInv DEF c
<1>6. CASE n # 0
  <2>. DEFINE d == [open EXCEPT !.cells = n]
              w == [d EXCEPT !.sched = "WAITING_TO_WRITE"]
  <2>1. /\ d \in Channel(ch)
        /\ d.state = "OPEN" /\ d.conn = TRUE /\ d.sched = "IDLE"
        /\ d.pending = FALSE /\ d.cells = n /\ d.stale = 0
    BY <1>4 DEF Channel
  <2>2. extended(n) = scheduler_channel_has_waiting_cells(d)
    BY <1>6
  <2>. HIDE DEF d, extended
  <2>3. scheduler_channel_has_waiting_cells(d) = w
    BY <2>1 DEF scheduler_channel_has_waiting_cells
  <2>4. /\ w \in Channel(ch)
        /\ w.state = "OPEN" /\ w.conn = TRUE /\ w.sched = "WAITING_TO_WRITE"
        /\ w.pending = FALSE /\ w.cells = n /\ w.stale = 0
    BY <2>1 DEF Channel, SchedStates
  <2>. HIDE DEF w
  <2>5. scheduler_channel_wants_writes(w) = MakePending(w)
    BY <2>4 DEF scheduler_channel_wants_writes
  <2>6. c = MakePending(w)
    BY <2>2, <2>3, <2>5
  <2>7. /\ c \in Channel(ch)
        /\ c.state = "OPEN" /\ c.conn = TRUE /\ c.sched = "PENDING"
        /\ c.pending = TRUE /\ c.cells = n /\ c.stale = 0
    BY <2>4, <2>6 DEF MakePending, Channel, SchedStates
  <2>. HIDE DEF c
  <2>8. ChannelInv(ch, c, FALSE)
    BY <1>3, <2>7 DEF ChannelInv
  <2>. QED
    BY <1>1, <1>2, <2>8, BecomesInv DEF c
<1>. QED
  BY <1>5, <1>6

LEMMA AppendCellInv ==
  ASSUME IInv, NEW ch \in Channels, AppendCell(ch)
  PROVE  IInv'
<1>. DEFINE old == chan[ch]
<1>1. PICK n \in {0, 1} :
        /\ old.cells + old.stale + n <= MaxCells[ch]
        /\ Becomes(ch, scheduler_channel_has_waiting_cells([old EXCEPT !.cells = @ + n]))
  BY DEF AppendCell
<1>2. Idle /\ old.state \in {"OPEN", "CLOSING"} /\ ChannelInv(ch, old, FALSE)
  BY IdleFacts DEF AppendCell
<1>3. MaxCells[ch] \in Nat /\ old.cells \in Nat /\ old.stale \in Nat
  BY <1>2, SchedulerParameters DEF ChannelInv, Channel
<1>. HIDE DEF old
<1>. DEFINE d == [old EXCEPT !.cells = @ + n]
<1>4. old.cells + n \in 0..MaxCells[ch]
  BY <1>1, <1>3
<1>5. /\ d \in Channel(ch)
      /\ d.state = old.state /\ d.conn = old.conn /\ d.sched = old.sched
      /\ d.pending = old.pending /\ d.cells = old.cells + n /\ d.stale = old.stale
  BY <1>2, <1>4 DEF ChannelInv, Channel
<1>6. d.cells + d.stale <= MaxCells[ch]
  BY <1>1, <1>3, <1>5
<1>. HIDE DEF d
<1>7. ChannelInv(ch, scheduler_channel_has_waiting_cells(d), FALSE)
  BY <1>2, <1>5, <1>6, HasWaitingCells DEF ChannelInv
<1>. QED
  BY <1>1, <1>2, <1>7, BecomesInv DEF d

\* The counts of a cleared queue stay: the channel keeps its state.
LEMMA ClearForMemoryInv ==
  ASSUME IInv, NEW ch \in Channels, ClearForMemory(ch)
  PROVE  IInv'
<1>. DEFINE old == chan[ch]
<1>1. PICK n \in 1..old.cells :
        Becomes(ch, [old EXCEPT !.cells = @ - n, !.stale = @ + n])
  BY DEF ClearForMemory
<1>2. Idle /\ ChannelInv(ch, old, FALSE)
  BY IdleFacts DEF ClearForMemory
<1>3. MaxCells[ch] \in Nat /\ old.cells \in Nat /\ old.stale \in Nat
  BY <1>2, SchedulerParameters DEF ChannelInv, Channel
<1>. HIDE DEF old
<1>. DEFINE d == [old EXCEPT !.cells = @ - n, !.stale = @ + n]
<1>4. /\ old.cells - n \in 0..MaxCells[ch] /\ old.stale + n \in 0..MaxCells[ch]
      /\ (old.cells - n) + (old.stale + n) = old.cells + old.stale
      /\ old.cells > 0
  BY <1>2, <1>3 DEF ChannelInv
<1>5. /\ d \in Channel(ch)
      /\ d.state = old.state /\ d.conn = old.conn /\ d.sched = old.sched
      /\ d.pending = old.pending
      /\ d.cells = old.cells - n /\ d.stale = old.stale + n
  BY <1>2, <1>4 DEF ChannelInv, Channel
<1>. HIDE DEF d
<1>6. d.cells + d.stale = old.cells + old.stale /\ old.state # "OPENING"
  BY <1>2, <1>4, <1>5 DEF ChannelInv
<1>7. ChannelInv(ch, d, FALSE)
  BY <1>2, <1>5, <1>6 DEF ChannelInv
<1>. QED
  BY <1>1, <1>2, <1>7, BecomesInv DEF d

LEMMA DetachInv ==
  ASSUME IInv, NEW ch \in Channels, circuitmux_detach_circuit(ch)
  PROVE  IInv'
<1>. DEFINE old == chan[ch]
<1>1. PICK n \in 0..old.cells, s \in 0..old.stale :
        Becomes(ch, [old EXCEPT !.cells = @ - n, !.stale = @ - s])
  BY DEF circuitmux_detach_circuit
<1>2. Idle /\ ChannelInv(ch, old, FALSE)
  BY IdleFacts DEF circuitmux_detach_circuit
<1>3. /\ MaxCells[ch] \in Nat
      /\ old.cells \in 0..MaxCells[ch] /\ old.stale \in 0..MaxCells[ch]
  BY <1>2, SchedulerParameters DEF ChannelInv, Channel
<1>. HIDE DEF old
<1>. DEFINE d == [old EXCEPT !.cells = @ - n, !.stale = @ - s]
<1>4. /\ old.cells - n \in 0..MaxCells[ch] /\ old.stale - s \in 0..MaxCells[ch]
      /\ old.cells - n <= old.cells /\ old.stale - s <= old.stale
  BY <1>3
<1>5. /\ d \in Channel(ch)
      /\ d.state = old.state /\ d.conn = old.conn /\ d.sched = old.sched
      /\ d.pending = old.pending
      /\ d.cells = old.cells - n /\ d.stale = old.stale - s
  BY <1>2, <1>4 DEF ChannelInv, Channel
<1>. HIDE DEF d
<1>6. ChannelInv(ch, d, FALSE)
  BY <1>2, <1>4, <1>5, CountsDrop
<1>. QED
  BY <1>1, <1>2, <1>6, BecomesInv DEF d

LEMMA SendDestroyInv ==
  ASSUME IInv, NEW ch \in Channels, channel_send_destroy(ch)
  PROVE  IInv'
<1>. DEFINE old == chan[ch]
            d == [old EXCEPT !.destroys = @ + 1]
<1>1. PICK c \in PrimeBuffer(d) : Becomes(ch, c)
  BY DEF channel_send_destroy
<1>2. Idle /\ old.state = "OPEN" /\ old.destroys < MaxDestroys
  BY DEF channel_send_destroy
<1>3. ChannelInv(ch, old, FALSE)
  BY <1>2, IdleFacts
<1>4. /\ MaxDestroys \in Nat /\ MaxOutbuf \in Nat /\ 0 < MaxOutbuf
      /\ old.cells \in Nat /\ old.stale \in Nat /\ old.destroys \in Nat
  BY <1>3, SchedulerParameters DEF ChannelInv, Channel
<1>. HIDE DEF old
<1>5. old.destroys + 1 \in 0..MaxDestroys
  BY <1>2, <1>4
<1>6. /\ d \in Channel(ch)
      /\ d.state = "OPEN" /\ d.conn = old.conn /\ d.sched = old.sched
      /\ d.pending = old.pending
      /\ d.cells = old.cells /\ d.stale = old.stale
      /\ old.state = d.state
  BY <1>2, <1>3, <1>5 DEF ChannelInv, Channel
<1>. HIDE DEF d
<1>7. d.cells <= old.cells /\ d.stale <= old.stale
  BY <1>4, <1>6
<1>8. ChannelInv(ch, d, FALSE)
  BY <1>3, <1>6, <1>7, CountsDrop
<1>9. ChannelInv(ch, c, FALSE)
  <2>1. CASE d.outbuf = 0
    <3>1. Flushed(ch, FALSE, d, c)
      BY <1>1, <1>4, <1>6, <1>8, <2>1, FlushOne DEF PrimeBuffer
    <3>. QED
      BY <3>1 DEF Flushed
  <2>2. CASE d.outbuf # 0
    BY <1>1, <1>8, <2>2 DEF PrimeBuffer
  <2>. QED
    BY <2>1, <2>2
<1>. QED
  BY <1>1, <1>2, <1>9, BecomesInv

LEMMA HandleWriteStep ==
  ASSUME IInv, NEW ch \in Channels, HandleWrite(ch)
  PROVE  IInv'
<1>1. PICK c \in connection_handle_write(chan[ch]) : Becomes(ch, c)
  BY DEF HandleWrite
<1>2. Idle /\ ChannelInv(ch, chan[ch], FALSE)
  BY IdleFacts DEF HandleWrite
<1>3. ChannelInv(ch, c, FALSE)
  BY <1>1, <1>2, HandleWriteInv
<1>. QED
  BY <1>1, <1>2, <1>3, BecomesInv

LEMMA CloseInv ==
  ASSUME IInv, NEW ch \in Channels, Close(ch)
  PROVE  IInv'
<1>1. /\ Idle /\ ChannelInv(ch, chan[ch], FALSE)
      /\ chan[ch].state \in {"OPENING", "OPEN"}
      /\ Becomes(ch, Closing(chan[ch]))
  BY IdleFacts DEF Close
<1>2. ChannelInv(ch, Closing(chan[ch]), FALSE)
  BY <1>1, ClosingInv
<1>. QED
  BY <1>1, <1>2, BecomesInv

\* scheduler_release_channel on a channel without a connection.
LEMMA ReleasedInv ==
  ASSUME NEW ch \in Channels, NEW d \in Channel(ch),
         d.state \in {"CLOSED", "FREED"}, d.conn = FALSE,
         d.cells + d.stale <= MaxCells[ch]
  PROVE  ChannelInv(ch, scheduler_release_channel(d), FALSE)
<1>. DEFINE r == scheduler_release_channel(d)
<1>1. 0 \in 0..MaxOutbuf
  BY SchedulerParameters
<1>2. /\ r \in Channel(ch)
      /\ r.state = d.state /\ r.conn = FALSE /\ r.sched = "IDLE" /\ r.pending = FALSE
      /\ r.cells = d.cells /\ r.stale = d.stale
  BY <1>1 DEF scheduler_release_channel, Channel, SchedStates
<1>. HIDE DEF r
<1>3. ChannelInv(ch, r, FALSE)
  BY <1>2 DEF ChannelInv
<1>. QED
  BY <1>3 DEF r

LEMMA AboutToCloseInv ==
  ASSUME IInv, NEW ch \in Channels, connection_or_about_to_close(ch)
  PROVE  IInv'
<1>. DEFINE old == chan[ch]
            d == [old EXCEPT !.state = "CLOSED", !.conn = FALSE,
                             !.outbuf = 0, !.cells = 0, !.stale = 0]
<1>1. /\ Idle /\ ChannelInv(ch, old, FALSE)
      /\ Becomes(ch, scheduler_release_channel(d))
  BY IdleFacts DEF connection_or_about_to_close
<1>2. /\ 0 \in 0..MaxOutbuf /\ 0 \in 0..MaxCells[ch] /\ 0 + 0 <= MaxCells[ch]
  BY SchedulerParameters
<1>. HIDE DEF old
<1>3. /\ d \in Channel(ch)
      /\ d.state = "CLOSED" /\ d.conn = FALSE /\ d.cells = 0 /\ d.stale = 0
  BY <1>1, <1>2 DEF ChannelInv, Channel
<1>. HIDE DEF d
<1>4. ChannelInv(ch, scheduler_release_channel(d), FALSE)
  BY <1>2, <1>3, ReleasedInv
<1>. QED
  BY <1>1, <1>4, BecomesInv

LEMMA FreeInv ==
  ASSUME IInv, NEW ch \in Channels, channel_free(ch)
  PROVE  IInv'
<1>. DEFINE old == chan[ch]
            r == scheduler_release_channel(old)
            c == [r EXCEPT !.state = "FREED", !.destroys = 0,
                           !.last_was_destroy = FALSE]
<1>1. /\ Idle /\ ChannelInv(ch, old, FALSE) /\ old.state = "CLOSED"
      /\ Becomes(ch, c)
  BY IdleFacts DEF channel_free
<1>2. 0 \in 0..MaxDestroys
  BY SchedulerParameters
<1>3. /\ old \in Channel(ch) /\ old.conn = FALSE
      /\ old.cells + old.stale <= MaxCells[ch]
  BY <1>1 DEF ChannelInv, Channel
<1>. HIDE DEF old
<1>4. ChannelInv(ch, r, FALSE) /\ r.state = "CLOSED"
  <2>1. r.state = "CLOSED"
    BY <1>1, <1>3 DEF scheduler_release_channel, Channel
  <2>. QED
    BY <1>1, <1>3, <2>1, ReleasedInv
<1>. HIDE DEF r
<1>5. /\ c \in Channel(ch)
      /\ c.state = "FREED" /\ c.conn = r.conn /\ c.sched = r.sched
      /\ c.pending = r.pending /\ c.cells = r.cells /\ c.stale = r.stale
  BY <1>2, <1>4 DEF ChannelInv, Channel
<1>. HIDE DEF c
<1>6. ChannelInv(ch, c, FALSE)
  BY <1>4, <1>5 DEF ChannelInv
<1>. QED
  BY <1>1, <1>6, BecomesInv

LEMMA ChannelStepInv ==
  ASSUME IInv, NEW ch \in Channels, ChannelStep(ch)
  PROVE  IInv'
BY LaunchInv, OpenInv, AppendCellInv, ClearForMemoryInv, DetachInv, SendDestroyInv,
   HandleWriteStep, CloseInv, AboutToCloseInv, FreeInv DEF ChannelStep

-----------------------------------------------------------------------------
(* A run.                                                                  *)

LEMMA BeginRunInv ==
  ASSUME IInv, BeginRun
  PROVE  IInv'
<1>1. PICK limit \in [{ch \in Channels : chan[ch].pending} -> 0..MaxOutbuf] :
        /\ \A ch \in DOMAIN limit : limit[ch] \in Limits(chan[ch])
        /\ chan' = [ch \in Channels |->
                      IF ch \in DOMAIN limit
                        THEN [chan[ch] EXCEPT !.entry = TRUE, !.room = limit[ch]]
                        ELSE chan[ch]]
  BY DEF BeginRun
<1>2. /\ Idle /\ ev' = FALSE
      /\ run' = [NoRun EXCEPT !.phase = "loop"]
      /\ \A ch \in Channels : ChannelInv(ch, chan[ch], FALSE)
  BY IdleFacts DEF BeginRun
<1>3. /\ run' \in Run /\ run'.phase = "loop" /\ run'.readd = {}
      /\ run'.dirty \subseteq run'.table /\ Referred(run') = {}
  BY <1>2 DEF NoRun, Run, Referred
<1>4. ASSUME NEW ch \in Channels
      PROVE  ChannelInv(ch, chan'[ch], FALSE) /\ InLoop(chan'[ch])
  <2>. DEFINE c == chan[ch]
  <2>1. ChannelInv(ch, c, FALSE) /\ c \in Channel(ch)
    BY <1>2 DEF ChannelInv
  <2>2. CASE ch \in DOMAIN limit
    <3>. DEFINE r == [c EXCEPT !.entry = TRUE, !.room = limit[ch]]
    <3>1. limit[ch] \in 0..MaxOutbuf /\ limit[ch] \in 0..(MaxOutbuf - c.outbuf)
      BY <1>1, <2>2 DEF Limits
    <3>2. chan'[ch] = r
      BY <1>1, <2>2
    <3>. HIDE DEF c
    <3>3. /\ r \in Channel(ch)
          /\ r.state = c.state /\ r.conn = c.conn /\ r.sched = c.sched
          /\ r.pending = c.pending /\ r.entry = TRUE /\ r.room = limit[ch]
          /\ r.cells = c.cells /\ r.stale = c.stale /\ r.outbuf = c.outbuf
      BY <2>1, <3>1 DEF Channel
    <3>4. c.cells \in Nat /\ c.stale \in Nat /\ c.outbuf \in Nat /\ MaxOutbuf \in Nat
      BY <2>1, SchedulerParameters DEF Channel
    <3>. HIDE DEF r
    <3>5. r.cells <= c.cells /\ r.stale <= c.stale
      BY <3>3, <3>4
    <3>6. ChannelInv(ch, r, FALSE)
      BY <2>1, <3>5, <3>3, CountsDrop
    <3>7. InLoop(r)
      BY <3>1, <3>3, <3>4 DEF InLoop
    <3>. QED
      BY <3>2, <3>6, <3>7
  <2>3. CASE ch \notin DOMAIN limit
    <3>1. chan'[ch] = c /\ ~c.pending
      BY <1>1, <2>3
    <3>. QED
      BY <2>1, <3>1 DEF InLoop
  <2>. QED
    BY <2>2, <2>3
<1>5. \A ch \in Channels : (ch \in run'.readd) = FALSE
  BY <1>3
<1>6. \A ch \in Channels : ChannelInv(ch, chan'[ch], ch \in run'.readd)
  BY <1>4, <1>5
<1>7. DOMAIN chan' = Channels
  BY <1>1
<1>. QED
  BY <1>2, <1>3, <1>4, <1>6, <1>7 DEF IInv, Idle

\* Cases 1, 3 and 4 of the loop: a channel that keeps its state PENDING is
\* in the list or among the held back ones, never in both.
LEMMA DecideInv ==
  ASSUME NEW ch \in Channels, NEW c, ChannelInv(ch, c, TRUE),
         c.sched = "PENDING", c.entry = TRUE, c.outbuf + c.room <= MaxOutbuf,
         c.state \in {"OPEN", "CLOSING"}
  PROVE  /\ ChannelInv(ch, Decide(c), HeldBack(c))
         /\ InLoop(Decide(c))
         /\ Decide(c).state = c.state
<1>. DEFINE r == Decide(c)
<1>1. /\ c \in Channel(ch) /\ c.conn /\ ~c.pending
      /\ c.cells + c.stale <= MaxCells[ch]
      /\ c.cells \in Nat /\ c.stale \in Nat /\ c.destroys \in Nat
  BY SchedulerParameters DEF ChannelInv, Channel
<1>2. CASE circuitmux_num_cells(c) = 0
  <2>1. c.cells + c.stale = 0 /\ HeldBack(c) = FALSE
    BY <1>1, <1>2 DEF circuitmux_num_cells, HeldBack
  <2>2. r = [c EXCEPT !.sched = "WAITING_FOR_CELLS"]
    BY <1>2 DEF Decide
  <2>3. /\ r \in Channel(ch)
        /\ r.state = c.state /\ r.conn = c.conn /\ r.sched = "WAITING_FOR_CELLS"
        /\ r.pending = c.pending /\ r.cells = c.cells /\ r.stale = c.stale
    BY <1>1, <2>2 DEF Channel, SchedStates
  <2>. HIDE DEF r
  <2>4. ChannelInv(ch, r, FALSE) /\ InLoop(r)
    BY <1>1, <2>1, <2>3 DEF ChannelInv, InLoop
  <2>. QED
    BY <2>1, <2>3, <2>4 DEF r
<1>3. CASE circuitmux_num_cells(c) # 0 /\ socket_can_write(c)
  <2>1. HeldBack(c) = FALSE
    BY <1>3 DEF HeldBack
  <2>2. r = MakePending(c)
    BY <1>3 DEF Decide
  <2>3. /\ r \in Channel(ch)
        /\ r.state = c.state /\ r.conn = c.conn /\ r.sched = "PENDING"
        /\ r.pending = TRUE /\ r.cells = c.cells /\ r.stale = c.stale
        /\ r.entry = c.entry /\ r.outbuf = c.outbuf /\ r.room = c.room
    BY <1>1, <2>2 DEF MakePending, Channel, SchedStates
  <2>. HIDE DEF r
  <2>4. ChannelInv(ch, r, FALSE) /\ InLoop(r)
    BY <1>1, <2>3 DEF ChannelInv, InLoop
  <2>. QED
    BY <2>1, <2>3, <2>4 DEF r
<1>4. CASE circuitmux_num_cells(c) # 0 /\ ~socket_can_write(c)
  <2>1. HeldBack(c) = TRUE
    BY <1>1, <1>4 DEF HeldBack, circuitmux_num_cells
  <2>2. r = c
    BY <1>4 DEF Decide, HoldBack
  <2>. QED
    BY <1>1, <2>1, <2>2 DEF InLoop
<1>. QED
  BY <1>2, <1>3, <1>4

\* What a turn of the loop makes of the channel it took from the list.
Turned(ch, c, held) ==
  ChannelInv(ch, c, held) /\ InLoop(c) /\ c.state \in {"OPEN", "CLOSING"}

TurnTaken(ch, table, dirty, after) ==
  \E c : \E held \in BOOLEAN, d \in {dirty, dirty \cup {ch}} :
    /\ Turned(ch, c, held)
    /\ chan' = [after EXCEPT ![ch] = c]
    /\ run' = [run EXCEPT !.prev = ch, !.table = table, !.dirty = d,
                          !.readd = IF held THEN @ \cup {ch} ELSE @]

LEMMA ServeTurn ==
  ASSUME IInv, run.phase = "loop", NEW ch \in Channels, chan[ch].pending,
         NEW table, NEW dirty, NEW after, Serve(ch, table, dirty, after)
  PROVE  TurnTaken(ch, table, dirty, after)
<1>. DEFINE old == chan[ch]
            popped == [old EXCEPT !.pending = FALSE]
            next(c, held, d) ==
              /\ chan' = [after EXCEPT ![ch] = c]
              /\ run' = [run EXCEPT !.prev = ch, !.table = table, !.dirty = d,
                                    !.readd = IF held THEN @ \cup {ch} ELSE @]
            sent(c) == c.outbuf > popped.outbuf
            counted(c) == [c EXCEPT !.room = @ - 1]
<1>1. ChannelInv(ch, old, ch \in run.readd) /\ InLoop(old) /\ old.pending
  BY DEF IInv
<1>2. /\ old \in Channel(ch)
      /\ old.state \in {"OPEN", "CLOSING"} /\ old.conn /\ old.sched = "PENDING"
      /\ old.entry = TRUE /\ old.outbuf + old.room <= MaxOutbuf
      /\ old.cells + old.stale <= MaxCells[ch]
  BY <1>1 DEF ChannelInv, InLoop, Channel
<1>3. \/ ~socket_can_write(popped) /\ next(Decide(popped), HeldBack(popped), dirty)
      \/ /\ socket_can_write(popped)
         /\ \E c \in channel_flush_some_cells(popped) :
              \/ c.state # "OPEN" /\ next([c EXCEPT !.sched = "IDLE"], FALSE, dirty)
              \/ /\ c.state = "OPEN" /\ ~sent(c)
                 /\ next([c EXCEPT !.sched = "WAITING_FOR_CELLS"], FALSE, dirty)
              \/ /\ c.state = "OPEN" /\ sent(c)
                 /\ next(Decide(counted(c)), HeldBack(counted(c)), dirty \cup {ch})
  <2>1. CASE ~socket_can_write(popped)
    BY <2>1, Zenon DEF Serve
  <2>2. CASE socket_can_write(popped)
    <3>1. PICK c \in channel_flush_some_cells(popped) :
            CASE c.state # "OPEN" -> next([c EXCEPT !.sched = "IDLE"], FALSE, dirty)
              [] c.state = "OPEN" /\ ~sent(c) ->
                   next([c EXCEPT !.sched = "WAITING_FOR_CELLS"], FALSE, dirty)
              [] OTHER -> next(Decide(counted(c)), HeldBack(counted(c)), dirty \cup {ch})
      BY <2>2, Zenon DEF Serve
    <3>. HIDE DEF next, sent, counted, popped
    <3>2. CASE c.state # "OPEN"
      BY <2>2, <3>1, <3>2
    <3>3. CASE c.state = "OPEN" /\ ~sent(c)
      BY <2>2, <3>1, <3>3
    <3>4. CASE c.state = "OPEN" /\ sent(c)
      BY <2>2, <3>1, <3>4
    <3>. QED
      BY <3>2, <3>3, <3>4
  <2>. QED
    BY <2>1, <2>2
<1>. HIDE DEF old
<1>4. /\ popped \in Channel(ch)
      /\ popped.state = old.state /\ popped.conn = old.conn
      /\ popped.sched = "PENDING" /\ popped.pending = FALSE /\ popped.entry = TRUE
      /\ popped.room = old.room /\ popped.outbuf = old.outbuf
      /\ popped.cells = old.cells /\ popped.stale = old.stale
  BY <1>2 DEF Channel
<1>. HIDE DEF popped
<1>5. ChannelInv(ch, popped, TRUE)
  BY <1>1, <1>2, <1>4 DEF ChannelInv
<1>6. /\ popped.outbuf \in Nat /\ popped.room \in Nat /\ MaxOutbuf \in Nat
      /\ popped.outbuf + popped.room <= MaxOutbuf
      /\ popped.cells \in Nat /\ popped.stale \in Nat /\ popped.destroys \in Nat
  BY <1>2, <1>4, SchedulerParameters DEF Channel
<1>7. SUFFICES \E c : \E held \in BOOLEAN, d \in {dirty, dirty \cup {ch}} :
                 Turned(ch, c, held) /\ next(c, held, d)
  BY <1>7, Zenon DEF TurnTaken
<1>. HIDE DEF next
<1>8. CASE ~socket_can_write(popped) /\ next(Decide(popped), HeldBack(popped), dirty)
  <2>1. Turned(ch, Decide(popped), HeldBack(popped))
    BY <1>2, <1>4, <1>5, <1>6, DecideInv DEF Turned
  <2>2. HeldBack(popped) \in BOOLEAN
    BY DEF HeldBack
  <2>. QED
    BY <1>8, <2>1, <2>2
<1>9. ASSUME socket_can_write(popped), NEW c \in channel_flush_some_cells(popped)
      PROVE  /\ c = popped \/ Flushed(ch, TRUE, popped, c)
             /\ ChannelInv(ch, c, TRUE) /\ c.state \in {"OPEN", "CLOSING"}
             /\ c.pending = FALSE
             /\ c.state = "OPEN" =>
                  /\ c.sched = "PENDING" /\ c.entry = TRUE /\ c.room = popped.room
                  /\ c = popped => c.cells + c.stale = 0
  <2>1. popped.room > 0
    BY <1>4, <1>9 DEF socket_can_write
  <2>2. popped.outbuf < MaxOutbuf
    BY <1>6, <2>1
  <2>3. CASE popped.state = "OPEN" /\ circuitmux_num_cells(popped) > 0
    <3>1. Flushed(ch, TRUE, popped, c)
      BY <1>5, <2>2, <1>9, <2>3, FlushOne DEF channel_flush_some_cells
    <3>2. c.pending = FALSE
      BY <1>4, <3>1 DEF Flushed, ChannelInv, Channel
    <3>3. c.state = "OPEN" /\ c = popped => c.cells + c.stale = 0
      BY <1>6, <3>1 DEF Flushed
    <3>. QED
      BY <1>4, <3>1, <3>2, <3>3 DEF Flushed
  <2>4. CASE ~(popped.state = "OPEN" /\ circuitmux_num_cells(popped) > 0)
    <3>1. c = popped
      BY <1>9, <2>4 DEF channel_flush_some_cells
    <3>2. /\ circuitmux_num_cells(popped) \in Nat
          /\ circuitmux_num_cells(popped) = 0 => popped.cells + popped.stale = 0
      BY <1>6 DEF circuitmux_num_cells
    <3>3. popped.state = "OPEN" => popped.cells + popped.stale = 0
      BY <2>4, <3>2
    <3>. QED
      BY <1>2, <1>4, <1>5, <3>1, <3>3
  <2>. QED
    BY <2>3, <2>4
<1>10. ASSUME socket_can_write(popped), NEW c \in channel_flush_some_cells(popped),
              c.state # "OPEN", next([c EXCEPT !.sched = "IDLE"], FALSE, dirty)
       PROVE  Turned(ch, [c EXCEPT !.sched = "IDLE"], FALSE)
  <2>. DEFINE r == [c EXCEPT !.sched = "IDLE"]
  <2>1. ChannelInv(ch, c, TRUE) /\ c.state = "CLOSING" /\ c.pending = FALSE
    BY <1>9, <1>10
  <2>2. /\ r \in Channel(ch)
        /\ r.state = "CLOSING" /\ r.conn = c.conn /\ r.sched = "IDLE"
        /\ r.pending = FALSE /\ r.cells = c.cells /\ r.stale = c.stale
    BY <2>1 DEF ChannelInv, Channel, SchedStates
  <2>. HIDE DEF r
  <2>3. ChannelInv(ch, r, FALSE) /\ InLoop(r)
    BY <2>1, <2>2 DEF ChannelInv, InLoop
  <2>. QED
    BY <2>2, <2>3 DEF Turned, r
<1>11. ASSUME socket_can_write(popped), NEW c \in channel_flush_some_cells(popped),
              c.state = "OPEN", ~sent(c),
              next([c EXCEPT !.sched = "WAITING_FOR_CELLS"], FALSE, dirty)
       PROVE  Turned(ch, [c EXCEPT !.sched = "WAITING_FOR_CELLS"], FALSE)
  <2>. DEFINE r == [c EXCEPT !.sched = "WAITING_FOR_CELLS"]
  <2>1. ChannelInv(ch, c, TRUE) /\ c.pending = FALSE
    BY <1>9, <1>11
  <2>2. c.cells + c.stale = 0
    <3>1. /\ c = popped \/ Flushed(ch, TRUE, popped, c)
          /\ c = popped => c.cells + c.stale = 0
          /\ ~(c.outbuf > popped.outbuf)
      BY <1>9, <1>11
    <3>2. CASE Flushed(ch, TRUE, popped, c)
      BY <1>6, <1>11, <3>1, <3>2 DEF Flushed
    <3>. QED
      BY <3>1, <3>2
  <2>3. /\ r \in Channel(ch)
        /\ r.state = "OPEN" /\ r.conn = c.conn /\ r.sched = "WAITING_FOR_CELLS"
        /\ r.pending = FALSE /\ r.cells = c.cells /\ r.stale = c.stale
    BY <1>11, <2>1 DEF ChannelInv, Channel, SchedStates
  <2>. HIDE DEF r
  <2>4. ChannelInv(ch, r, FALSE) /\ InLoop(r)
    BY <1>11, <2>1, <2>2, <2>3 DEF ChannelInv, InLoop
  <2>. QED
    BY <2>3, <2>4 DEF Turned, r
<1>12. ASSUME socket_can_write(popped), NEW c \in channel_flush_some_cells(popped),
              c.state = "OPEN", sent(c)
       PROVE  Turned(ch, Decide(counted(c)), HeldBack(counted(c)))
  <2>. DEFINE r == counted(c)
  <2>1. /\ ChannelInv(ch, c, TRUE) /\ c.pending = FALSE /\ c.sched = "PENDING"
        /\ c.entry = TRUE /\ c.room = popped.room
    BY <1>9, <1>12
  <2>2. c.outbuf = popped.outbuf + 1
    <3>1. /\ c = popped \/ Flushed(ch, TRUE, popped, c)
          /\ c.outbuf > popped.outbuf
      BY <1>9, <1>12
    <3>2. CASE c = popped
      BY <1>6, <3>1, <3>2
    <3>3. CASE Flushed(ch, TRUE, popped, c)
      BY <1>6, <1>12, <3>1, <3>3 DEF Flushed
    <3>. QED
      BY <3>1, <3>2, <3>3
  <2>3. popped.room > 0
    BY <1>4, <1>12 DEF socket_can_write
  <2>4. /\ c \in Channel(ch) /\ c.room - 1 \in 0..MaxOutbuf
        /\ c.outbuf + (c.room - 1) <= MaxOutbuf
        /\ c.cells <= c.cells /\ c.stale <= c.stale
    BY <1>6, <2>1, <2>2, <2>3, SchedulerParameters DEF ChannelInv, Channel
  <2>5. /\ r \in Channel(ch)
        /\ r.state = "OPEN" /\ r.conn = c.conn /\ r.sched = "PENDING"
        /\ r.pending = c.pending /\ r.entry = TRUE
        /\ r.cells = c.cells /\ r.stale = c.stale
        /\ r.outbuf = c.outbuf /\ r.room = c.room - 1
    BY <1>12, <2>1, <2>4 DEF Channel
  <2>. HIDE DEF counted
  <2>6. ChannelInv(ch, r, TRUE)
    BY <1>12, <2>1, <2>4, <2>5, CountsDrop
  <2>. QED
    BY <2>4, <2>5, <2>6, DecideInv DEF Turned
<1>13. ASSUME NEW c PROVE HeldBack(c) \in BOOLEAN
  BY DEF HeldBack
<1>. HIDE DEF sent, counted
<1>. QED
  BY <1>3, <1>8, <1>10, <1>11, <1>12, <1>13

\* Switching channels disturbs nobody but the channel served before.
LEMMA AfterSwitchInv ==
  ASSUME IInv, run.phase = "loop", NEW ch \in Channels, NEW after \in AfterSwitch(ch)
  PROVE  /\ DOMAIN after = Channels
         /\ \A x \in Channels :
              /\ ChannelInv(x, after[x], x \in run.readd)
              /\ InLoop(after[x])
              /\ chan[x].state \in {"OPEN", "CLOSING"} =>
                   after[x].state \in {"OPEN", "CLOSING"}
<1>1. CASE after = chan
  BY <1>1 DEF IInv
<1>2. CASE SwitchWrites(ch) /\ after # chan
  <2>. DEFINE p == run.prev
  <2>1. p \in Channels
    BY <1>2 DEF SwitchWrites, IInv, Run
  <2>2. PICK c \in connection_handle_write(chan[p]) : after = [chan EXCEPT ![p] = c]
    BY <1>2 DEF AfterSwitch
  <2>3. ChannelInv(p, chan[p], p \in run.readd) /\ InLoop(chan[p])
    BY <2>1 DEF IInv
  <2>. DEFINE held == p \in run.readd
  <2>4. ChannelInv(p, chan[p], held) /\ held \in BOOLEAN
    BY <2>3
  <2>. HIDE DEF held
  <2>5. /\ ChannelInv(p, c, held)
        /\ c.state # chan[p].state => c.state = "CLOSING"
        /\ c.pending => /\ chan[p].pending /\ c.entry = chan[p].entry
                        /\ c.room = chan[p].room /\ c.outbuf <= chan[p].outbuf
    BY <2>1, <2>2, <2>4, HandleWriteInv
  <2>6. /\ c.outbuf \in Nat /\ chan[p].outbuf \in Nat /\ chan[p].room \in Nat
        /\ MaxOutbuf \in Nat
    BY <2>3, <2>5, SchedulerParameters DEF ChannelInv, Channel
  <2>7. InLoop(c)
    BY <2>3, <2>5, <2>6 DEF InLoop
  <2>8. /\ DOMAIN after = Channels /\ after[p] = c
        /\ \A x \in Channels : x # p => after[x] = chan[x]
    BY <2>1, <2>2 DEF IInv
  <2>9. ASSUME NEW x \in Channels, x # p
        PROVE  /\ after[x] = chan[x]
               /\ ChannelInv(x, after[x], x \in run.readd)
               /\ InLoop(after[x])
    BY <2>8, <2>9 DEF IInv
  <2>. QED
    BY <2>5, <2>7, <2>8, <2>9 DEF held
<1>. QED
  BY <1>1, <1>2 DEF AfterSwitch

LEMMA ServeNextInv ==
  ASSUME IInv, NEW ch \in Channels, ServeNext(ch)
  PROVE  IInv'
<1>. DEFINE written == IF SwitchWrites(ch) THEN {run.prev} ELSE {}
            table == outbuf_table_add(run.table, ch) \ written
            dirty == run.dirty \ written
<1>1. /\ run.phase = "loop" /\ chan[ch].pending /\ ev' = ev
      /\ \E after \in AfterSwitch(ch) : Serve(ch, table, dirty, after)
  BY DEF ServeNext
<1>2. PICK after \in AfterSwitch(ch) : Serve(ch, table, dirty, after)
  BY <1>1
<1>3. /\ run \in Run /\ run.dirty \subseteq run.table /\ ev \in BOOLEAN
      /\ \A x \in Referred(run) : chan[x].state \in {"OPEN", "CLOSING"}
  BY DEF IInv
<1>4. ch \notin written
  BY DEF SwitchWrites
<1>5. table \subseteq run.table \cup {ch} /\ dirty \cup {ch} \subseteq table
  BY <1>3, <1>4 DEF outbuf_table_add
<1>. HIDE DEF table, dirty
<1>6. TurnTaken(ch, table, dirty, after)
  BY <1>1, <1>2, ServeTurn
<1>7. PICK c, held, d :
        /\ held \in BOOLEAN /\ d \in {dirty, dirty \cup {ch}}
        /\ Turned(ch, c, held)
        /\ chan' = [after EXCEPT ![ch] = c]
        /\ run' = [run EXCEPT !.prev = ch, !.table = table, !.dirty = d,
                              !.readd = IF held THEN @ \cup {ch} ELSE @]
  BY <1>6, Zenon DEF TurnTaken
<1>8. /\ run'.phase = "loop" /\ run'.prev = ch /\ run'.table = table
      /\ run'.dirty = d
      /\ run'.readd = IF held THEN run.readd \cup {ch} ELSE run.readd
      /\ run' \in Run
  <2>1. /\ run.readd \subseteq Channels /\ run.table \subseteq Channels
        /\ run.dirty \subseteq Channels
    BY <1>3 DEF Run
  <2>2. /\ table \subseteq Channels /\ d \subseteq Channels
        /\ (IF held THEN run.readd \cup {ch} ELSE run.readd) \subseteq Channels
    BY <1>5, <1>7, <2>1
  <2>. QED
    BY <1>1, <1>3, <1>7, <2>2 DEF Run
<1>9. ch \notin run.readd
  BY <1>1 DEF IInv, ChannelInv
<1>10. /\ DOMAIN chan' = Channels /\ chan'[ch] = c
       /\ \A x \in Channels : x # ch => chan'[x] = after[x]
  BY <1>1, <1>2, <1>7, AfterSwitchInv
<1>11. ASSUME NEW x \in Channels
       PROVE  ChannelInv(x, chan'[x], x \in run'.readd) /\ InLoop(chan'[x])
  <2>1. CASE x = ch
    <3>1. (x \in run'.readd) = held
      BY <1>7, <1>8, <1>9, <2>1
    <3>. QED
      BY <1>7, <1>10, <2>1, <3>1 DEF Turned
  <2>2. CASE x # ch
    <3>1. (x \in run'.readd) = (x \in run.readd)
      BY <1>8, <2>2
    <3>. QED
      BY <1>1, <1>2, <1>10, <2>2, <3>1, AfterSwitchInv
  <2>. QED
    BY <2>1, <2>2
<1>12. ASSUME NEW x \in Referred(run')
       PROVE  chan'[x].state \in {"OPEN", "CLOSING"}
  <2>1. CASE x = ch
    BY <1>7, <1>10, <2>1 DEF Turned
  <2>2. CASE x # ch
    <3>1. x \in Referred(run) /\ x \in Channels
      BY <1>3, <1>5, <1>8, <1>12, <2>2 DEF Referred, Run
    <3>2. chan[x].state \in {"OPEN", "CLOSING"}
      BY <1>3, <3>1
    <3>. QED
      BY <1>1, <1>2, <1>10, <2>2, <3>1, <3>2, AfterSwitchInv
  <2>. QED
    BY <2>1, <2>2
<1>13. run'.dirty \subseteq run'.table
  BY <1>5, <1>7, <1>8
<1>. QED
  BY <1>1, <1>3, <1>8, <1>10, <1>11, <1>12, <1>13 DEF IInv, Idle

LEMMA LoopIsOverInv ==
  ASSUME IInv, LoopIsOver
  PROVE  IInv'
<1>1. /\ run' = [run EXCEPT !.phase = "write"] /\ chan' = chan /\ ev' = ev
      /\ run \in Run
  BY DEF LoopIsOver, IInv
<1>2. /\ run' \in Run /\ run'.phase = "write" /\ run'.readd = run.readd
      /\ run'.table = run.table /\ run'.dirty = run.dirty /\ run'.prev = run.prev
  BY <1>1 DEF Run
<1>3. Referred(run') = Referred(run)
  BY <1>2 DEF Referred
<1>. QED
  BY <1>1, <1>2, <1>3 DEF IInv, Idle

LEMMA WriteToKernelInv ==
  ASSUME IInv, NEW ch \in Channels, each_channel_write_to_kernel(ch)
  PROVE  IInv'
<1>1. PICK c \in connection_handle_write(chan[ch]) : chan' = [chan EXCEPT ![ch] = c]
  BY DEF each_channel_write_to_kernel
<1>2. /\ run.phase = "write" /\ ch \in run.table /\ ev' = ev
      /\ run' = [run EXCEPT !.table = @ \ {ch}, !.dirty = @ \ {ch}]
      /\ run \in Run /\ ev \in BOOLEAN /\ run.dirty \subseteq run.table
      /\ DOMAIN chan = Channels
  BY DEF each_channel_write_to_kernel, IInv
<1>3. /\ run' \in Run /\ run'.phase = "write" /\ run'.readd = run.readd
      /\ run'.table = run.table \ {ch} /\ run'.dirty = run.dirty \ {ch}
      /\ run'.prev = run.prev
  BY <1>2 DEF Run
<1>4. Referred(run') \subseteq Referred(run)
  BY <1>3 DEF Referred
<1>. DEFINE held == ch \in run.readd
<1>5. ChannelInv(ch, chan[ch], held) /\ held \in BOOLEAN
  BY DEF IInv
<1>. HIDE DEF held
<1>6. /\ ChannelInv(ch, c, held)
      /\ c.state # chan[ch].state => c.state = "CLOSING"
  BY <1>1, <1>5, HandleWriteInv
<1>7. /\ DOMAIN chan' = Channels /\ chan'[ch] = c
      /\ \A x \in Channels : x # ch => chan'[x] = chan[x]
  BY <1>1, <1>2
<1>8. ASSUME NEW x \in Channels
      PROVE  ChannelInv(x, chan'[x], x \in run'.readd)
  BY <1>3, <1>6, <1>7 DEF IInv, held
<1>9. ASSUME NEW x \in Referred(run')
      PROVE  chan'[x].state \in {"OPEN", "CLOSING"}
  <2>1. x \in Channels /\ chan[x].state \in {"OPEN", "CLOSING"}
    BY <1>2, <1>4 DEF IInv, Referred, Run
  <2>. QED
    BY <1>6, <1>7, <2>1
<1>. QED
  BY <1>2, <1>3, <1>7, <1>8, <1>9 DEF IInv, Idle

\* The held back channels have a connection: they are in Referred(run).
LEMMA EndRunInv ==
  ASSUME IInv, EndRun
  PROVE  IInv'
<1>1. /\ chan' = [ch \in Channels |->
                    IF ch \in run.readd THEN MakePending([chan[ch] EXCEPT !.room = 0])
                    ELSE [chan[ch] EXCEPT !.room = 0]]
      /\ ev' = (ev \/ \E ch \in Channels : chan'[ch].pending)
      /\ run' = NoRun
  BY DEF EndRun, Readd
<1>2. /\ run' \in Run /\ run'.phase = "idle" /\ run'.readd = {}
      /\ run'.dirty \subseteq run'.table /\ Referred(run') = {}
  BY <1>1 DEF NoRun, Run, Referred
<1>3. ev' \in BOOLEAN /\ \A ch \in Channels : chan'[ch].pending => ev'
  BY <1>1 DEF IInv
<1>4. ASSUME NEW ch \in Channels
      PROVE  ChannelInv(ch, chan'[ch], FALSE)
  <2>. DEFINE old == chan[ch]
              left == [old EXCEPT !.room = 0]
              c == chan'[ch]
  <2>1. ChannelInv(ch, old, ch \in run.readd) /\ 0 \in 0..MaxOutbuf
    BY SchedulerParameters DEF IInv
  <2>2. ch \in run.readd => old.state \in {"OPEN", "CLOSING"}
    BY SchedulerParameters DEF IInv, Referred
  <2>3. c = IF ch \in run.readd THEN MakePending(left) ELSE left
    BY <1>1
  <2>. HIDE DEF old, c
  <2>4. /\ left \in Channel(ch)
        /\ left.state = old.state /\ left.conn = old.conn /\ left.sched = old.sched
        /\ left.pending = old.pending
        /\ left.cells = old.cells /\ left.stale = old.stale
    BY <2>1 DEF ChannelInv, Channel
  <2>. HIDE DEF left
  <2>5. CASE ch \in run.readd
    <3>1. /\ c \in Channel(ch)
          /\ c.state = old.state /\ c.conn = old.conn /\ c.sched = "PENDING"
          /\ c.pending = TRUE /\ c.cells = old.cells /\ c.stale = old.stale
      BY <2>3, <2>4, <2>5 DEF MakePending, Channel, SchedStates
    <3>2. ChannelInv(ch, c, FALSE)
      BY <2>1, <2>2, <2>5, <3>1 DEF ChannelInv
    <3>. QED
      BY <3>2 DEF c
  <2>6. CASE ch \notin run.readd
    <3>1. ChannelInv(ch, old, FALSE) /\ c = left
      BY <2>1, <2>3, <2>6 DEF ChannelInv
    <3>2. ChannelInv(ch, left, FALSE)
      BY <2>4, <3>1 DEF ChannelInv
    <3>. QED
      BY <3>1, <3>2 DEF c
  <2>. QED
    BY <2>5, <2>6
<1>5. \A ch \in Channels : (ch \in run'.readd) = FALSE
  BY <1>2
<1>6. \A ch \in Channels : ChannelInv(ch, chan'[ch], ch \in run'.readd)
  BY <1>4, <1>5
<1>7. DOMAIN chan' = Channels
  BY <1>1
<1>. QED
  BY <1>1, <1>2, <1>3, <1>6, <1>7 DEF IInv, Idle

-----------------------------------------------------------------------------
(* The theorems.                                                           *)

THEOREM SchedulerInvariant == Spec => []IInv
<1>1. Init => IInv
  <2>. SUFFICES ASSUME Init PROVE IInv
    OBVIOUS
  <2>1. /\ FreedChannel.state = "FREED" /\ FreedChannel.conn = FALSE
        /\ FreedChannel.sched = "IDLE" /\ FreedChannel.pending = FALSE
        /\ FreedChannel.cells = 0 /\ FreedChannel.stale = 0
    BY DEF FreedChannel
  <2>2. ASSUME NEW ch \in Channels
        PROVE  FreedChannel \in Channel(ch) /\ ChannelInv(ch, FreedChannel, FALSE)
    <3>1. /\ 0 \in 0..MaxOutbuf /\ 0 \in 0..MaxCells[ch] /\ 0 \in 0..MaxDestroys
          /\ 0 + 0 <= MaxCells[ch]
      BY SchedulerParameters
    <3>2. FreedChannel \in Channel(ch)
      BY <3>1 DEF FreedChannel, Channel, SchedStates
    <3>. QED
      BY <2>1, <3>1, <3>2 DEF ChannelInv
  <2>3. /\ run = NoRun /\ run \in Run /\ run.phase = "idle" /\ run.readd = {}
        /\ run.dirty \subseteq run.table /\ Referred(run) = {}
    BY DEF Init, NoRun, Run, Referred
  <2>4. /\ ev \in BOOLEAN /\ DOMAIN chan = Channels
        /\ \A ch \in Channels : chan[ch] = FreedChannel
    BY DEF Init
  <2>5. \A ch \in Channels : (ch \in run.readd) = FALSE
    BY <2>3
  <2>6. \A ch \in Channels : ChannelInv(ch, chan[ch], ch \in run.readd)
    BY <2>2, <2>4, <2>5
  <2>. QED
    BY <2>1, <2>3, <2>4, <2>6 DEF IInv, Idle
<1>2. IInv /\ [Next]_vars => IInv'
  <2>. SUFFICES ASSUME IInv, [Next]_vars PROVE IInv'
    OBVIOUS
  <2>1. CASE \E ch \in Channels : ChannelStep(ch)
    BY <2>1, ChannelStepInv
  <2>2. CASE RunStep
    BY <2>2, BeginRunInv, ServeNextInv, LoopIsOverInv, WriteToKernelInv, EndRunInv
    DEF RunStep
  <2>3. CASE UNCHANGED vars
    <3>1. chan' = chan /\ ev' = ev /\ run' = run
      BY <2>3 DEF vars
    <3>. QED
      BY <3>1 DEF IInv, Idle
  <2>. QED
    BY <2>1, <2>2, <2>3 DEF Next
<1>. QED
  BY <1>1, <1>2, PTL DEF Spec

\* Every variable keeps its type: however cells are primed, flushed and
\* written, an outbuf never holds more than connection and kernel take.
THEOREM SchedulerTypeCorrect == Spec => []TypeOK
<1>1. IInv => TypeOK
  BY DEF IInv, ChannelInv, TypeOK
<1>. QED
  BY <1>1, SchedulerInvariant, PTL

\* A channel with circuit cells is pending and the event is scheduled: the
\* four cases of the loop and the list of held back channels forget nobody.
THEOREM NobodyIsForgotten == Spec => []NoForgottenCells
<1>1. IInv => NoForgottenCells
  <2>. SUFFICES ASSUME IInv, NEW ch \in Channels, Idle, chan[ch].state = "OPEN",
                       chan[ch].cells + chan[ch].stale > 0
                PROVE  chan[ch].sched = "PENDING" /\ chan[ch].pending /\ ev
    BY DEF NoForgottenCells
  <2>1. ChannelInv(ch, chan[ch], FALSE)
    BY IdleFacts
  <2>2. chan[ch].sched = "PENDING" /\ chan[ch].pending
    BY <2>1 DEF ChannelInv
  <2>. QED
    BY <2>2 DEF IInv
<1>. QED
  BY <1>1, SchedulerInvariant, PTL

\* No SCHED_BUG check of the scheduler fires, also when a failed write
\* releases a channel in the middle of a run.
THEOREM SchedBugsAreDead == Spec => []NoSchedBug
<1>1. IInv => NoSchedBug
  <2>. SUFFICES ASSUME IInv, NEW ch \in Channels
                PROVE  /\ Idle => (chan[ch].pending <=> chan[ch].sched = "PENDING")
                       /\ chan[ch].pending => chan[ch].conn /\ ch \notin run.readd
                       /\ run.phase = "loop" /\ chan[ch].pending => chan[ch].entry
                       /\ ch \in run.readd \cup run.table \cup {run.prev} =>
                            chan[ch].conn
    BY DEF NoSchedBug
  <2>1. ChannelInv(ch, chan[ch], ch \in run.readd)
    BY DEF IInv
  <2>2. Idle => (chan[ch].pending <=> chan[ch].sched = "PENDING")
    <3>1. Idle => ChannelInv(ch, chan[ch], FALSE)
      BY IdleFacts
    <3>. QED
      BY <3>1 DEF ChannelInv
  <2>3. chan[ch].pending => chan[ch].conn /\ ch \notin run.readd
    BY <2>1 DEF ChannelInv
  <2>4. run.phase = "loop" /\ chan[ch].pending => chan[ch].entry
    BY DEF IInv, InLoop
  <2>5. ch \in run.readd \cup run.table \cup {run.prev} => chan[ch].conn
    <3>1. ch # None
      BY SchedulerParameters
    <3>2. ch \in run.readd \cup run.table \cup {run.prev} =>
            chan[ch].state \in {"OPEN", "CLOSING"}
      BY <3>1 DEF IInv, Referred
    <3>. QED
      BY <2>1, <3>2 DEF ChannelInv
  <2>. QED
    BY <2>2, <2>3, <2>4, <2>5
<1>. QED
  BY <1>1, SchedulerInvariant, PTL

\* What a run put on an outbuf gets a write to the kernel in the same run.
THEOREM FlushedCellsAreWritten == Spec => []FlushedIsWritten
<1>1. IInv => FlushedIsWritten
  BY DEF IInv, FlushedIsWritten, NoRun
<1>. QED
  BY <1>1, SchedulerInvariant, PTL
=============================================================================

----------------------------- MODULE OnionQueue -----------------------------
(***************************************************************************)
(* How a relay answers the onionskins of CREATE cells: the queues of        *)
(* onion_queue.c, the limit of cpuworker.c, the work queue and the reply    *)
(* queue of workqueue.c.  One main thread runs callbacks; worker threads    *)
(* run beside it and meet it only under the pool's lock, under the reply    *)
(* queue's lock and over the alert socket.  An action is what a thread does *)
(* between two of those meetings.                                          *)
(*                                                                         *)
(* A job is named by its circuit, which has at most one.  An operator whose  *)
(* name starts with Bad is a faulty variant of the definition after it.     *)
(***************************************************************************)
EXTENDS Naturals, Sequences, FiniteSets, SequencesExt

CONSTANTS
  Circuits,    \* circuits that may exist at a time
  Threads,     \* the threads of the pool
  MaxPending,  \* max_pending_tasks
  AlwaysRoom,  \* onionskins of a type that always find room (50)
  NtorsPerTap  \* num_ntors_per_tap()

\* The queues in use; CREATE_FAST is answered at once.
Types == {"TAP", "NTOR"}

ASSUME OnionParameters ==
  /\ MaxPending \in Nat \ {0}
  /\ AlwaysRoom \in Nat
  /\ NtorsPerTap \in Nat \ {0}
  /\ "none" \notin Circuits
  /\ IsFiniteSet(Threads) /\ Threads # {}

VARIABLES
  circ,        \* the OR circuits: see Circuit
  ol_list,     \* per type, the queued onionskins
  ol_entries,  \* per type, their number
  recently_chosen_ntors,
  total_pending_tasks,
  work,        \* the pool's queue of jobs no thread has taken
  thread,      \* the worker threads: see Thread
  answers,     \* the reply queue
  alert,       \* the alert socket is readable
  main,        \* what the main thread is doing
  ntors_ahead  \* ntors chosen since a TAP waits (of the properties only)

vars == <<circ, ol_list, ol_entries, recently_chosen_ntors, total_pending_tasks,
          work, thread, answers, alert, main, ntors_ahead>>

onions == <<ol_list, ol_entries, recently_chosen_ntors, ntors_ahead>>
pool == <<total_pending_tasks, work, thread>>
replies == <<answers, alert>>

\* mem: with the allocator, usable, DEAD_CIRCUIT_MAGIC.
\* entry and job: onionqueue_entry and workqueue_entry are not NULL.
Circuit == [mem : {"free", "live", "dead"},
            state : {"ONIONSKIN_PENDING", "OPEN"}, marked : BOOLEAN,
            entry : BOOLEAN, job : BOOLEAN]

NewCircuit == [mem |-> "live", state |-> "ONIONSKIN_PENDING", marked |-> FALSE,
               entry |-> FALSE, job |-> FALSE]

\* Memory that may be handed out again.
Free == [NewCircuit EXCEPT !.mem = "free"]

\* waiting on the condition; awake and about to look for work; in the handshake
\* of circ; having put an answer on an empty reply queue, about to alert.
Thread == [at : {"waiting", "awake", "running", "alerting"},
           circ : Circuits \cup {"none"}]

TypeOK ==
  /\ circ \in [Circuits -> Circuit]
  /\ ol_list \in [Types -> Seq(Circuits)]
  /\ ol_entries \in [Types -> Nat]
  /\ recently_chosen_ntors \in 0..(NtorsPerTap + 1)
  /\ total_pending_tasks \in 0..MaxPending
  /\ work \in Seq(Circuits)
  /\ thread \in [Threads -> Thread]
  /\ answers \in Seq(Circuits)
  /\ alert \in BOOLEAN
  /\ main \in {"loop", "replies", "queueing", "closing"}
  /\ ntors_ahead \in Nat

Init ==
  /\ circ = [c \in Circuits |-> Free]
  /\ ol_list = [q \in Types |-> <<>>]
  /\ ol_entries = [q \in Types |-> 0]
  /\ recently_chosen_ntors = 0
  /\ total_pending_tasks = 0
  /\ work = <<>>
  /\ thread = [t \in Threads |-> [at |-> "awake", circ |-> "none"]]
  /\ answers = <<>>
  /\ alert = FALSE
  /\ main = "loop"
  /\ ntors_ahead = 0

-----------------------------------------------------------------------------
(* The pool, as the main thread uses it                                    *)

Waiting == {t \in Threads : thread[t].at = "waiting"}

\* tor_cond_signal_one: one waiting thread wakes up, if there is one.
BadSignalNobody == UNCHANGED thread

SignalOne ==
  IF Waiting = {} THEN UNCHANGED thread
  ELSE \E t \in Waiting : thread' = [thread EXCEPT ![t].at = "awake"]

\* assign_onionskin_to_cpuworker with a slot free: a job for circuit c of C.
QueueWork(c, C) ==
  /\ total_pending_tasks' = total_pending_tasks + 1
  /\ work' = Append(work, c)
  /\ circ' = [C EXCEPT ![c].job = TRUE]
  /\ SignalOne

-----------------------------------------------------------------------------
(* The queues of onionskins                                                *)

\* have_room_for_onionskin: beyond AlwaysRoom it depends on how long the
\* handshakes took so far.
RoomFor(type) == IF ol_entries[type] < AlwaysRoom THEN {TRUE} ELSE BOOLEAN

\* onion_pending_add: c is queued, and the first k of those before it have
\* waited for ONIONQUEUE_WAIT_CUTOFF.  How long ago they came is left open.
BadCullKeepsCircuit(type, c, k) ==
  /\ ol_list' = [ol_list EXCEPT ![type] = Append(SubSeq(@, k + 1, Len(@)), c)]
  /\ ol_entries' = [ol_entries EXCEPT ![type] = @ + 1 - k]
  /\ circ' = [x \in Circuits |->
                IF x = c THEN [NewCircuit EXCEPT !.entry = TRUE]
                ELSE IF \E i \in 1..k : ol_list[type][i] = x
                THEN [circ[x] EXCEPT !.entry = FALSE]
                ELSE circ[x]]

onion_pending_add(type, c, k) ==
  /\ ol_list' = [ol_list EXCEPT ![type] = Append(SubSeq(@, k + 1, Len(@)), c)]
  /\ ol_entries' = [ol_entries EXCEPT ![type] = @ + 1 - k]
  /\ circ' = [x \in Circuits |->
                IF x = c THEN [NewCircuit EXCEPT !.entry = TRUE]
                ELSE IF \E i \in 1..k : ol_list[type][i] = x
                THEN [circ[x] EXCEPT !.entry = FALSE, !.marked = TRUE]
                ELSE circ[x]]

\* decide_next_handshake_type: the type and the new recently_chosen_ntors.
BadDecideLate ==
  LET n == recently_chosen_ntors IN
  IF ol_entries["NTOR"] = 0 THEN <<"TAP", n>>
  ELSE IF ol_entries["TAP"] = 0
  THEN <<"NTOR", IF n <= NtorsPerTap THEN n + 1 ELSE n>>
  ELSE IF n <= NtorsPerTap THEN <<"NTOR", n + 1>>
  ELSE <<"TAP", 0>>

decide_next_handshake_type ==
  LET n == recently_chosen_ntors IN
  IF ol_entries["NTOR"] = 0 THEN <<"TAP", n>>
  ELSE IF ol_entries["TAP"] = 0
  THEN <<"NTOR", IF n <= NtorsPerTap THEN n + 1 ELSE n>>
  ELSE IF n + 1 <= NtorsPerTap THEN <<"NTOR", n + 1>>
  ELSE <<"TAP", 0>>

NothingQueued == \A q \in Types : ol_list[q] = <<>>

-----------------------------------------------------------------------------
(* Callbacks of the main thread                                            *)

\* command_process_create_cell: hand the onionskin to the pool, or queue it,
\* or close the circuit.
CreateCell(c, type) ==
  /\ main = "loop"
  /\ circ[c].mem = "free"
  /\ IF total_pending_tasks < MaxPending
     THEN /\ QueueWork(c, [circ EXCEPT ![c] = NewCircuit])
          /\ UNCHANGED <<ol_list, ol_entries>>
     ELSE /\ \E room \in RoomFor(type) :
               IF room THEN \E k \in 0..Len(ol_list[type]) : onion_pending_add(type, c, k)
               ELSE /\ circ' = [circ EXCEPT ![c] = [NewCircuit EXCEPT !.marked = TRUE]]
                    /\ UNCHANGED <<ol_list, ol_entries>>
          /\ UNCHANGED pool
  /\ UNCHANGED <<recently_chosen_ntors, ntors_ahead, replies, main>>

\* A DESTROY from behind, the end of its channel, or any other reason marks
\* the circuit; only the first two take its p_chan.
MarkForClose(c) ==
  /\ main = "loop"
  /\ circ[c].mem = "live"
  /\ ~circ[c].marked
  /\ circ' = [circ EXCEPT ![c].marked = TRUE]
  /\ UNCHANGED <<onions, pool, replies, main>>

Marked == {c \in Circuits : circ[c].mem = "live" /\ circ[c].marked}

\* circuit_close_all_marked, and one turn of its loop: the circuit leaves the
\* queue of onionskins, its job is cancelled unless a thread has taken it, and
\* the memory is given back unless a job will still name it.
CloseBegin ==
  /\ main = "loop"
  /\ Marked # {}
  /\ main' = "closing"
  /\ UNCHANGED <<circ, onions, pool, replies>>

BadFree(c) == Free

circuit_free(c) == IF c.job THEN [Free EXCEPT !.mem = "dead"] ELSE Free

\* onion_queue_entry_remove of the entry the circuit points to.
onion_pending_remove(c) ==
  IF circ[c].entry
  THEN \E q \in Types : \E i \in 1..Len(ol_list[q]) :
         /\ ol_list[q][i] = c
         /\ ol_list' = [ol_list EXCEPT ![q] = RemoveAt(@, i)]
         /\ ol_entries' = [ol_entries EXCEPT ![q] = @ - 1]
  ELSE UNCHANGED <<ol_list, ol_entries>>

Cancellable(c) == circ[c].job /\ \E i \in 1..Len(work) : work[i] = c

\* Bad: the job is counted off although a thread has it.
BadCancel(c) ==
  /\ work' = SelectSeq(work, LAMBDA x : x # c)
  /\ total_pending_tasks' = IF circ[c].job /\ total_pending_tasks > 0
                            THEN total_pending_tasks - 1 ELSE total_pending_tasks

cpuworker_cancel_circ_handshake(c) ==
  IF Cancellable(c)
  THEN /\ \E i \in 1..Len(work) : work[i] = c /\ work' = RemoveAt(work, i)
       /\ total_pending_tasks' = total_pending_tasks - 1
  ELSE UNCHANGED <<work, total_pending_tasks>>

CloseOne(c) ==
  /\ main = "closing"
  /\ c \in Marked
  /\ onion_pending_remove(c)
  /\ cpuworker_cancel_circ_handshake(c)
  /\ LET left == [circ[c] EXCEPT !.job = circ[c].job /\ ~Cancellable(c)]
     IN  circ' = [circ EXCEPT ![c] = circuit_free(left)]
  /\ UNCHANGED <<recently_chosen_ntors, ntors_ahead, thread, replies, main>>

CloseEnd ==
  /\ main = "closing"
  /\ Marked = {}
  /\ main' = "loop"
  /\ UNCHANGED <<circ, onions, pool, replies>>

\* reply_event_cb, replyqueue_process: drain the socket, then take answers
\* until there are none.
ReplyEvent ==
  /\ main = "loop"
  /\ alert
  /\ alert' = FALSE
  /\ main' = "replies"
  /\ UNCHANGED <<circ, onions, pool, answers>>

\* cpuworker_onion_handshake_replyfn, up to queue_pending_tasks.
BadLeakDead(c) == c

free_dead(c) == Free

\* A circuit that was marked meanwhile is not answered; the handshake or
\* onionskin_answer may fail.
replyfn(c, success) ==
  IF c.mem = "dead" THEN free_dead(c)
  ELSE IF c.marked THEN [c EXCEPT !.job = FALSE]
  ELSE IF success THEN [c EXCEPT !.job = FALSE, !.state = "OPEN"]
  ELSE [c EXCEPT !.job = FALSE, !.marked = TRUE]

Reply ==
  /\ main = "replies"
  /\ answers # <<>>
  /\ answers' = Tail(answers)
  /\ total_pending_tasks' = total_pending_tasks - 1
  /\ \E success \in BOOLEAN :
       circ' = [circ EXCEPT ![Head(answers)] = replyfn(@, success)]
  /\ main' = "queueing"
  /\ UNCHANGED <<onions, work, thread, alert>>

\* queue_pending_tasks: one turn of its loop, and its end.  A marked circuit
\* whose p_chan is gone leaves the queue and gets no job.
QueueTask ==
  /\ main = "queueing"
  /\ total_pending_tasks < MaxPending
  /\ ~NothingQueued
  /\ LET type == decide_next_handshake_type[1]
         c    == Head(ol_list[type])
         C    == [circ EXCEPT ![c].entry = FALSE]
     IN  /\ ol_list' = [ol_list EXCEPT ![type] = Tail(@)]
         /\ ol_entries' = [ol_entries EXCEPT ![type] = @ - 1]
         /\ recently_chosen_ntors' = decide_next_handshake_type[2]
         /\ ntors_ahead' = IF type = "NTOR" /\ ol_list["TAP"] # <<>>
                           THEN ntors_ahead + 1 ELSE 0
         /\ \/ QueueWork(c, C)
            \/ circ[c].marked /\ circ' = C /\ UNCHANGED pool
  /\ UNCHANGED <<replies, main>>

BadOneReply ==
  /\ main = "queueing"
  /\ total_pending_tasks = MaxPending \/ NothingQueued
  /\ main' = "loop"
  /\ UNCHANGED <<circ, onions, pool, replies>>

QueueDone ==
  /\ main = "queueing"
  /\ total_pending_tasks = MaxPending \/ NothingQueued
  /\ main' = "replies"
  /\ UNCHANGED <<circ, onions, pool, replies>>

RepliesDone ==
  /\ main = "replies"
  /\ answers = <<>>
  /\ main' = "loop"
  /\ UNCHANGED <<circ, onions, pool, replies>>

-----------------------------------------------------------------------------
(* Worker threads: worker_thread_main                                      *)

\* Under the pool's lock: take the first job, or wait for one.
TakeWork(t) ==
  /\ thread[t].at = "awake"
  /\ work # <<>>
  /\ work' = Tail(work)
  /\ thread' = [thread EXCEPT ![t] = [at |-> "running", circ |-> Head(work)]]
  /\ UNCHANGED <<circ, onions, total_pending_tasks, replies, main>>

Wait(t) ==
  /\ thread[t].at = "awake"
  /\ work = <<>>
  /\ thread' = [thread EXCEPT ![t].at = "waiting"]
  /\ UNCHANGED <<circ, onions, total_pending_tasks, work, replies, main>>

\* The handshake is done: queue_reply, whose alert comes after its lock.
QueueReply(t) ==
  /\ thread[t].at = "running"
  /\ answers' = Append(answers, thread[t].circ)
  /\ thread' = [thread EXCEPT ![t] = [at |-> IF answers = <<>> THEN "alerting"
                                             ELSE "awake",
                                      circ |-> "none"]]
  /\ UNCHANGED <<circ, onions, total_pending_tasks, work, alert, main>>

Alert(t) ==
  /\ thread[t].at = "alerting"
  /\ alert' = TRUE
  /\ thread' = [thread EXCEPT ![t].at = "awake"]
  /\ UNCHANGED <<circ, onions, total_pending_tasks, work, answers, main>>

-----------------------------------------------------------------------------
MainLoops == \/ \E c \in Circuits : CloseOne(c)
             \/ CloseEnd \/ Reply \/ QueueTask \/ QueueDone \/ RepliesDone

Worker(t) == TakeWork(t) \/ Wait(t) \/ QueueReply(t) \/ Alert(t)

Next ==
  \/ \E c \in Circuits : MarkForClose(c) \/ \E type \in Types : CreateCell(c, type)
  \/ CloseBegin \/ ReplyEvent \/ MainLoops
  \/ \E t \in Threads : Worker(t)

\* The main thread leaves its loops and handles readable sockets and marked
\* circuits; every thread of the pool runs and every handshake ends.
Fairness ==
  /\ WF_vars(MainLoops) /\ SF_vars(ReplyEvent) /\ SF_vars(CloseBegin)
  /\ \A t \in Threads : WF_vars(Worker(t))

Spec == Init /\ [][Next]_vars

FairSpec == Spec /\ Fairness

-----------------------------------------------------------------------------
(* Properties                                                              *)

InWork(c) == Cardinality({i \in 1..Len(work) : work[i] = c})
Running(c) == Cardinality({t \in Threads : thread[t].at = "running" /\ thread[t].circ = c})
InAnswers(c) == Cardinality({i \in 1..Len(answers) : answers[i] = c})

Outstanding(c) == InWork(c) + Running(c) + InAnswers(c)

\* A job never outlives the memory of the circuit it names, and the circuit
\* knows of it: whatever order close, handshake and reply come in, a circuit
\* with a job is live or dead but not free, has no second one, and a dead one
\* always has a reply to come that frees it (circuit_free_, replyfn).
JobsPointToMemory ==
  \A c \in Circuits :
    /\ circ[c].mem = "free" => Outstanding(c) = 0
    /\ circ[c].mem = "live" => Outstanding(c) = IF circ[c].job THEN 1 ELSE 0
    /\ circ[c].mem = "dead" => Outstanding(c) = 1

\* The queued onionskins are those of live circuits that have neither job nor
\* answer, once each, and a circuit is never forgotten half-way: while it is
\* open for business and not answered it is queued or with the pool.
NoCircuitForgotten ==
  \A c \in Circuits :
    LET InQueue(q) == Cardinality({i \in 1..Len(ol_list[q]) : ol_list[q][i] = c})
    IN  /\ InQueue("TAP") + InQueue("NTOR") = IF circ[c].entry THEN 1 ELSE 0
        /\ circ[c].entry => circ[c].mem = "live" /\ ~circ[c].job
        /\ circ[c].mem = "live" /\ ~circ[c].marked
             /\ circ[c].state = "ONIONSKIN_PENDING" => circ[c].entry # circ[c].job

\* The three counters say what they count, also after jobs were cancelled and
\* requests culled (ol_entries, total_pending_tasks <= max_pending_tasks).
CountersAreTrue ==
  /\ \A q \in Types : ol_entries[q] = Len(ol_list[q])
  /\ total_pending_tasks =
       Len(work) + Cardinality({t \in Threads : thread[t].at = "running"})
                 + Len(answers)

\* No answer waits unheard: unless the main thread is among them, answers come
\* with a readable socket or a thread about to write to it (queue_reply alerts
\* for the first answer only, replyqueue_process drains before it looks).
AnswersAreHeard ==
  answers # <<>> /\ main \in {"loop", "closing"}
    => alert \/ \E t \in Threads : thread[t].at = "alerting"

\* No job waits while every thread sleeps (the signal is sent under the lock
\* and a thread looks at the queue before it waits).
WorkIsSeen ==
  work # <<>> => \E t \in Threads : thread[t].at # "waiting"

\* "prefer processing NTOR style handshakes but still slowly drain the TAP
\* queue": no more than NtorsPerTap of them go ahead of one that waits.
TapNotStarved == ntors_ahead <= NtorsPerTap

\* The memory of a circuit that died with its job is given back.
DeadAreFreed ==
  \A c \in Circuits : circ[c].mem = "dead" ~> circ[c].mem # "dead"

\* A queued onionskin gets its turn, is culled or closed, or every task that
\* was outstanding has been cancelled: a cancelled task starts no other.
QueuedAreServed ==
  \A c \in Circuits :
    circ[c].entry /\ total_pending_tasks > 0
      ~> ~circ[c].entry \/ total_pending_tasks = 0
=============================================================================

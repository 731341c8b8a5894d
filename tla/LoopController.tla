--------------------------- MODULE LoopController ---------------------------
(***************************************************************************)
(* The traffic loop controller of src/loop.  Its main thread asks one tor  *)
(* client over the control port for the exits in use and keeps one loop    *)
(* per exit: a server thread, and a client thread that fetches from it     *)
(* through a second tor client.                                            *)
(*                                                                         *)
(* The first tor client changes between two of the controller's questions. *)
(* An operator whose name starts with Bad is a faulty variant of the       *)
(* definition after it.                                                    *)
(***************************************************************************)
EXTENDS Naturals, Sequences

CONSTANTS
  Nodes,    \* relays, as far as a fingerprint tells them apart
  Circuits, \* the ids of the circuits the first tor client will open
  General,  \* those of purpose GENERAL
  MaxCuts   \* how often a reply does not fit the 4096 octets of recv

NoNode == "none"

ASSUME LoopParameters ==
  /\ Circuits \subseteq Nat
  /\ General \subseteq Circuits
  /\ MaxCuts \in Nat
  /\ NoNode \notin Nodes

VARIABLES
  circuits,   \* the circuits of the first tor client
  streams,    \* the one stream each of them may carry
  ctl,        \* where the main thread is
  cs_lst,     \* the exits get_circuit_status_list returned, by circuit
  exit_nodes, \* what get_exit_nodes returned
  loops,      \* the dictionary: an exit's loop, as an index of threads
  threads,    \* the two threads of each loop ever started
  cuts,       \* replies cut short so far
  answers     \* this round's replies: whole and still true, old, or cut

vars == <<circuits, streams, ctl, cs_lst, exit_nodes, loops, threads, cuts, answers>>
tor == <<circuits, streams>>
round == <<cs_lst, exit_nodes, cuts, answers>>

Asking == {"circuits", "streams", "predict"}
Ended == {"crashed", "failed"}

\* late counts the requests begun since stop_event is set.
Thread == [client : {"check", "send", "wait", "ended"},
           serving : BOOLEAN,  \* the server thread, on its port
           told : BOOLEAN,  \* the client's stop_event
           late : Nat]

-----------------------------------------------------------------------------
(* The first tor client. hops is the length of the path circuit-status      *)
(* shows, last its last relay where the controller could ever take it for   *)
(* an exit, the second or third of a path with flags; a circuit is launched *)
(* with an empty path.                                                      *)

Circuit == [state : {"new", "building", "guard_wait", "built", "closed"},
            hops : 0..4, last : Nodes \cup {NoNode},
            flags : BOOLEAN]  \* BUILD_FLAGS, PURPOSE and TIME_CREATED follow the path:
                              \* not without flags, nor with an HS_STATE between

NewCircuit == [state |-> "new", hops |-> 0, last |-> NoNode, flags |-> FALSE]

\* A tor client opens its circuits in the order of their ids.
CircuitLaunched(c) ==
  /\ circuits[c].state = "new"
  /\ \A d \in Circuits : d < c => circuits[d].state # "new"
  /\ \E f \in BOOLEAN : circuits' = [circuits EXCEPT ![c].state = "building", ![c].flags = f]
  /\ UNCHANGED streams

\* A circuit that is built but not used may get another hop.
CircuitExtended(c) ==
  /\ \/ circuits[c].state = "building"
     \/ circuits[c].state = "built" /\ circuits[c].hops = 3 /\ streams[c] = "unused"
  /\ circuits[c].hops < 4
  /\ \E n \in IF circuits[c].hops \in {1, 2} /\ circuits[c].flags THEN Nodes ELSE {NoNode} :
       circuits' = [circuits EXCEPT ![c].state = "building", ![c].hops = @ + 1, ![c].last = n]
  /\ UNCHANGED streams

\* With its last hop a circuit is open, or waits for a better guard to fail.
CircuitBuilt(c) ==
  /\ \/ circuits[c].state = "building" /\ circuits[c].hops \in {1, 3, 4}
     \/ circuits[c].state = "guard_wait"
  /\ \E s \in {"guard_wait", "built"} : circuits' = [circuits EXCEPT ![c].state = s]
  /\ UNCHANGED streams

CircuitClosed(c) ==
  /\ circuits[c].state \in {"building", "guard_wait", "built"}
  /\ circuits' = [circuits EXCEPT ![c] = [NewCircuit EXCEPT !.state = "closed"]]
  /\ streams' = [streams EXCEPT ![c] = "over"]

StreamOpened(c) ==
  /\ circuits[c].state = "built"
  /\ streams[c] = "unused"
  /\ streams' = [streams EXCEPT ![c] = "open"]
  /\ UNCHANGED circuits

StreamClosed(c) ==
  /\ streams[c] = "open"
  /\ streams' = [streams EXCEPT ![c] = "over"]
  /\ UNCHANGED circuits

\* ... as long as the controller is there.
Tor ==
  /\ ctl \notin Ended
  /\ \E c \in Circuits : \/ CircuitLaunched(c) \/ CircuitExtended(c) \/ CircuitBuilt(c)
                         \/ CircuitClosed(c) \/ StreamOpened(c) \/ StreamClosed(c)
  /\ answers' = IF answers = "cut" THEN "cut" ELSE "old"
  /\ UNCHANGED <<ctl, cs_lst, exit_nodes, loops, threads, cuts>>

-----------------------------------------------------------------------------
(* What the control port says. *)

\* What tor answers to circuit-status: every circuit it has not given up.
Reported == {c \in Circuits : circuits[c].state \in {"building", "guard_wait", "built"}}

\* CircuitStatus.is_valid: not GUARD_WAIT, nor an empty path or a fourth hop,
\* and the other fields in their places.
is_valid(c) ==
  /\ circuits[c].state # "guard_wait"
  /\ circuits[c].hops \in 1..3
  /\ circuits[c].flags

\* The lines that parse. A single circuit is answered on the line of the key,
\* with "250-"; only "250+", the start of several lines, is taken off.
\* Bad: both are taken off.
BadListed == {c \in Reported : is_valid(c)}

Listed == IF \E c \in Circuits : Reported = {c} THEN {} ELSE {c \in Reported : is_valid(c)}

\* CircuitStatus: one hop is an entry, the last of two or three the exit.
Exit(c) == IF circuits[c].hops \in {2, 3} THEN circuits[c].last ELSE NoNode

Carrying == {c \in Circuits : streams[c] = "open"}

LowestId(S) == CHOOSE c \in S : \A d \in S : c <= d

\* get_predicted_circuit, and the exit of the circuit it picks.
BadPredicted(seen) == {Exit(c) : c \in seen} \ {NoNode}
Predicted(seen) ==
  LET general == seen \cap General
  IN IF general = {} THEN {} ELSE {Exit(LowestId(general))} \ {NoNode}

\* The lines one recv returns; what it leaves is read as the next answer.
Received(lines) ==
  IF cuts < MaxCuts \/ (ctl = "streams" /\ answers = "cut") THEN SUBSET lines ELSE {lines}

Cut(lines, seen) ==
  /\ cuts' = IF seen # lines /\ cuts < MaxCuts THEN cuts + 1 ELSE cuts
  /\ answers' = IF seen # lines THEN "cut"
                ELSE IF ctl = "circuits" THEN "true" ELSE answers

-----------------------------------------------------------------------------
(* The main thread. *)

NoAnswer == [c \in Circuits |-> NoNode]

\* get_exit_nodes_of_current_streams, first half.
GetCircuits ==
  /\ ctl = "circuits"
  /\ \E seen \in Received(Listed) :
       /\ cs_lst' = [c \in Circuits |-> IF c \in seen THEN Exit(c) ELSE NoNode]
       /\ Cut(Listed, seen)
  /\ ctl' = "streams"
  /\ UNCHANGED <<tor, exit_nodes, loops, threads>>

Compare(nodes) ==
  IF nodes = DOMAIN loops THEN "sleep"
  ELSE IF DOMAIN loops \subseteq nodes THEN "start" ELSE "stop"

\* The exits of the circuits that carry a stream: "if exit == None: continue".
ExitsOf(seen) == {cs_lst[c] : c \in seen} \ {NoNode}

\* Second half of get_exit_nodes_of_current_streams.
GetStreams ==
  /\ ctl = "streams"
  /\ \E seen \in Received(Carrying) :
       LET nodes == ExitsOf(seen)
       IN /\ Cut(Carrying, seen)
          /\ exit_nodes' = nodes
          /\ ctl' = IF nodes = {} THEN "predict" ELSE Compare(nodes)
  /\ cs_lst' = NoAnswer
  /\ UNCHANGED <<tor, loops, threads>>

\* get_exit_nodes without a stream: asks again, on a new connection.
GetPredicted ==
  /\ ctl = "predict"
  /\ \E seen \in Received(Listed) :
       LET nodes == Predicted(seen)
       IN /\ Cut(Listed, seen)
          /\ exit_nodes' = nodes
          /\ ctl' = Compare(nodes)
  /\ UNCHANGED <<tor, cs_lst, loops, threads>>

\* StoppableThread.stop of the client thread, up to its join. A dictionary
\* is walked in the order of insertion, that of the threads' numbers.
StopOld ==
  /\ ctl = "stop"
  /\ LET old == {loops[n] : n \in DOMAIN loops \ exit_nodes}
     IN threads' = [threads EXCEPT ![LowestId(old)].told = TRUE]
  /\ ctl' = "join"
  /\ UNCHANGED <<tor, loops, round>>

\* The main thread has ended: daemon threads end with the process.
Kill(ts) == [i \in DOMAIN ts |-> [ts[i] EXCEPT !.client = "ended", !.serving = FALSE]]

\* stop() returns, ended or not, the loop is removed, and the walk of the
\* changed dictionary raises, also when it was the last.
StopReturns ==
  /\ ctl = "join"
  /\ loops' = LET old == {loops[n] : n \in DOMAIN loops \ exit_nodes}
                  left == {n \in DOMAIN loops : loops[n] # LowestId(old)}
              IN [n \in left |-> loops[n]]
  /\ ctl' = "crashed"
  /\ threads' = Kill(threads)
  /\ UNCHANGED <<tor, round>>

NewThread == [client |-> "check", serving |-> FALSE, told |-> FALSE, late |-> 0]

\* Loop.__init__, for an exit of the list without a loop.
StartNew ==
  /\ ctl = "start"
  /\ \E n \in exit_nodes \ DOMAIN loops :
       /\ loops' = [m \in DOMAIN loops \cup {n} |->
                      IF m = n THEN Len(threads) + 1 ELSE loops[m]]
       /\ threads' = Append(threads, NewThread)
       /\ ctl' = IF exit_nodes \subseteq DOMAIN loops' THEN "sleep" ELSE "start"
  /\ UNCHANGED <<tor, round>>

SleepEnds == ctl = "sleep" /\ ctl' = "circuits" /\ UNCHANGED <<tor, loops, threads, round>>

\* An exception of the control port: refused, closed, a line cut in a date.
ControlFails ==
  /\ ctl \in Asking \cup {"start"}
  /\ ctl' = "failed"
  /\ threads' = Kill(threads)
  /\ UNCHANGED <<tor, loops, round>>

-----------------------------------------------------------------------------
(* The threads of loop i. *)

\* run_client: the test of its loop.
BadClientChecks(i) ==
  /\ threads[i].client = "check"
  /\ threads' = [threads EXCEPT ![i].client = "send"]
  /\ UNCHANGED <<tor, ctl, loops, round>>

ClientChecks(i) ==
  /\ threads[i].client = "check"
  /\ threads' = [threads EXCEPT ![i].client = IF threads[i].told THEN "ended" ELSE "send"]
  /\ UNCHANGED <<tor, ctl, loops, round>>

\* The request it lets through, after a line of the log.
ClientSends(i) ==
  /\ threads[i].client = "send"
  /\ threads' = [threads EXCEPT ![i].client = "wait",
                                ![i].late = IF threads[i].told THEN @ + 1 ELSE @]
  /\ UNCHANGED <<tor, ctl, loops, round>>

\* The answer, and a sleep before the next test, or an exception that ends
\* the thread.
ClientAnswered(i) ==
  /\ threads[i].client = "wait"
  /\ \/ threads[i].serving /\ threads' = [threads EXCEPT ![i].client = "check"]
     \/ threads' = [threads EXCEPT ![i].client = "ended"]
  /\ UNCHANGED <<tor, ctl, loops, round>>

\* run_server: it binds and serves for ever. It need not: without the port or
\* its keys it ends, which a client cannot tell from a server yet to start.
ServerStarts(i) ==
  /\ ctl \notin Ended
  /\ ~ threads[i].serving
  /\ threads' = [threads EXCEPT ![i].serving = TRUE]
  /\ UNCHANGED <<tor, ctl, loops, round>>

-----------------------------------------------------------------------------
Init ==
  /\ circuits = [c \in Circuits |-> NewCircuit]
  /\ streams = [c \in Circuits |-> "unused"]
  /\ ctl = "circuits"
  /\ cs_lst = NoAnswer
  /\ exit_nodes = {}
  /\ loops = [n \in {} |-> 0]
  /\ threads = <<>>
  /\ cuts = 0
  /\ answers = "true"

Main == GetCircuits \/ GetStreams \/ GetPredicted \/ StopOld \/ StopReturns
        \/ StartNew \/ SleepEnds

Next ==
  \/ Tor
  \/ Main
  \/ ControlFails
  \/ \E i \in DOMAIN threads : \/ ClientChecks(i) \/ ClientSends(i) \/ ClientAnswered(i)
                               \/ ServerStarts(i)

Spec == Init /\ [][Next]_vars

FairSpec == Spec /\ WF_vars(Main)

TypeOK ==
  /\ circuits \in [Circuits -> Circuit]
  /\ streams \in [Circuits -> {"unused", "open", "over"}]
  /\ ctl \in Asking \cup Ended \cup {"stop", "join", "start", "sleep"}
  /\ cs_lst \in [Circuits -> Nodes \cup {NoNode}]
  /\ exit_nodes \subseteq Nodes
  /\ threads \in Seq(Thread)
  /\ DOMAIN loops \subseteq Nodes
  /\ \A n \in DOMAIN loops : loops[n] \in DOMAIN threads
  /\ cuts \in 0..MaxCuts
  /\ answers \in {"true", "old", "cut"}

-----------------------------------------------------------------------------
(* Properties                                                              *)

\* The circuits whose path the controller can know: built or nearly so, not
\* the only one the tor client has, not waiting for a guard, with build flags
\* and no more than three hops.
InSight ==
  {c \in Circuits : /\ circuits[c].state \in {"building", "built"}
                    /\ circuits[c].hops \in 1..3
                    /\ circuits[c].flags
                    /\ \E d \in Circuits \ {c} :
                         circuits[d].state \in {"building", "guard_wait", "built"}}

\* The exits the loops should have: those of the circuits in sight that carry
\* streams now, or, without any, that of the circuit in sight the next stream
\* would take. A single hop is no exit.
Wanted ==
  LET inUse   == {c \in Carrying \cap InSight : circuits[c].hops > 1}
      general == InSight \cap General
      oldest  == {c \in general : /\ circuits[c].hops > 1
                                  /\ \A d \in general : c <= d}
  IN {circuits[c].last : c \in IF inUse = {} THEN oldest ELSE inUse}

\* The two questions of a round are asked one after the other and read into
\* one answer: when nothing happened to the tor client since the first and
\* no reply was cut, a round that ends leaves exactly the loops of the exits
\* of circuits in sight (get_exit_nodes and the main loop of main.py together).
\* A circuit out of sight has no loop, whatever it carries.
QuietRoundIsRight == ctl = "sleep" /\ answers = "true" => DOMAIN loops = Wanted


\* stop() may fall between the client's test of its stop_event and the request
\* that test lets through, and does not wait for the client longer than its
\* timeout. However the two threads interleave, the client begins at most that
\* one request after it is told (StoppableThread.stop, run_client).
OneRequestAfterStop == \A i \in DOMAIN threads : threads[i].late <= 1
=============================================================================

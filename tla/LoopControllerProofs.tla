------------------------ MODULE LoopControllerProofs ------------------------
(***************************************************************************)
(* Proofs about LoopController: what a quiet round finds out, and what a    *)
(* stopped client still does, for any relays, circuits and cut replies.     *)
(***************************************************************************)
EXTENDS LoopController, WellFoundedInduction, TLAPS

\* A stream is on a circuit that stands, and a path that can be read has an
\* exit when it has a second hop.
CircuitsStand ==
  \A c \in Circuits :
    /\ streams[c] = "open" => circuits[c].state = "built"
    /\ circuits[c].state = "new" => circuits[c].hops = 0
    /\ circuits[c].flags /\ circuits[c].hops \in {2, 3} => circuits[c].last \in Nodes

\* What get_circuit_status_list returns of a whole reply.
AllExits == [c \in Circuits |-> IF c \in Listed THEN Exit(c) ELSE NoNode]

InUse == {Exit(c) : c \in Carrying \cap Listed}

\* What the main thread can find out.
Found ==
  LET general == Listed \cap General
      oldest  == {c \in general : \A d \in general : c <= d}
  IN (IF InUse \subseteq {NoNode} THEN {Exit(c) : c \in oldest} ELSE InUse) \ {NoNode}

\* What the main thread knows while nothing disturbed its round.
RoundIsTrue ==
  answers = "true" =>
    /\ ctl = "streams" => cs_lst = AllExits
    /\ ctl = "predict" => InUse \subseteq {NoNode}
    /\ ctl \in {"start", "stop", "join", "sleep"} => exit_nodes = Wanted

\* What it has done about it.
LoopsSoFar ==
  /\ ctl = "start" => DOMAIN loops \subseteq exit_nodes
  /\ ctl = "sleep" => DOMAIN loops = exit_nodes

\* A client that passed its test was not yet told, or has yet to send.
Orderly(t) == t.late \in 0..1 /\ (t.client = "send" \/ ~ t.told => t.late = 0)

Requests == \A i \in DOMAIN threads : Orderly(threads[i])

IInv == TypeOK /\ CircuitsStand /\ RoundIsTrue /\ LoopsSoFar /\ Requests

-----------------------------------------------------------------------------
(* The exits                                                                *)

LEMMA LowestIsLowest ==
  ASSUME NEW S, S \subseteq Nat, S # {}
  PROVE  LowestId(S) \in S /\ \A d \in S : LowestId(S) <= d
<1>1. \E x \in S : \A y \in S : ~ (<<y, x>> \in OpToRel(<, Nat))
  BY WFMin, NatLessThanWellFounded
<1>2. PICK x \in S : \A y \in S : ~ (<<y, x>> \in OpToRel(<, Nat))
  BY <1>1
<1>3. ASSUME NEW y \in S PROVE x <= y
  <2>1. x \in Nat /\ y \in Nat
    OBVIOUS
  <2>2. y < x => <<y, x>> \in OpToRel(<, Nat)
    BY <2>1 DEF OpToRel
  <2>3. ~ (y < x)
    BY <1>2, <2>2
  <2> QED BY <2>1, <2>3
<1>4. \E k \in S : \A d \in S : k <= d
  BY <1>3
<1> QED BY <1>4 DEF LowestId

\* The lines that parse are those of the circuits in sight: no circuit is the
\* only one, or there is another beside it.
LEMMA ListedIsInSight ==
  ASSUME CircuitsStand
  PROVE  Listed = InSight
<1> DEFINE valid == {c \in Reported : is_valid(c)}
<1>1. \A c \in Circuits :
        /\ circuits[c].state \in {"building", "built"}
        /\ circuits[c].hops \in 1..3
        /\ circuits[c].flags
        <=> c \in valid
  BY DEF Reported, is_valid
<1>2. \A c, d \in Circuits :
        d \in Reported <=> circuits[d].state \in {"building", "guard_wait", "built"}
  BY DEF Reported
<1>3. \A c \in Circuits : c \in InSight <=> c \in valid /\ Reported \ {c} # {}
  <2> SUFFICES ASSUME NEW c \in Circuits
               PROVE  c \in InSight <=> c \in valid /\ Reported \ {c} # {}
    OBVIOUS
  <2>1. (\E d \in Circuits \ {c} : circuits[d].state \in {"building", "guard_wait", "built"})
          <=> Reported \ {c} # {}
    BY DEF Reported
  <2>2. c \in InSight
          <=> /\ /\ circuits[c].state \in {"building", "built"}
                 /\ circuits[c].hops \in 1..3
                 /\ circuits[c].flags
              /\ \E d \in Circuits \ {c} :
                   circuits[d].state \in {"building", "guard_wait", "built"}
    BY DEF InSight
  <2> HIDE DEF valid
  <2> QED BY <1>1, <2>1, <2>2
<1>4. valid \subseteq Reported /\ Reported \subseteq Circuits /\ InSight \subseteq Circuits
  BY DEF Reported, InSight
<1>5. CASE \E e \in Circuits : Reported = {e}
  <2>1. Listed = {}
    BY <1>5 DEF Listed
  <2>2. \A c \in valid : Reported \ {c} = {}
    BY <1>4, <1>5
  <2> HIDE DEF valid
  <2> QED BY <1>3, <1>4, <2>1, <2>2
<1>6. CASE ~ \E e \in Circuits : Reported = {e}
  <2>1. Listed = valid
    BY <1>6 DEF Listed
  <2>2. \A c \in valid : Reported \ {c} # {}
    BY <1>4, <1>6
  <2> HIDE DEF valid
  <2> QED BY <1>3, <1>4, <2>1, <2>2
<1> QED BY <1>5, <1>6

\* A circuit in sight has an exit exactly when it has a second hop.
LEMMA ExitInSight ==
  ASSUME TypeOK, CircuitsStand, NEW c \in InSight
  PROVE  /\ circuits[c].hops > 1 => Exit(c) = circuits[c].last /\ Exit(c) # NoNode
         /\ ~ (circuits[c].hops > 1) => Exit(c) = NoNode
<1>1. c \in Circuits /\ circuits[c].hops \in 1..3 /\ circuits[c].flags
  BY DEF InSight
<1>2. circuits[c].hops > 1 <=> circuits[c].hops \in {2, 3}
  BY <1>1
<1>3. circuits[c].hops \in {2, 3} => circuits[c].last \in Nodes
  BY <1>1 DEF CircuitsStand
<1> QED BY <1>2, <1>3, LoopParameters DEF Exit

\* What should be found is what can be.
LEMMA WantedIsFound ==
  ASSUME TypeOK, CircuitsStand
  PROVE  Wanted = Found
<1> DEFINE inUse   == {c \in Carrying \cap InSight : circuits[c].hops > 1}
           general == InSight \cap General
           first   == {c \in general : \A d \in general : c <= d}
           oldest  == {c \in general : /\ circuits[c].hops > 1
                                       /\ \A d \in general : c <= d}
<1>1. Listed = InSight
  BY ListedIsInSight
<1>2. \A c \in InSight : /\ circuits[c].hops > 1 => Exit(c) = circuits[c].last /\ Exit(c) # NoNode
                         /\ ~ (circuits[c].hops > 1) => Exit(c) = NoNode
  BY ExitInSight
<1>3. {circuits[c].last : c \in inUse} = InUse \ {NoNode}
  BY <1>1, <1>2 DEF InUse
<1>4. {circuits[c].last : c \in oldest} = {Exit(c) : c \in first} \ {NoNode}
  <2>1. oldest = {c \in first : circuits[c].hops > 1}
    OBVIOUS
  <2>2. first \subseteq InSight
    OBVIOUS
  <2> HIDE DEF oldest, first
  <2> QED BY <1>2, <2>1, <2>2
<1>5. inUse = {} <=> InUse \subseteq {NoNode}
  BY <1>1, <1>2 DEF InUse
<1>6. Wanted = {circuits[c].last : c \in IF inUse = {} THEN oldest ELSE inUse}
  BY DEF Wanted
<1>7. Found = (IF InUse \subseteq {NoNode} THEN {Exit(c) : c \in first} ELSE InUse) \ {NoNode}
  BY <1>1 DEF Found
<1> HIDE DEF inUse, first, oldest
<1> QED BY <1>3, <1>4, <1>5, <1>6, <1>7

\* With no exit in use, the one of the predicted circuit is wanted.
LEMMA PredictedIsWanted ==
  ASSUME TypeOK, CircuitsStand, InUse \subseteq {NoNode}
  PROVE  Predicted(Listed) = Wanted
<1> DEFINE general == Listed \cap General
           oldest == {c \in general : \A d \in general : c <= d}
<1>1. Wanted = {Exit(c) : c \in oldest} \ {NoNode}
  BY WantedIsFound DEF Found
<1>2. general \subseteq Nat
  BY LoopParameters
<1>3. CASE general = {}
  BY <1>1, <1>3 DEF Predicted
<1>4. CASE general # {}
  <2>1. LowestId(general) \in general /\ \A d \in general : LowestId(general) <= d
    BY <1>2, <1>4, LowestIsLowest
  <2>2. oldest = {LowestId(general)}
    BY <1>2, <2>1
  <2>3. Predicted(Listed) = {Exit(LowestId(general))} \ {NoNode}
    BY <1>4 DEF Predicted
  <2> HIDE DEF oldest, general
  <2> QED BY <1>1, <2>2, <2>3
<1> QED BY <1>3, <1>4

\* The exits of a whole answer about streams are those in use.
LEMMA ExitsAreInUse ==
  ASSUME cs_lst = AllExits
  PROVE  ExitsOf(Carrying) = InUse \ {NoNode}
<1>1. \A c \in Carrying : cs_lst[c] = IF c \in Listed THEN Exit(c) ELSE NoNode
  BY DEF Carrying, AllExits
<1> QED BY <1>1 DEF ExitsOf, InUse

LEMMA ExitIsNode ==
  ASSUME TypeOK, NEW c \in Circuits
  PROVE  Exit(c) \in Nodes \cup {NoNode}
BY DEF TypeOK, Circuit, Exit

\* All of it stays as long as the tor client rests.
LEMMA SameTor ==
  ASSUME UNCHANGED tor
  PROVE  AllExits' = AllExits /\ InUse' = InUse /\ Wanted' = Wanted
<1>1. circuits' = circuits /\ streams' = streams
  BY DEF tor
<1>2. Listed' = Listed /\ InSight' = InSight /\ Carrying' = Carrying
  BY <1>1 DEF Listed, Reported, is_valid, InSight, Carrying
<1>3. \A c \in Circuits : Exit(c)' = Exit(c)
  BY <1>1 DEF Exit
<1> QED BY <1>1, <1>2, <1>3 DEF AllExits, InUse, Wanted, Exit

-----------------------------------------------------------------------------
(* The tor client, and the threads                                          *)

LEMMA TorKeeps ==
  ASSUME IInv, Tor
  PROVE  IInv'
<1>1. /\ answers' \in {"old", "cut"}
      /\ UNCHANGED <<ctl, cs_lst, exit_nodes, loops, threads, cuts>>
  BY DEF Tor
<1>2. circuits \in [Circuits -> Circuit] /\ streams \in [Circuits -> {"unused", "open", "over"}]
  BY DEF IInv, TypeOK
<1>3. PICK c \in Circuits : \/ CircuitLaunched(c) \/ CircuitExtended(c) \/ CircuitBuilt(c)
                            \/ CircuitClosed(c) \/ StreamOpened(c) \/ StreamClosed(c)
  BY DEF Tor
<1>4. /\ circuits' \in [Circuits -> Circuit]
      /\ streams' \in [Circuits -> {"unused", "open", "over"}]
      /\ CircuitsStand'
  <2>1. CASE CircuitLaunched(c)
    <3>1. PICK f \in BOOLEAN :
            circuits' = [circuits EXCEPT ![c].state = "building", ![c].flags = f]
      BY <2>1 DEF CircuitLaunched
    <3> DEFINE x == [circuits[c] EXCEPT !.state = "building", !.flags = f]
    <3>2. circuits[c].state = "new" /\ circuits[c].hops = 0 /\ streams' = streams
      BY <2>1 DEF CircuitLaunched, IInv, CircuitsStand
    <3>3. x \in Circuit /\ x.state = "building" /\ x.hops = 0
      BY <1>2, <3>2 DEF Circuit
    <3>4. circuits' = [circuits EXCEPT ![c] = x]
      BY <1>2, <3>1
    <3>5. streams[c] # "open"
      BY <3>2 DEF IInv, CircuitsStand
    <3> HIDE DEF x
    <3>6. circuits' \in [Circuits -> Circuit]
      BY <1>2, <3>3, <3>4
    <3>7. circuits'[c] = x /\ \A d \in Circuits : d # c => circuits'[d] = circuits[d]
      BY <1>2, <3>4
    <3> QED BY <1>2, <3>2, <3>3, <3>5, <3>6, <3>7 DEF IInv, CircuitsStand
  <2>2. CASE CircuitExtended(c)
    <3>1. PICK n \in IF circuits[c].hops \in {1, 2} /\ circuits[c].flags
                      THEN Nodes ELSE {NoNode} :
            circuits' = [circuits EXCEPT ![c].state = "building", ![c].hops = @ + 1, ![c].last = n]
      BY <2>2 DEF CircuitExtended
    <3> DEFINE x == [circuits[c] EXCEPT !.state = "building", !.hops = @ + 1, !.last = n]
    <3>2. circuits[c].hops \in 0..4 /\ circuits[c].hops < 4 /\ streams' = streams
      BY <1>2, <2>2 DEF CircuitExtended, Circuit
    <3>3. circuits[c].hops + 1 \in 0..4
      BY <3>2
    <3>4. /\ x \in Circuit /\ x.state = "building" /\ x.hops = circuits[c].hops + 1
          /\ x.last = n /\ x.flags = circuits[c].flags
      BY <1>2, <3>1, <3>3 DEF Circuit
    <3>5. circuits' = [circuits EXCEPT ![c] = x]
      BY <1>2, <3>1
    <3>6. x.flags /\ x.hops \in {2, 3} => x.last \in Nodes
      BY <3>1, <3>2, <3>4
    <3>7. streams[c] # "open"
      BY <2>2 DEF CircuitExtended, IInv, CircuitsStand
    <3> HIDE DEF x
    <3>8. circuits' \in [Circuits -> Circuit]
      BY <1>2, <3>4, <3>5
    <3>9. circuits'[c] = x /\ \A d \in Circuits : d # c => circuits'[d] = circuits[d]
      BY <1>2, <3>5
    <3>10. CircuitsStand'
      BY <3>2, <3>4, <3>6, <3>7, <3>9 DEF IInv, CircuitsStand
    <3> QED BY <1>2, <3>2, <3>8, <3>10
  <2>3. CASE CircuitBuilt(c)
    BY <1>2, <2>3 DEF CircuitBuilt, Circuit, IInv, CircuitsStand
  <2>4. CASE CircuitClosed(c)
    <3> DEFINE x == [NewCircuit EXCEPT !.state = "closed"]
    <3>1. NewCircuit \in Circuit /\ NewCircuit.hops = 0
      BY DEF NewCircuit, Circuit
    <3>2. x \in Circuit /\ x.state = "closed" /\ x.hops = 0
      BY <3>1 DEF Circuit
    <3>3. circuits' = [circuits EXCEPT ![c] = x] /\ streams' = [streams EXCEPT ![c] = "over"]
      BY <2>4 DEF CircuitClosed
    <3> HIDE DEF x
    <3>4. /\ circuits' \in [Circuits -> Circuit]
          /\ streams' \in [Circuits -> {"unused", "open", "over"}]
      BY <1>2, <3>2, <3>3
    <3>5. circuits'[c] = x /\ streams'[c] = "over"
          /\ \A d \in Circuits : d # c => circuits'[d] = circuits[d] /\ streams'[d] = streams[d]
      BY <1>2, <3>3
    <3> QED BY <3>2, <3>4, <3>5 DEF IInv, CircuitsStand
  <2>5. CASE StreamOpened(c)
    BY <1>2, <2>5 DEF StreamOpened, IInv, CircuitsStand
  <2>6. CASE StreamClosed(c)
    BY <1>2, <2>6 DEF StreamClosed, IInv, CircuitsStand
  <2> QED BY <1>3, <2>1, <2>2, <2>3, <2>4, <2>5, <2>6
<1>5. TypeOK'
  BY <1>1, <1>4 DEF IInv, TypeOK
<1>6. RoundIsTrue' /\ LoopsSoFar' /\ Requests'
  BY <1>1 DEF IInv, RoundIsTrue, LoopsSoFar, Requests, Orderly
<1> QED BY <1>4, <1>5, <1>6 DEF IInv

\* A step of a thread, or of the main thread on threads only.
LEMMA ThreadsOnly ==
  ASSUME IInv, UNCHANGED <<tor, loops, round>>,
         threads' \in Seq(Thread), Len(threads') = Len(threads), Requests',
         \/ ctl' = ctl
         \/ ctl = "stop" /\ ctl' = "join"
         \/ ctl' \in Ended
  PROVE  IInv'
<1>1. DOMAIN threads' = DOMAIN threads
  BY DEF IInv, TypeOK
<1>2. TypeOK'
  BY <1>1 DEF IInv, TypeOK, tor, round, Ended
<1>3. CircuitsStand' /\ LoopsSoFar'
  BY DEF IInv, CircuitsStand, LoopsSoFar, tor, round, Ended
<1>4. RoundIsTrue'
  BY SameTor DEF IInv, RoundIsTrue, round, Ended
<1> QED BY <1>2, <1>3, <1>4 DEF IInv

LEMMA SequenceOf ==
  ASSUME NEW S, NEW n \in Nat, NEW f \in [1..n -> S]
  PROVE  f \in Seq(S) /\ Len(f) = n
OBVIOUS

\* A thread changes, and keeps to its order.
LEMMA UpdatedThread ==
  ASSUME NEW s \in Seq(Thread), NEW i \in DOMAIN s, NEW x \in Thread, Orderly(x),
         \A j \in DOMAIN s : Orderly(s[j])
  PROVE  /\ [s EXCEPT ![i] = x] \in Seq(Thread)
         /\ Len([s EXCEPT ![i] = x]) = Len(s)
         /\ \A j \in DOMAIN [s EXCEPT ![i] = x] : Orderly([s EXCEPT ![i] = x][j])
<1>1. Len(s) \in Nat /\ s \in [1..Len(s) -> Thread] /\ DOMAIN s = 1..Len(s)
  OBVIOUS
<1> DEFINE t == [s EXCEPT ![i] = x]
<1>2. t \in [1..Len(s) -> Thread]
  BY <1>1
<1>3. \A j \in DOMAIN s : t[j] = IF j = i THEN x ELSE s[j]
  BY <1>1
<1>4. DOMAIN t = DOMAIN s
  OBVIOUS
<1> HIDE DEF t
<1>5. \A j \in DOMAIN t : Orderly(t[j])
  BY <1>3, <1>4
<1> QED BY <1>1, <1>2, <1>5, SequenceOf DEF t

LEMMA KilledThreads ==
  ASSUME NEW s \in Seq(Thread), \A j \in DOMAIN s : Orderly(s[j])
  PROVE  /\ Kill(s) \in Seq(Thread) /\ Len(Kill(s)) = Len(s)
         /\ \A i \in DOMAIN Kill(s) : Orderly(Kill(s)[i])
<1> DEFINE K(i) == [s[i] EXCEPT !.client = "ended", !.serving = FALSE]
<1>1. Len(s) \in Nat /\ DOMAIN s = 1..Len(s)
  OBVIOUS
<1>2. ASSUME NEW i \in DOMAIN s PROVE K(i) \in Thread /\ Orderly(K(i))
  <2>1. s[i] \in Thread
    BY <1>1
  <2>2. /\ K(i) \in Thread /\ K(i).client = "ended"
        /\ K(i).late = s[i].late /\ K(i).told = s[i].told
    BY <2>1 DEF Thread
  <2> HIDE DEF K
  <2> QED BY <2>2 DEF Orderly
<1>3. Kill(s) = [i \in 1..Len(s) |-> K(i)]
  BY <1>1 DEF Kill
<1> HIDE DEF K
<1>4. Kill(s) \in [1..Len(s) -> Thread]
  BY <1>1, <1>2, <1>3
<1>5. \A i \in DOMAIN Kill(s) : Orderly(Kill(s)[i])
  BY <1>1, <1>2, <1>3
<1> QED BY <1>1, <1>4, <1>5, SequenceOf

LEMMA ThreadKeeps ==
  ASSUME IInv, NEW i \in DOMAIN threads,
         ClientChecks(i) \/ ClientSends(i) \/ ClientAnswered(i) \/ ServerStarts(i)
  PROVE  IInv'
<1>1. threads \in Seq(Thread) /\ threads[i] \in Thread /\ Orderly(threads[i])
  BY DEF IInv, TypeOK, Requests
<1>2. /\ UNCHANGED <<tor, loops, round, ctl>>
      /\ \E x \in Thread : threads' = [threads EXCEPT ![i] = x] /\ Orderly(x)
  <2>1. CASE ClientChecks(i)
    <3> DEFINE x == [threads[i] EXCEPT !.client = IF threads[i].told THEN "ended" ELSE "send"]
    <3>1. x \in Thread /\ Orderly(x)
      BY <1>1 DEF Thread, Orderly
    <3>2. threads' = [threads EXCEPT ![i] = x]
      BY <2>1 DEF ClientChecks
    <3> HIDE DEF x
    <3> QED BY <2>1, <3>1, <3>2 DEF ClientChecks
  <2>2. CASE ClientSends(i)
    <3> DEFINE n == IF threads[i].told THEN threads[i].late + 1 ELSE threads[i].late
               x == [threads[i] EXCEPT !.client = "wait", !.late = n]
    <3>1. threads[i].client = "send"
      BY <2>2 DEF ClientSends
    <3>2. threads[i].late = 0
      BY <1>1, <3>1 DEF Orderly
    <3>3. n \in 0..1 /\ n \in Nat /\ (~ threads[i].told => n = 0)
      BY <3>2
    <3> HIDE DEF n
    <3>4. /\ x \in Thread /\ x.client = "wait" /\ x.late = n
          /\ x.told = threads[i].told
      <4>1. threads[i] \in [client : {"check", "send", "wait", "ended"},
                            serving : BOOLEAN, told : BOOLEAN, late : Nat]
        BY <1>1 DEF Thread
      <4>2. DOMAIN x = {"client", "serving", "told", "late"}
        BY <4>1
      <4>3. /\ x.client = "wait" /\ x.late = n /\ x.told = threads[i].told
            /\ x.serving = threads[i].serving
        BY <4>1, <4>2
      <4> QED BY <3>3, <4>1, <4>2, <4>3 DEF Thread
    <3>5. Orderly(x)
      BY <3>3, <3>4 DEF Orderly
    <3>6. threads' = [threads EXCEPT ![i] = x]
      BY <2>2 DEF ClientSends, n
    <3> HIDE DEF x
    <3> QED BY <2>2, <3>4, <3>5, <3>6 DEF ClientSends
  <2>3. CASE ClientAnswered(i)
    <3>1. PICK a \in {"check", "ended"} : threads' = [threads EXCEPT ![i].client = a]
      BY <2>3 DEF ClientAnswered
    <3> DEFINE x == [threads[i] EXCEPT !.client = a]
    <3>2. x \in Thread /\ Orderly(x)
      BY <1>1 DEF Thread, Orderly
    <3>3. threads' = [threads EXCEPT ![i] = x]
      BY <3>1
    <3> HIDE DEF x
    <3> QED BY <2>3, <3>2, <3>3 DEF ClientAnswered
  <2>4. CASE ServerStarts(i)
    <3> DEFINE x == [threads[i] EXCEPT !.serving = TRUE]
    <3>1. x \in Thread /\ Orderly(x)
      BY <1>1 DEF Thread, Orderly
    <3>2. threads' = [threads EXCEPT ![i] = x]
      BY <2>4 DEF ServerStarts
    <3> HIDE DEF x
    <3> QED BY <2>4, <3>1, <3>2 DEF ServerStarts
  <2> QED BY <2>1, <2>2, <2>3, <2>4
<1>3. PICK x \in Thread : threads' = [threads EXCEPT ![i] = x] /\ Orderly(x)
  BY <1>2
<1>4. threads' \in Seq(Thread) /\ Len(threads') = Len(threads) /\ Requests'
  BY <1>1, <1>3, UpdatedThread DEF IInv, Requests
<1> QED BY <1>2, <1>4, ThreadsOnly

LEMMA KillKeeps ==
  ASSUME IInv, ControlFails
  PROVE  IInv'
<1>1. /\ UNCHANGED <<tor, loops, round>>
      /\ ctl' = "failed" /\ threads' = Kill(threads) /\ threads \in Seq(Thread)
  BY DEF ControlFails, IInv, TypeOK
<1>2. threads' \in Seq(Thread) /\ Len(threads') = Len(threads) /\ Requests'
  BY <1>1, KilledThreads DEF IInv, Requests
<1> QED BY <1>1, <1>2, ThreadsOnly DEF Ended

-----------------------------------------------------------------------------
(* The main thread                                                          *)

\* Its questions: threads and loops stay.
Question ==
  /\ UNCHANGED <<tor, loops, threads>>
  /\ cs_lst' \in [Circuits -> Nodes \cup {NoNode}]
  /\ exit_nodes' \subseteq Nodes
  /\ cuts' \in 0..MaxCuts
  /\ answers' \in {"true", "old", "cut"}
  /\ ctl' \in {"circuits", "streams", "predict", "start", "stop", "sleep"}

LEMMA QuestionKeeps ==
  ASSUME IInv, Question,
         ctl' = "start" => DOMAIN loops \subseteq exit_nodes',
         ctl' = "sleep" => DOMAIN loops = exit_nodes',
         answers' = "true" /\ ctl' = "streams" => cs_lst' = AllExits,
         answers' = "true" /\ ctl' = "predict" => InUse \subseteq {NoNode},
         answers' = "true" /\ ctl' \in {"start", "stop", "sleep"} => exit_nodes' = Wanted
  PROVE  IInv'
<1>1. TypeOK'
  BY DEF IInv, TypeOK, Question, tor, Asking
<1>2. CircuitsStand'
  BY DEF IInv, CircuitsStand, Question, tor
<1>3. AllExits' = AllExits /\ InUse' = InUse /\ Wanted' = Wanted
  BY SameTor DEF Question
<1>4. RoundIsTrue'
  BY <1>3 DEF RoundIsTrue, Question
<1>5. LoopsSoFar' /\ Requests'
  BY DEF IInv, LoopsSoFar, Requests, Orderly, Question
<1> QED BY <1>1, <1>2, <1>4, <1>5 DEF IInv

LEMMA CutFacts ==
  ASSUME TypeOK, NEW lines, NEW seen, Cut(lines, seen)
  PROVE  /\ cuts' \in 0..MaxCuts
         /\ answers' \in {"true", "old", "cut"}
         /\ answers' = "true" => seen = lines /\ (ctl # "circuits" => answers = "true")
BY LoopParameters DEF Cut, TypeOK

\* Compare takes the loops for the exits of the round.
LEMMA CompareFacts ==
  ASSUME NEW nodes
  PROVE  /\ Compare(nodes) \in {"start", "stop", "sleep"}
         /\ Compare(nodes) = "start" => DOMAIN loops \subseteq nodes
         /\ Compare(nodes) = "sleep" => DOMAIN loops = nodes
BY DEF Compare

LEMMA GetCircuitsKeeps ==
  ASSUME IInv, GetCircuits
  PROVE  IInv'
<1>1. PICK seen \in Received(Listed) :
        /\ cs_lst' = [c \in Circuits |-> IF c \in seen THEN Exit(c) ELSE NoNode]
        /\ Cut(Listed, seen)
  BY DEF GetCircuits
<1>2. /\ ctl = "circuits" /\ ctl' = "streams"
      /\ UNCHANGED <<tor, exit_nodes, loops, threads>>
  BY DEF GetCircuits
<1>3. /\ cuts' \in 0..MaxCuts /\ answers' \in {"true", "old", "cut"}
      /\ answers' = "true" => seen = Listed
  BY <1>1, CutFacts DEF IInv
<1>4. cs_lst' \in [Circuits -> Nodes \cup {NoNode}]
  BY <1>1, ExitIsNode DEF IInv
<1>5. Question
  BY <1>2, <1>3, <1>4 DEF Question, IInv, TypeOK
<1>6. answers' = "true" => cs_lst' = AllExits
  BY <1>1, <1>3 DEF AllExits
<1> QED BY <1>2, <1>5, <1>6, QuestionKeeps

LEMMA GetStreamsKeeps ==
  ASSUME IInv, GetStreams
  PROVE  IInv'
<1>1. PICK seen \in Received(Carrying) :
        /\ Cut(Carrying, seen)
        /\ exit_nodes' = ExitsOf(seen)
        /\ ctl' = IF ExitsOf(seen) = {} THEN "predict" ELSE Compare(ExitsOf(seen))
  BY DEF GetStreams
<1>2. ctl = "streams" /\ UNCHANGED <<tor, loops, threads>>
  BY DEF GetStreams
<1>3. /\ cuts' \in 0..MaxCuts /\ answers' \in {"true", "old", "cut"}
      /\ answers' = "true" => seen = Carrying /\ answers = "true"
  BY <1>1, <1>2, CutFacts DEF IInv
<1>4. exit_nodes' \subseteq Nodes
  <2>1. seen \subseteq Circuits
    BY DEF Received, Carrying
  <2> QED BY <1>1, <2>1 DEF ExitsOf, IInv, TypeOK
<1>5. Question
  <2>1. cs_lst' \in [Circuits -> Nodes \cup {NoNode}]
    BY DEF GetStreams, NoAnswer
  <2> QED BY <2>1, <1>1, <1>2, <1>3, <1>4, CompareFacts DEF Question, IInv, TypeOK
<1>6. answers' = "true" => exit_nodes' = InUse \ {NoNode}
  BY <1>1, <1>2, <1>3, ExitsAreInUse DEF IInv, RoundIsTrue
<1>7. answers' = "true" /\ ctl' = "predict" => InUse \subseteq {NoNode}
  BY <1>1, <1>6, CompareFacts
<1>8. answers' = "true" /\ ctl' # "predict" => exit_nodes' = Wanted
  <2>1. InUse \subseteq {NoNode} \/ Wanted = InUse \ {NoNode}
    BY WantedIsFound DEF IInv, Found
  <2>2. InUse \subseteq {NoNode} => InUse \ {NoNode} = {}
    OBVIOUS
  <2> QED BY <1>1, <1>6, <2>1, <2>2
<1>9. /\ ctl' \in {"predict", "start", "stop", "sleep"}
      /\ ctl' = "start" => DOMAIN loops \subseteq exit_nodes'
      /\ ctl' = "sleep" => DOMAIN loops = exit_nodes'
  BY <1>1, CompareFacts
<1> QED BY <1>5, <1>7, <1>8, <1>9, QuestionKeeps

LEMMA GetPredictedKeeps ==
  ASSUME IInv, GetPredicted
  PROVE  IInv'
<1>1. PICK seen \in Received(Listed) :
        /\ Cut(Listed, seen)
        /\ exit_nodes' = Predicted(seen)
        /\ ctl' = Compare(Predicted(seen))
  BY DEF GetPredicted
<1>2. ctl = "predict" /\ UNCHANGED <<tor, cs_lst, loops, threads>>
  BY DEF GetPredicted
<1>3. /\ cuts' \in 0..MaxCuts /\ answers' \in {"true", "old", "cut"}
      /\ answers' = "true" => seen = Listed /\ answers = "true"
  BY <1>1, <1>2, CutFacts DEF IInv
<1>4. exit_nodes' \subseteq Nodes
  <2>1. seen \subseteq Circuits
    BY DEF Received, Listed, Reported
  <2> DEFINE general == seen \cap General
  <2>2. CASE general = {}
    BY <1>1, <2>2 DEF Predicted
  <2>3. CASE general # {}
    <3>1. LowestId(general) \in general
      BY <2>1, <2>3, LowestIsLowest, LoopParameters
    <3>2. Exit(LowestId(general)) \in Nodes \cup {NoNode}
      BY <2>1, <3>1, ExitIsNode DEF IInv
    <3> QED BY <1>1, <2>3, <3>2 DEF Predicted
  <2> QED BY <2>2, <2>3
<1>5. Question
  BY <1>1, <1>2, <1>3, <1>4, CompareFacts DEF Question, IInv, TypeOK
<1>6. answers' = "true" => exit_nodes' = Wanted
  BY <1>1, <1>2, <1>3, PredictedIsWanted DEF IInv, RoundIsTrue
<1>7. /\ ctl' \in {"start", "stop", "sleep"}
      /\ ctl' = "start" => DOMAIN loops \subseteq exit_nodes'
      /\ ctl' = "sleep" => DOMAIN loops = exit_nodes'
  BY <1>1, CompareFacts
<1> QED BY <1>5, <1>6, <1>7, QuestionKeeps

LEMMA StopKeeps ==
  ASSUME IInv, StopOld \/ StopReturns
  PROVE  IInv'
<1>1. threads \in Seq(Thread)
  BY DEF IInv, TypeOK
<1>2. CASE StopOld
  <2>1. PICK i : threads' = [threads EXCEPT ![i].told = TRUE]
    BY <1>2 DEF StopOld
  <2>2. UNCHANGED <<tor, loops, round>> /\ ctl = "stop" /\ ctl' = "join"
    BY <1>2 DEF StopOld
  <2>3. CASE i \notin DOMAIN threads
    <3>1. threads' = threads
      BY <1>1, <2>1, <2>3
    <3>2. Requests'
      BY <3>1 DEF IInv, Requests, Orderly
    <3> QED BY <1>1, <2>2, <3>1, <3>2, ThreadsOnly
  <2>4. CASE i \in DOMAIN threads
    <3> DEFINE x == [threads[i] EXCEPT !.told = TRUE]
    <3>1. threads[i] \in Thread /\ Orderly(threads[i])
      BY <1>1, <2>4 DEF IInv, Requests
    <3>2. x \in Thread /\ Orderly(x)
      BY <3>1 DEF Thread, Orderly
    <3>3. threads' = [threads EXCEPT ![i] = x]
      BY <2>1
    <3> HIDE DEF x
    <3>4. threads' \in Seq(Thread) /\ Len(threads') = Len(threads) /\ Requests'
      BY <1>1, <2>4, <3>2, <3>3, UpdatedThread DEF IInv, Requests
    <3> QED BY <2>2, <3>4, ThreadsOnly
  <2> QED BY <2>3, <2>4
<1>3. CASE StopReturns
  <2>1. /\ UNCHANGED <<tor, round>> /\ ctl' = "crashed" /\ threads' = Kill(threads)
        /\ \E left \in SUBSET DOMAIN loops : loops' = [n \in left |-> loops[n]]
    BY <1>3 DEF StopReturns
  <2>2. threads' \in Seq(Thread) /\ Len(threads') = Len(threads) /\ Requests'
    BY <1>1, <2>1, KilledThreads DEF IInv, Requests
  <2>3. DOMAIN threads' = DOMAIN threads
    BY <1>1, <2>2
  <2>4. TypeOK'
    BY <2>1, <2>2, <2>3 DEF IInv, TypeOK, tor, round, Ended
  <2>5. CircuitsStand' /\ LoopsSoFar' /\ RoundIsTrue'
    BY <2>1 DEF IInv, CircuitsStand, LoopsSoFar, RoundIsTrue, tor, round
  <2> QED BY <2>2, <2>4, <2>5 DEF IInv
<1> QED BY <1>2, <1>3

LEMMA StartKeeps ==
  ASSUME IInv, StartNew
  PROVE  IInv'
<1>1. threads \in Seq(Thread) /\ NewThread \in Thread /\ Orderly(NewThread)
  BY DEF IInv, TypeOK, Thread, NewThread, Orderly
<1>2. PICK n \in exit_nodes \ DOMAIN loops :
        /\ loops' = [m \in DOMAIN loops \cup {n} |-> IF m = n THEN Len(threads) + 1 ELSE loops[m]]
        /\ threads' = Append(threads, NewThread)
        /\ ctl' = IF exit_nodes \subseteq DOMAIN loops' THEN "sleep" ELSE "start"
  BY DEF StartNew
<1>3. UNCHANGED <<tor, round>> /\ ctl = "start"
  BY DEF StartNew
<1>4. /\ threads' \in Seq(Thread) /\ Len(threads') = Len(threads) + 1
      /\ \A i \in DOMAIN threads : threads'[i] = threads[i]
      /\ threads'[Len(threads) + 1] = NewThread
      /\ DOMAIN threads = 1..Len(threads) /\ DOMAIN threads' = 1..(Len(threads) + 1)
      /\ Len(threads) \in Nat
  BY <1>1, <1>2
<1>5. DOMAIN loops' = DOMAIN loops \cup {n}
  BY <1>2
<1>6. DOMAIN loops' \subseteq exit_nodes
  BY <1>2, <1>3, <1>5 DEF IInv, LoopsSoFar
<1>7. TypeOK'
  <2>1. \A m \in DOMAIN loops' : loops'[m] \in DOMAIN threads'
    BY <1>2, <1>4, <1>5 DEF IInv, TypeOK
  <2> QED BY <1>2, <1>3, <1>4, <1>6, <2>1 DEF IInv, TypeOK, tor, round
<1>8. LoopsSoFar'
  BY <1>2, <1>3, <1>6 DEF LoopsSoFar, round
<1>9. Wanted' = Wanted
  BY <1>3, SameTor
<1>10. RoundIsTrue' /\ CircuitsStand'
  BY <1>2, <1>3, <1>9 DEF IInv, RoundIsTrue, CircuitsStand, tor, round
<1>11. Requests'
  <2>1. \A i \in DOMAIN threads' : i \in DOMAIN threads \/ i = Len(threads) + 1
    BY <1>4
  <2>2. \A i \in DOMAIN threads' : Orderly(threads'[i])
    BY <1>1, <1>4, <2>1 DEF IInv, Requests
  <2> QED BY <2>2 DEF Requests, Orderly
<1> QED BY <1>7, <1>8, <1>10, <1>11 DEF IInv

LEMMA SleepKeeps ==
  ASSUME IInv, SleepEnds
  PROVE  IInv'
<1>1. UNCHANGED <<tor, loops, threads, round>> /\ ctl' = "circuits"
  BY DEF SleepEnds
<1>2. Question
  BY <1>1 DEF Question, IInv, TypeOK, round
<1> QED BY <1>1, <1>2, QuestionKeeps

-----------------------------------------------------------------------------
(* The theorems                                                             *)

LEMMA InitIInv == Init => IInv
<1> SUFFICES ASSUME Init PROVE IInv
  OBVIOUS
<1>1. TypeOK
  BY LoopParameters DEF Init, TypeOK, Circuit, NewCircuit, NoAnswer, Asking
<1>2. CircuitsStand /\ RoundIsTrue /\ LoopsSoFar /\ Requests
  BY DEF Init, CircuitsStand, NewCircuit, RoundIsTrue, LoopsSoFar, Requests
<1> QED BY <1>1, <1>2 DEF IInv

LEMMA StepKeeps ==
  ASSUME IInv, [Next]_vars
  PROVE  IInv'
<1>1. CASE Tor
  BY <1>1, TorKeeps
<1>2. CASE GetCircuits \/ GetStreams \/ GetPredicted \/ SleepEnds
  BY <1>2, GetCircuitsKeeps, GetStreamsKeeps, GetPredictedKeeps, SleepKeeps
<1>3. CASE StopOld \/ StopReturns \/ StartNew
  BY <1>3, StopKeeps, StartKeeps
<1>4. CASE ControlFails
  BY <1>4, KillKeeps
<1>5. ASSUME NEW i \in DOMAIN threads,
             ClientChecks(i) \/ ClientSends(i) \/ ClientAnswered(i) \/ ServerStarts(i)
      PROVE  IInv'
  BY <1>5, ThreadKeeps
<1>6. CASE UNCHANGED vars
  <2>1. /\ threads' \in Seq(Thread) /\ Len(threads') = Len(threads) /\ Requests'
        /\ UNCHANGED <<tor, loops, round, ctl>>
    BY <1>6 DEF vars, tor, round, IInv, TypeOK, Requests, Orderly
  <2> QED BY <2>1, ThreadsOnly
<1> QED BY <1>1, <1>2, <1>3, <1>4, <1>5, <1>6 DEF Next, Main

\* What the main thread knows in each phase of a round (main.py, get_exit_nodes).
THEOREM RoundInvariant == Spec => []IInv
<1>1. Init => IInv
  BY InitIInv
<1>2. IInv /\ [Next]_vars => IInv'
  BY StepKeeps
<1> QED BY <1>1, <1>2, PTL DEF Spec

\* A round that nothing disturbed leaves exactly the loops that are wanted,
\* whatever rounds went before it (get_exit_nodes, main).
THEOREM QuietRoundsAreRight == Spec => []QuietRoundIsRight
<1>1. IInv => QuietRoundIsRight
  BY DEF IInv, RoundIsTrue, LoopsSoFar, QuietRoundIsRight
<1> QED BY <1>1, RoundInvariant, PTL

\* Whatever stop() meets a client thread doing, and however long its join is
\* outlasted, one request at most begins after it (run_client).
THEOREM StoppedClientsSendOnce == Spec => []OneRequestAfterStop
<1>1. IInv => OneRequestAfterStop
  BY DEF IInv, Requests, Orderly, OneRequestAfterStop
<1> QED BY <1>1, RoundInvariant, PTL
=============================================================================

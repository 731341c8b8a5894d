--------------------------- MODULE DelaySampling ---------------------------
(***************************************************************************)
(* Drawing the delay of a cell: get_delay_timeval and what it calls          *)
(* (relay.c), with the delay state that each direction of a circuit keeps    *)
(* between two cells, and the options of the relay that AUTO stands for.      *)
(*                                                                         *)
(* A delay is known by its size: 0 for none, -1 for a negative one, k for     *)
(* more than e^(k-1) and at most e^k microseconds (size 1 is all up to e).    *)
(* Parameters are sizes of times (for EXPONENTIAL of the mean, 1/param1), the *)
(* two of LOGNORMAL are the numbers themselves.  A distribution is the set of  *)
(* sizes it can produce; what is less likely than 10^-15, and a random        *)
(* generator that is broken, are left out.                                   *)
(*                                                                         *)
(* An operator whose name starts with Bad is a faulty variant of the          *)
(* definition after it; no specification uses it.                             *)
(***************************************************************************)
EXTENDS Integers

CONSTANTS
  Policies,      \* policies of circuits, as accepted from CREATE cells
  AutoOptions    \* values of AutoDelayMode (an int), Param1, Param2 and Max

AUTO == 1
UNIFORM == 2
NORMAL == 3
LOGNORMAL == 4
EXPONENTIAL == 5
POISSON == 6
MARKOV == 7

\* A uniform bound may be negative, a mean or a deviation is not; a negative
\* maximum means that there is none.
IsPolicy(p) ==
  /\ p \in [mode : Int, param1 : Int, param2 : Int, max : Int]
  /\ p.mode # UNIFORM => p.param1 >= 0 /\ p.param2 >= 0

ASSUME SamplingParameters ==
  /\ \A p \in Policies : IsPolicy(p) /\ p.mode \in 1..255
  /\ \A p \in AutoOptions : IsPolicy(p)

VARIABLES
  policy,       \* delay_policy of the circuit, which has one and is not NONE
  options,      \* get_options() of the relay
  delay_state,  \* n_delay_state (OUT) and p_delay_state (IN)
  drawing,      \* get_delay_timeval has not returned
  dir, p,       \* ... its argument and local variables mode, param1, param2, max
  delay         \* what it returned last

vars == <<policy, options, delay_state, drawing, dir, p, delay>>

Dirs == {"OUT", "IN"}

-----------------------------------------------------------------------------
(* The chain of delay states: update_circ_delay_state as a relation          *)

States == 0..27

Successors0to10 ==
  [s \in 0..10 |->
     CASE s = 0 -> {4, 2, 18, 11, 14, 25, 22}
       [] s = 1 -> {1, 4, 2, 5, 3}
       [] s = 2 -> {1, 8, 7}
       [] s = 3 -> {1, 4, 3}
       [] s = 4 -> {4, 2, 3, 8}
       [] s = 5 -> {9, 8}
       [] s = 6 -> {4, 5}
       [] s = 8 -> {1, 4, 6, 2, 5, 8}
       [] s = 9 -> {6, 2, 8}
       [] OTHER -> {0}]

Successors11to18 ==
  [s \in 11..18 |->
     CASE s = 11 -> {15, 14}
       [] s = 12 -> {11, 15, 14}
       [] s = 13 -> {17, 13, 14, 10}
       [] s = 14 -> {12, 15}
       [] s = 15 -> {18, 17, 11, 13, 10}
       [] s = 17 -> {18, 17, 11, 13, 15, 14}
       [] s = 18 -> {18, 12, 10}
       [] OTHER -> {0}]

Successors19to27 ==
  [s \in 19..27 |->
     CASE s = 19 -> {19, 25}
       [] s = 20 -> {26, 27, 22, 24}
       [] s = 21 -> {24}
       [] s = 22 -> {19, 20, 23, 22, 24}
       [] s = 23 -> {27, 25, 22, 24}
       [] s = 25 -> {22}
       [] s = 26 -> {20, 23, 21}
       [] s = 27 -> {19, 27, 22}
       [] OTHER -> {0}]

update_circ_delay_state(s) ==
  CASE s \in 0..10  -> Successors0to10[s]
    [] s \in 11..18 -> Successors11to18[s]
    [] s \in 19..27 -> Successors19to27[s]

\* The states in which get_delay_microseconds_markov goes on to the next.
\* Bad: one is missing.
BadSilent == {0, 7, 10}

Silent == {0, 7, 10, 24}

\* generate_delay, in the branch it always takes (r is 0): e^(mu + sigma x).
Delays1to13 ==
  [s \in 1..13 |->
     CASE s = 1  -> 1..4      [] s = 2  -> 1..47     [] s = 3  -> 1..28
       [] s = 4  -> 1..44     [] s = 5  -> {1}       [] s = 6  -> {22}
       [] s = 8  -> 1..47     [] s = 9  -> {4}       [] s = 11 -> 10..15
       [] s = 12 -> 1..44     [] s = 13 -> 2..3
       [] OTHER -> {0}]

Delays14to27 ==
  [s \in 14..27 |->
     CASE s = 14 -> 1..3      [] s = 15 -> 1..23     [] s = 16 -> 1..7
       [] s = 17 -> 1..48     [] s = 18 -> 1..39     [] s = 19 -> 1..27
       [] s = 20 -> {5}       [] s = 21 -> 1..9      [] s = 22 -> 1..34
       [] s = 23 -> 1..46     [] s = 25 -> 5..20     [] s = 26 -> 1..23
       [] s = 27 -> 1..8
       [] OTHER -> {0}]

generate_delay(s) ==
  CASE s \in 1..13  -> Delays1to13[s]
    [] s \in 14..27 -> Delays14to27[s]
    [] OTHER        -> {0}

-----------------------------------------------------------------------------
(* The distributions with parameters                                        *)

Larger(a, b) == IF a > b THEN a ELSE b
Smaller(a, b) == IF a < b THEN a ELSE b
Default(a, d) == IF a = 0 THEN d ELSE a

\* The defaults are times in milliseconds: 50, 12, 70, 33.3 and, for an upper
\* bound or the maximum, 100.
HundredMs == 12

\* get_delay_microseconds_uniform.  Bad: the default comes before the swap.
BadUniform(low, high) ==
  Smaller(low, Default(high, HundredMs))..Larger(low, Default(high, HundredMs))

get_delay_microseconds_uniform(low, high) ==
  Smaller(low, high)..Default(Larger(low, high), HundredMs)

\* get_delay_microseconds_normal.  A mean that is beyond the reach of the
\* deviation keeps its size; negative values are drawn again.
get_delay_microseconds_normal(mu, sigma) ==
  LET m == Default(mu, 11)
      s == Default(sigma, 10)
  IN  IF m >= s + 4 THEN (m - 1)..(m + 1) ELSE 0..(Larger(m, s + 3) + 1)

get_delay_microseconds_lognormal(mu, sigma) ==
  LET m      == 7 + Default(mu, 4)
      spread == Default(8 * sigma, 4)
  IN  Larger(1, m - spread)..(m + spread)

\* Whole milliseconds.
get_delay_microseconds_poisson(mean) ==
  {0} \cup 7..(Larger(7, Default(mean, 12)) + 3)

get_delay_microseconds_exponential(mean) == 0..(Default(mean, 11) + 4)

-----------------------------------------------------------------------------
(* get_delay_timeval                                                       *)

\* The locals before the loop: AUTO stands for the options of the relay, whose
\* int becomes a uint8_t; then no maximum is one of 100 ms.
\* Bad: the maximum gets its default first.
BadLocals ==
  LET q == [policy EXCEPT !.max = Default(@, HundredMs)]
  IN  IF q.mode # AUTO THEN q ELSE [options EXCEPT !.mode = @ % 256]

locals ==
  LET q == IF policy.mode # AUTO THEN policy ELSE [options EXCEPT !.mode = @ % 256]
  IN  [q EXCEPT !.max = Default(@, HundredMs)]

\* The condition of the loop.
TooLong(d) == p.max > 0 /\ d > p.max

\* A cell needs a delay (get_ready_timeval).
Begin(direction) ==
  /\ ~drawing
  /\ drawing' = TRUE
  /\ dir' = direction
  /\ p' = locals
  /\ UNCHANGED <<policy, options, delay_state, delay>>

\* The end of a turn of the loop: another one, or a delay, never below zero.
Drawn(d) ==
  IF TooLong(d) THEN UNCHANGED <<drawing, delay>>
  ELSE drawing' = FALSE /\ delay' = Larger(d, 0)

\* What a mode without states can produce; no delay in any other mode.
Distribution(q) ==
  CASE q.mode = UNIFORM     -> get_delay_microseconds_uniform(q.param1, q.param2)
    [] q.mode = NORMAL      -> get_delay_microseconds_normal(q.param1, q.param2)
    [] q.mode = LOGNORMAL   -> get_delay_microseconds_lognormal(q.param1, q.param2)
    [] q.mode = EXPONENTIAL -> get_delay_microseconds_exponential(q.param1)
    [] q.mode = POISSON     -> get_delay_microseconds_poisson(q.param1)
    [] OTHER                -> {0}

Draw ==
  /\ drawing /\ p.mode # MARKOV
  /\ \E d \in Distribution(p) : Drawn(d)
  /\ UNCHANGED <<policy, options, delay_state, dir, p>>

\* get_delay_microseconds_markov, one turn of its loop: the state of the
\* direction moves on, and is kept although the delay is drawn again.
DrawMarkov ==
  /\ drawing /\ p.mode = MARKOV
  /\ \E s \in update_circ_delay_state(delay_state[dir]) :
       /\ delay_state' = [delay_state EXCEPT ![dir] = s]
       /\ IF s \in Silent THEN UNCHANGED <<drawing, delay>>
          ELSE \E d \in generate_delay(s) : Drawn(d)
  /\ UNCHANGED <<policy, options, dir, p>>

\* The relay's options are set, between two callbacks.
SetOptions ==
  /\ ~drawing
  /\ options' \in AutoOptions
  /\ UNCHANGED <<policy, delay_state, drawing, dir, p, delay>>

\* A circuit whose policy was just accepted (or_circuit_new zeroes the rest).
Init ==
  /\ policy \in Policies
  /\ options \in AutoOptions
  /\ delay_state = [d \in Dirs |-> 0]
  /\ drawing = FALSE
  /\ dir = "OUT"
  /\ p = policy
  /\ delay = 0

Next == (\E d \in Dirs : Begin(d)) \/ Draw \/ DrawMarkov \/ SetOptions

Spec == Init /\ [][Next]_vars

-----------------------------------------------------------------------------
(* Properties                                                              *)

\* The maximum that holds for a draw that begins now, from policy and options.
HardLimit ==
  Default(IF policy.mode = AUTO THEN options.max ELSE policy.max, HundredMs)

\* "Hard upper limit for delays": a delay that is returned is never negative
\* and never above the maximum of the policy, or of the relay's own options
\* when the policy is AUTO, and 100 ms when that is zero.
DelayIsBelowLimit ==
  [][drawing /\ ~drawing' =>
       delay' >= 0 /\ (HardLimit > 0 => delay' <= HardLimit)]_vars

\* The tables fit: a Markov delay is never the 0.0 that generate_delay returns
\* for a state it does not know, and the state a direction is left in is one
\* that delays.
MarkovAlwaysDelays ==
  [][drawing /\ ~drawing' /\ p.mode = MARKOV =>
       delay' > 0 /\ generate_delay(delay_state'[dir]) # {0}]_vars

\* States the chain comes to from each state, in at most 32 steps.
Chain == [s \in States |-> update_circ_delay_state(s)]

Twice(R) == [s \in States |-> R[s] \cup UNION {R[t] : t \in R[s]}]

Reachable == Twice(Twice(Twice(Twice(Twice(Chain)))))

\* Some delay of a mode without states is not above the maximum: a uniform
\* range starts below it, a mean, or the default it stands for, is not above it.
ParametersFit(q) ==
  q.max > 0 =>
    CASE q.mode = UNIFORM   -> Smaller(q.param1, q.param2) <= q.max
      [] q.mode = NORMAL    -> Default(q.param1, 11) <= q.max
      [] q.mode = LOGNORMAL -> q.param1 + 7 <= q.max
      [] OTHER              -> TRUE

\* The loops of get_delay_timeval and get_delay_microseconds_markov are never
\* trapped: with whatever state a circuit comes to the draw, and whatever was
\* rejected in it, some next draws end it - unless the parameters name only
\* delays above the maximum.
DrawCanEnd ==
  LET can_end ==
        IF p.mode = MARKOV
        THEN \E s \in Reachable[delay_state[dir]] \ Silent :
               \E d \in generate_delay(s) : ~TooLong(d)
        ELSE \E d \in Distribution(p) : ~TooLong(d)
  IN  drawing /\ ParametersFit(p) => can_end
=============================================================================

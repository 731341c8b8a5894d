------------------------ MODULE DelaySamplingProofs ------------------------
(***************************************************************************)
(* The maximum of a delay, the fit of the Markov tables, and that a draw can *)
(* end, for any set of policies and options.                                *)
(***************************************************************************)
EXTENDS DelaySampling, TLAPS

\* What a draw relies on: the states of the chain, and locals that still say
\* what policy and options say, since options change between two draws only.
SamplingInv ==
  /\ policy \in Policies
  /\ options \in AutoOptions
  /\ delay_state \in [Dirs -> States]
  /\ drawing \in BOOLEAN
  /\ dir \in Dirs
  /\ drawing => p = locals

-----------------------------------------------------------------------------
(* The tables                                                              *)

\* update_circ_delay_state stays within the states that the code has.
LEMMA StatesAreClosed ==
  ASSUME NEW s \in States
  PROVE  update_circ_delay_state(s) \subseteq States
<1>1. CASE s \in 0..10
  <2>1. update_circ_delay_state(s) = Successors0to10[s]
    BY <1>1 DEF update_circ_delay_state
  <2> QED  BY <1>1, <2>1 DEF Successors0to10, States
<1>2. CASE s \in 11..18
  <2>1. update_circ_delay_state(s) = Successors11to18[s]
    BY <1>2 DEF update_circ_delay_state
  <2> QED  BY <1>2, <2>1 DEF Successors11to18, States
<1>3. CASE s \in 19..27
  <2>1. update_circ_delay_state(s) = Successors19to27[s]
    BY <1>3 DEF update_circ_delay_state
  <2> QED  BY <1>3, <2>1 DEF Successors19to27, States
<1> QED  BY <1>1, <1>2, <1>3 DEF States

\* generate_delay has a distribution of positive delays for every state the
\* chain stops in.
LEMMA LoudStatesDelay ==
  ASSUME NEW s \in States \ Silent
  PROVE  /\ generate_delay(s) # {0}
         /\ \A d \in generate_delay(s) : d \in Int /\ d > 0
<1>1. CASE s \in 1..13
  <2>1. generate_delay(s) = Delays1to13[s]
    BY <1>1 DEF generate_delay
  <2> QED  BY <1>1, <2>1 DEF Delays1to13, States, Silent
<1>2. CASE s \in 14..27
  <2>1. generate_delay(s) = Delays14to27[s]
    BY <1>2 DEF generate_delay
  <2> QED  BY <1>2, <2>1 DEF Delays14to27, States, Silent
<1> QED  BY <1>1, <1>2 DEF States, Silent

-----------------------------------------------------------------------------
(* The distributions                                                       *)

\* The locals of a draw are numbers, whatever policy and options it is for.
LEMMA LocalsAreNumbers ==
  ASSUME policy \in Policies, options \in AutoOptions
  PROVE  /\ locals.param1 \in Int
         /\ locals.param2 \in Int
         /\ locals.max \in Int
         /\ locals.max = HardLimit
<1>1. IsPolicy(policy) /\ IsPolicy(options)
  BY SamplingParameters
<1>2. CASE policy.mode = AUTO
  BY <1>1, <1>2 DEF IsPolicy, locals, HardLimit, Default, HundredMs
<1>3. CASE policy.mode # AUTO
  BY <1>1, <1>3 DEF IsPolicy, locals, HardLimit, Default, HundredMs
<1> QED  BY <1>2, <1>3

\* What a mode without states draws is a number.
LEMMA DistributionIsNumbers ==
  ASSUME NEW q, q.param1 \in Int, q.param2 \in Int, NEW d \in Distribution(q)
  PROVE  d \in Int
<1> USE DEF UNIFORM, NORMAL, LOGNORMAL, EXPONENTIAL, POISSON
<1>1. CASE q.mode = UNIFORM
  <2>1. d \in get_delay_microseconds_uniform(q.param1, q.param2)
    BY <1>1 DEF Distribution
  <2> QED  BY <2>1 DEF get_delay_microseconds_uniform
<1>2. CASE q.mode = NORMAL
  <2>1. d \in get_delay_microseconds_normal(q.param1, q.param2)
    BY <1>2 DEF Distribution
  <2> QED  BY <2>1 DEF get_delay_microseconds_normal
<1>3. CASE q.mode = LOGNORMAL
  <2>1. d \in get_delay_microseconds_lognormal(q.param1, q.param2)
    BY <1>3 DEF Distribution
  <2> QED  BY <2>1 DEF get_delay_microseconds_lognormal
<1>4. CASE q.mode = EXPONENTIAL
  <2>1. d \in get_delay_microseconds_exponential(q.param1)
    BY <1>4 DEF Distribution
  <2> QED  BY <2>1 DEF get_delay_microseconds_exponential
<1>5. CASE q.mode = POISSON
  <2>1. d \in get_delay_microseconds_poisson(q.param1)
    BY <1>5 DEF Distribution
  <2> QED  BY <2>1 DEF get_delay_microseconds_poisson
<1>6. CASE q.mode \notin {UNIFORM, NORMAL, LOGNORMAL, EXPONENTIAL, POISSON}
  BY <1>6 DEF Distribution
<1> QED  BY <1>1, <1>2, <1>3, <1>4, <1>5, <1>6

\* A turn of the loop that ends the draw returns a delay within the maximum.
LEMMA TurnEnds ==
  ASSUME p.max \in Int, drawing, NEW d \in Int, Drawn(d), ~drawing'
  PROVE  /\ delay' = Larger(d, 0)
         /\ delay' >= 0
         /\ p.max > 0 => delay' <= p.max
<1>1. ~TooLong(d) /\ delay' = Larger(d, 0)
  BY DEF Drawn
<1> QED  BY <1>1 DEF TooLong, Larger

-----------------------------------------------------------------------------
(* The invariant                                                           *)

LEMMA SamplingInit ==
  Init => SamplingInv
<1> SUFFICES ASSUME Init
             PROVE  SamplingInv
  OBVIOUS
<1>1. delay_state \in [Dirs -> States]
  BY DEF Init, States
<1>2. dir \in Dirs /\ drawing = FALSE
  BY DEF Init, Dirs
<1> QED  BY <1>1, <1>2 DEF Init, SamplingInv

\* The locals depend on policy and options alone.
LEMMA LocalsStay ==
  ASSUME UNCHANGED <<policy, options>>
  PROVE  locals' = locals
BY DEF locals

LEMMA SamplingStep ==
  SamplingInv /\ [Next]_vars => SamplingInv'
<1> SUFFICES ASSUME SamplingInv, [Next]_vars
             PROVE  SamplingInv'
  OBVIOUS
<1> USE DEF SamplingInv
<1>1. ASSUME NEW direction \in Dirs, Begin(direction)
      PROVE  SamplingInv'
  BY <1>1, LocalsStay DEF Begin
<1>2. CASE Draw
  <2>1. drawing' \in BOOLEAN
    BY <1>2 DEF Draw, Drawn
  <2> QED  BY <1>2, <2>1, LocalsStay DEF Draw
<1>3. CASE DrawMarkov
  <2>1. PICK s \in update_circ_delay_state(delay_state[dir]) :
          /\ delay_state' = [delay_state EXCEPT ![dir] = s]
          /\ IF s \in Silent THEN UNCHANGED <<drawing, delay>>
             ELSE \E d \in generate_delay(s) : Drawn(d)
    BY <1>3 DEF DrawMarkov
  <2>2. s \in States
    BY <2>1, StatesAreClosed
  <2>3. drawing' \in BOOLEAN
    BY <2>1 DEF Drawn
  <2> QED  BY <1>3, <2>1, <2>2, <2>3, LocalsStay DEF DrawMarkov
<1>4. CASE SetOptions
  BY <1>4 DEF SetOptions
<1>5. CASE UNCHANGED vars
  BY <1>5, LocalsStay DEF vars
<1> QED  BY <1>1, <1>2, <1>3, <1>4, <1>5 DEF Next

THEOREM SamplingInvariant == Spec => []SamplingInv
BY SamplingInit, SamplingStep, PTL DEF Spec

-----------------------------------------------------------------------------
(* The properties                                                          *)

\* No delay above the maximum, for any policy and options.
THEOREM MaximumIsHard == Spec => DelayIsBelowLimit
<1>1. SamplingInv /\ [Next]_vars =>
        (drawing /\ ~drawing' =>
           delay' >= 0 /\ (HardLimit > 0 => delay' <= HardLimit))
  <2> SUFFICES ASSUME SamplingInv, [Next]_vars, drawing, ~drawing'
               PROVE  delay' >= 0 /\ (HardLimit > 0 => delay' <= HardLimit)
    OBVIOUS
  <2>1. p.param1 \in Int /\ p.param2 \in Int /\ p.max \in Int /\ p.max = HardLimit
    BY LocalsAreNumbers DEF SamplingInv
  <2>2. PICK d \in Int : Drawn(d)
    <3>1. CASE Draw
      BY <3>1, <2>1, DistributionIsNumbers DEF Draw
    <3>2. CASE DrawMarkov
      <4>1. PICK s \in update_circ_delay_state(delay_state[dir]) :
              IF s \in Silent THEN UNCHANGED <<drawing, delay>>
              ELSE \E d \in generate_delay(s) : Drawn(d)
        BY <3>2 DEF DrawMarkov
      <4>2. s \in States
        BY <4>1, StatesAreClosed DEF SamplingInv
      <4> QED  BY <4>1, <4>2, LoudStatesDelay
    <3> QED  BY <3>1, <3>2 DEF Next, Begin, SetOptions, vars
  <2> QED  BY <2>1, <2>2, TurnEnds
<1>2. Spec => [][drawing /\ ~drawing' =>
                   delay' >= 0 /\ (HardLimit > 0 => delay' <= HardLimit)]_vars
  BY <1>1, SamplingInvariant, PTL DEF Spec
<1> QED  BY <1>2 DEF DelayIsBelowLimit

\* A Markov delay is never zero, for any history of the chain.
THEOREM TablesFit == Spec => MarkovAlwaysDelays
<1>1. SamplingInv /\ [Next]_vars =>
        (drawing /\ ~drawing' /\ p.mode = MARKOV =>
           delay' > 0 /\ generate_delay(delay_state'[dir]) # {0})
  <2> SUFFICES ASSUME SamplingInv, [Next]_vars, drawing, ~drawing', p.mode = MARKOV
               PROVE  delay' > 0 /\ generate_delay(delay_state'[dir]) # {0}
    OBVIOUS
  <2>1. DrawMarkov
    BY DEF Next, Begin, Draw, SetOptions, vars
  <2>2. PICK s \in update_circ_delay_state(delay_state[dir]) :
          /\ delay_state' = [delay_state EXCEPT ![dir] = s]
          /\ IF s \in Silent THEN UNCHANGED <<drawing, delay>>
             ELSE \E d \in generate_delay(s) : Drawn(d)
    BY <2>1 DEF DrawMarkov
  <2>3. s \in States \ Silent
    BY <2>2, StatesAreClosed DEF SamplingInv
  <2>4. delay_state'[dir] = s
    BY <2>2 DEF SamplingInv
  <2>5. PICK d \in generate_delay(s) : Drawn(d)
    BY <2>2, <2>3
  <2>6. d \in Int /\ d > 0
    BY <2>3, <2>5, LoudStatesDelay
  <2>7. p.max \in Int
    BY LocalsAreNumbers DEF SamplingInv
  <2>8. delay' = Larger(d, 0)
    BY <2>5, <2>6, <2>7, TurnEnds
  <2> QED  BY <2>3, <2>4, <2>6, <2>8, LoudStatesDelay DEF Larger
<1>2. Spec => [][drawing /\ ~drawing' /\ p.mode = MARKOV =>
                   delay' > 0 /\ generate_delay(delay_state'[dir]) # {0}]_vars
  BY <1>1, SamplingInvariant, PTL DEF Spec
<1> QED  BY <1>2 DEF MarkovAlwaysDelays

-----------------------------------------------------------------------------
(* A draw can end                                                          *)

\* R tells for each state some states that the chain comes to.
IsChain(R) == R \in [States -> SUBSET States]

LEMMA TwiceReaches ==
  ASSUME NEW R, IsChain(R)
  PROVE  /\ IsChain(Twice(R))
         /\ \A s \in States : R[s] \subseteq Twice(R)[s]
         /\ \A s, t, u \in States : t \in R[s] /\ u \in R[t] => u \in Twice(R)[s]
BY DEF IsChain, Twice

\* A state the chain stops in, with a delay no maximum rejects.
HasShortDelay(s) == s \notin Silent /\ 1 \in generate_delay(s)

Short == {s \in States : HasShortDelay(s)}

LEMMA ShortStates ==
  /\ {1, 2, 3, 4, 5, 8, 12, 14, 15, 17, 18} \subseteq Short
  /\ {19, 22, 23, 26, 27} \subseteq Short
<1>1. \A s \in {1, 2, 3, 4, 5, 8, 12} : 1 \in Delays1to13[s]
  BY DEF Delays1to13
<1>2. \A s \in {14, 15, 17, 18, 19, 22, 23, 26, 27} : 1 \in Delays14to27[s]
  BY DEF Delays14to27
<1>3. \A s \in 1..13 : generate_delay(s) = Delays1to13[s]
  BY DEF generate_delay
<1>4. \A s \in 14..27 : generate_delay(s) = Delays14to27[s]
  BY DEF generate_delay
<1> QED  BY <1>1, <1>2, <1>3, <1>4 DEF Short, HasShortDelay, Silent, States

\* From each state but three the chain may stop at once with a short delay;
\* from these it comes to one in two or three steps.
LEMMA NextIsShort ==
  /\ \A s \in States \ {7, 10, 16, 21, 24} : \E t \in Short : t \in Chain[s]
  /\ \A s \in {7, 10, 16, 24} : 0 \in Chain[s]
  /\ 24 \in Chain[21]
<1>1. ASSUME NEW s \in 0..10
      PROVE  Chain[s] = Successors0to10[s]
  BY DEF Chain, update_circ_delay_state, States
<1>2. ASSUME NEW s \in 11..18
      PROVE  Chain[s] = Successors11to18[s]
  BY DEF Chain, update_circ_delay_state, States
<1>3. ASSUME NEW s \in 19..27
      PROVE  Chain[s] = Successors19to27[s]
  BY DEF Chain, update_circ_delay_state, States
<1>4. /\ \A s \in (0..10) \ {7, 10} : Successors0to10[s] \cap {1, 2, 4, 8} # {}
      /\ 0 \in Successors0to10[7] /\ 0 \in Successors0to10[10]
  BY DEF Successors0to10
<1>5. /\ \A s \in (11..18) \ {16} : Successors11to18[s] \cap {12, 14, 15, 17, 18} # {}
      /\ 0 \in Successors11to18[16]
  BY DEF Successors11to18
<1>6. /\ \A s \in (19..27) \ {21, 24} :
           Successors19to27[s] \cap {19, 22, 23, 26, 27} # {}
      /\ 24 \in Successors19to27[21] /\ 0 \in Successors19to27[24]
  BY DEF Successors19to27
<1>7. ASSUME NEW s \in States \ {7, 10, 16, 21, 24}
      PROVE  \E t \in Short : t \in Chain[s]
  <2>1. CASE s \in 0..10
    <3>1. Chain[s] \cap {1, 2, 4, 8} # {}
      BY <1>1, <1>4, <2>1
    <3> QED  BY <3>1, ShortStates
  <2>2. CASE s \in 11..18
    <3>1. Chain[s] \cap {12, 14, 15, 17, 18} # {}
      BY <1>2, <1>5, <2>2
    <3> QED  BY <3>1, ShortStates
  <2>3. CASE s \in 19..27
    <3>1. Chain[s] \cap {19, 22, 23, 26, 27} # {}
      BY <1>3, <1>6, <2>3
    <3> QED  BY <3>1, ShortStates
  <2> QED  BY <2>1, <2>2, <2>3 DEF States
<1> QED  BY <1>1, <1>2, <1>3, <1>4, <1>5, <1>6, <1>7

\* The chain is never trapped: a short delay is within reach of every state.
LEMMA ShortIsReachable ==
  ASSUME NEW s \in States
  PROVE  \E t \in Short : t \in Reachable[s]
<1> DEFINE R1 == Twice(Chain)
           R2 == Twice(R1)
           R3 == Twice(R2)
           R4 == Twice(R3)
<1>1. IsChain(Chain)
  BY StatesAreClosed DEF IsChain, Chain
<1>2. /\ IsChain(R1) /\ \A t \in States : Chain[t] \subseteq R1[t]
      /\ \A t, u, v \in States : u \in Chain[t] /\ v \in Chain[u] => v \in R1[t]
  <2> HIDE DEF R1
  <2> QED  BY <1>1, TwiceReaches DEF R1
<1> HIDE DEF R1
<1>3. /\ IsChain(R2) /\ \A t \in States : R1[t] \subseteq R2[t]
      /\ \A t, u, v \in States : u \in R1[t] /\ v \in R1[u] => v \in R2[t]
  BY <1>2, TwiceReaches
<1> HIDE DEF R2
<1>4. IsChain(R3) /\ \A t \in States : R2[t] \subseteq R3[t]
  BY <1>3, TwiceReaches
<1> HIDE DEF R3
<1>5. IsChain(R4) /\ \A t \in States : R3[t] \subseteq R4[t]
  BY <1>4, TwiceReaches
<1> HIDE DEF R4
<1>6. \A t \in States : R4[t] \subseteq Reachable[t]
  BY <1>5, TwiceReaches DEF Reachable, R4, R3, R2, R1
<1>7. R2[s] \subseteq Reachable[s]
  BY <1>4, <1>5, <1>6
<1>8. \A t \in Short : t \in States
  BY DEF Short
<1>9. 0 \in States /\ 24 \in States
  BY DEF States
<1>10. PICK first \in Short : first \in Chain[0]
  BY <1>9, NextIsShort
<1>11. CASE s \notin {7, 10, 16, 21, 24}
  <2>1. PICK t \in Short : t \in Chain[s]
    BY <1>11, NextIsShort
  <2> QED  BY <1>2, <1>3, <1>7, <1>8, <2>1
<1>12. CASE s \in {7, 10, 16, 24}
  <2>1. first \in R1[s]
    BY <1>2, <1>8, <1>9, <1>10, <1>12, NextIsShort
  <2> QED  BY <1>3, <1>7, <2>1
<1>13. CASE s = 21
  <2>1. 24 \in R1[s] /\ first \in R1[24]
    BY <1>2, <1>8, <1>9, <1>10, <1>13, NextIsShort
  <2>2. first \in R2[s]
    BY <1>3, <1>8, <1>9, <2>1
  <2> QED  BY <1>7, <2>2
<1> QED  BY <1>11, <1>12, <1>13

\* A number that no distribution's parameters rule out is below the maximum.
LEMMA SomeDelayFits ==
  ASSUME NEW q, q.mode \in Int, q.param1 \in Int, q.param2 \in Int, q.max \in Int,
         q.mode # UNIFORM => q.param1 >= 0 /\ q.param2 >= 0,
         ParametersFit(q)
  PROVE  \E d \in Distribution(q) : d \in Int /\ (q.max > 0 => d <= q.max)
<1> USE DEF UNIFORM, NORMAL, LOGNORMAL, EXPONENTIAL, POISSON, ParametersFit
<1>1. CASE q.mode = UNIFORM
  <2> DEFINE d == Smaller(q.param1, q.param2)
  <2>1. d \in Distribution(q)
    BY <1>1 DEF Distribution, get_delay_microseconds_uniform, Smaller, Larger,
                Default, HundredMs
  <2>2. d \in Int /\ (q.max > 0 => d <= q.max)
    BY <1>1 DEF Smaller
  <2> HIDE DEF d
  <2> QED  BY <2>1, <2>2
<1>2. CASE q.mode = NORMAL
  <2> DEFINE m == Default(q.param1, 11)
             s == Default(q.param2, 10)
  <2>1. m \in Int /\ s \in Int /\ m > 0 /\ s > 0 /\ (q.max > 0 => m <= q.max)
    BY <1>2 DEF Default
  <2>2. Distribution(q) = IF m >= s + 4 THEN (m - 1)..(m + 1)
                          ELSE 0..(Larger(m, s + 3) + 1)
    BY <1>2 DEF Distribution, get_delay_microseconds_normal
  <2> HIDE DEF m, s
  <2>3. CASE m >= s + 4
    BY <2>1, <2>2, <2>3
  <2>4. CASE ~(m >= s + 4)
    <3>1. 0 \in Distribution(q)
      BY <2>1, <2>2, <2>4 DEF Larger
    <3> QED  BY <3>1
  <2> QED  BY <2>3, <2>4
<1>3. CASE q.mode = LOGNORMAL
  <2> DEFINE m == 7 + Default(q.param1, 4)
             spread == Default(8 * q.param2, 4)
             d == Larger(1, m - spread)
  <2>1. /\ m \in Int /\ spread \in Int /\ m > 7 /\ spread >= 4
        /\ q.max > 0 => m - 4 <= q.max
    BY <1>3 DEF Default
  <2>2. Distribution(q) = d..(m + spread)
    BY <1>3 DEF Distribution, get_delay_microseconds_lognormal
  <2> HIDE DEF m, spread
  <2>3. d \in d..(m + spread) /\ d \in Int /\ (q.max > 0 => d <= q.max)
    BY <2>1 DEF Larger
  <2> HIDE DEF d
  <2> QED  BY <2>2, <2>3
<1>4. CASE q.mode = EXPONENTIAL
  <2>1. 0 \in Distribution(q)
    BY <1>4 DEF Distribution, get_delay_microseconds_exponential, Default
  <2> QED  BY <2>1
<1>5. CASE q.mode = POISSON
  <2>1. 0 \in Distribution(q)
    BY <1>5 DEF Distribution, get_delay_microseconds_poisson
  <2> QED  BY <2>1
<1>6. CASE q.mode \notin {UNIFORM, NORMAL, LOGNORMAL, EXPONENTIAL, POISSON}
  <2>1. 0 \in Distribution(q)
    BY <1>6 DEF Distribution
  <2> QED  BY <2>1
<1> QED  BY <1>1, <1>2, <1>3, <1>4, <1>5, <1>6

\* The parameters of a draw are those of an accepted policy or of the options,
\* although the options lose the upper bits of their mode.
LEMMA LocalsArePolicy ==
  ASSUME policy \in Policies, options \in AutoOptions
  PROVE  /\ locals.mode \in Int
         /\ locals.mode # UNIFORM => locals.param1 >= 0 /\ locals.param2 >= 0
<1>1. IsPolicy(policy) /\ IsPolicy(options)
  BY SamplingParameters
<1>2. CASE policy.mode = AUTO
  <2>1. /\ locals.mode = options.mode % 256
        /\ locals.param1 = options.param1 /\ locals.param2 = options.param2
    BY <1>1, <1>2 DEF IsPolicy, locals
  <2>2. options.mode \in Int /\ (options.mode = UNIFORM => options.mode % 256 = UNIFORM)
    BY <1>1 DEF IsPolicy, UNIFORM
  <2> QED  BY <1>1, <2>1, <2>2 DEF IsPolicy
<1>3. CASE policy.mode # AUTO
  BY <1>1, <1>3 DEF IsPolicy, locals
<1> QED  BY <1>2, <1>3

\* No draw is trapped, for any policies and options and after any history: the
\* next draws may end it.
THEOREM DrawsCanEnd == Spec => []DrawCanEnd
<1>1. SamplingInv => DrawCanEnd
  <2> SUFFICES ASSUME SamplingInv, drawing PROVE DrawCanEnd
    BY DEF DrawCanEnd
  <2>1. /\ p.mode \in Int /\ p.param1 \in Int /\ p.param2 \in Int /\ p.max \in Int
        /\ p.mode # UNIFORM => p.param1 >= 0 /\ p.param2 >= 0
    BY LocalsAreNumbers, LocalsArePolicy DEF SamplingInv
  <2>2. CASE p.mode = MARKOV
    <3>1. delay_state[dir] \in States
      BY DEF SamplingInv
    <3>2. PICK s \in Short : s \in Reachable[delay_state[dir]]
      BY <3>1, ShortIsReachable
    <3>3. s \in Reachable[delay_state[dir]] \ Silent /\ 1 \in generate_delay(s)
      BY <3>2 DEF Short, HasShortDelay
    <3>4. ~TooLong(1)
      BY <2>1 DEF TooLong
    <3> QED  BY <2>2, <3>3, <3>4 DEF DrawCanEnd
  <2>3. CASE p.mode # MARKOV
    <3>1. ASSUME ParametersFit(p)
          PROVE  \E d \in Distribution(p) : ~TooLong(d)
      <4>1. PICK d \in Distribution(p) : d \in Int /\ (p.max > 0 => d <= p.max)
        BY <2>1, <3>1, SomeDelayFits
      <4>2. ~TooLong(d)
        BY <2>1, <4>1 DEF TooLong
      <4> QED  BY <4>2
    <3> QED  BY <2>3, <3>1 DEF DrawCanEnd
  <2> QED  BY <2>2, <2>3
<1> QED  BY <1>1, SamplingInvariant, PTL
=============================================================================

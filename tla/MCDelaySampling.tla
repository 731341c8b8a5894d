-------------------------- MODULE MCDelaySampling --------------------------
(* Policies and options for TLC; sizes as in DelaySampling.                 *)
EXTENDS DelaySampling

Policy(mode, param1, param2, max) ==
  [mode |-> mode, param1 |-> param1, param2 |-> param2, max |-> max]

\* Every mode with the defaults; bounds the wrong way round, a negative one,
\* one of zero above a maximum of 50 ms; a default mean above the maximum; no
\* maximum; a mode nobody knows.
SomePolicies ==
  {Policy(m, 0, 0, 0) : m \in 1..7}
  \cup {Policy(UNIFORM, 12, 10, 11), Policy(UNIFORM, 13, 0, 11),
        Policy(UNIFORM, -1, 0, 0), Policy(UNIFORM, 12, 14, -1),
        Policy(NORMAL, 10, 3, 11), Policy(NORMAL, 0, 3, 5),
        Policy(LOGNORMAL, 2, 1, 10), Policy(MARKOV, 0, 0, 1), Policy(200, 0, 0, 0)}

\* The defaults of config.c; AUTO itself; modes that lose their upper bits.
SomeOptions ==
  {Policy(NORMAL, 18, 17, 19), Policy(AUTO, 0, 0, 0),
   Policy(256 + UNIFORM, 3, 5, 4), Policy(-249, 0, 0, 0)}
=============================================================================

---------------------------- MODULE DelayPolicy ----------------------------
(***************************************************************************)
(* How a client tells the second hop of a circuit to delay its cells, and   *)
(* learns that it will: the policy rides behind the onionskin of EXTEND and *)
(* CREATE, the acknowledgement behind the reply of CREATED and EXTENDED.    *)
(* One circuit is built hop by hop; relays, their cpuworkers and the client *)
(* take turns in any order, options change, and circuits close, meanwhile.  *)
(*                                                                         *)
(* Link i joins hop i-1 to hop i; hop 0 is the client.  A policy stands for *)
(* a delay_policy_t; "NONE" is the zeroed one, whose mode is NONE; "unset"  *)
(* says that delay_policy_is_set is 0.  An operator whose name starts with  *)
(* Bad is a faulty variant of the definition after it.                      *)
(***************************************************************************)
EXTENDS Naturals, Sequences

CONSTANTS
  Policies,    \* policies a client may be configured with, besides "NONE"
  PathLengths, \* hops of a circuit when it is launched
  N,           \* bound: hops of a circuit that was extended later
  Legacy,      \* whether a hop added later may lack an ntor key
  MaxChanges   \* bound: changes of options

Hops == 1..N

ASSUME PolicyParameters ==
  /\ N \in Nat \ {0, 1}
  /\ PathLengths \subseteq Hops
  /\ Legacy \in BOOLEAN
  /\ MaxChanges \in Nat
  /\ {"NONE", "unset"} \cap Policies = {}

VARIABLES
  options,   \* the client's EnforceDelayPolicy and Delay* options
  disabled,  \* DisableDelays of each relay
  client,    \* the origin circuit: state, length and hop states of its cpath
  relay,     \* the OR circuit at each hop
  fwd, back, \* cells on each link, away from and towards the client
  changes    \* changes of options so far

vars == <<options, disabled, client, relay, fwd, back, changes>>

Policy == Policies \cup {"NONE"}
MaybePolicy == Policy \cup {"unset"}
Handshakes == {"FAST", "TAP", "NTOR"}

\* A cell of the circuit's construction.  hop is the hop it creates.
Cell == [type : {"CREATE", "CREATED", "EXTEND", "EXTENDED", "DESTROY"},
         hop : 0..N, handshake : Handshakes, policy : MaybePolicy,
         acked : BOOLEAN]

Destroy == [type |-> "DESTROY", hop |-> 0, handshake |-> "NTOR",
            policy |-> "unset", acked |-> FALSE]

\* delay_policy is kept when the circuit is closed; extended says that the
\* circuit has an n_chan.
TypeOK ==
  /\ options \in [enforce : BOOLEAN, policy : Policy]
  /\ disabled \in [Hops -> BOOLEAN]
  /\ client \in [state : {"BUILDING", "OPEN", "CLOSED"}, len : Hops,
                 hop : [Hops -> {"CLOSED", "AWAITING_KEYS", "OPEN"}]]
  /\ relay \in [Hops -> [state : {"none", "ONIONSKIN_PENDING", "OPEN", "closed"},
                         handshake : Handshakes, policy : MaybePolicy,
                         extended : BOOLEAN]]
  /\ fwd \in [Hops -> Seq(Cell)]
  /\ back \in [Hops -> Seq(Cell)]
  /\ changes \in 0..MaxChanges

\* circuit_send_first_onion_skin: the first hop is never offered a policy.
Init ==
  /\ options \in [enforce : BOOLEAN, policy : Policy]
  /\ disabled \in [Hops -> BOOLEAN]
  /\ \E len \in PathLengths, h \in {"FAST", "NTOR"} :
       /\ client = [state |-> "BUILDING", len |-> len,
                    hop |-> [k \in Hops |->
                               IF k = 1 THEN "AWAITING_KEYS" ELSE "CLOSED"]]
       /\ fwd = [i \in Hops |->
                   IF i = 1
                   THEN <<[type |-> "CREATE", hop |-> 1, handshake |-> h,
                           policy |-> "unset", acked |-> FALSE]>>
                   ELSE <<>>]
  /\ relay = [k \in Hops |-> [state |-> "none", handshake |-> "NTOR",
                              policy |-> "unset", extended |-> FALSE]]
  /\ back = [i \in Hops |-> <<>>]
  /\ changes = 0

-----------------------------------------------------------------------------
(* Cells                                                                   *)

\* extend_cell_format: a policy is attached when the client enforces one or
\* has one; only the second hop's is the client's own.
BadOfferToAll(second_hop) ==
  IF options.enforce \/ options.policy # "NONE" THEN options.policy ELSE "unset"

offered_policy(second_hop) ==
  LET p == IF second_hop THEN options.policy ELSE "NONE"
  IN  IF options.enforce \/ p # "NONE" THEN p ELSE "unset"

\* command_process_create_cell: the policy the new circuit gets.
BadIgnoreDisable(k, p) == p

accepted_policy(k, p) == IF disabled[k] THEN "unset" ELSE p

\* cpuworker_onion_handshake_replyfn
delay_policy_acked(k) == relay[k].policy # "unset"

\* extended_cell_parse: an EXTENDED (TAP) has exactly TAP_ONIONSKIN_REPLY_LEN
\* bytes; extended_cell_format adds sixteen for the acknowledgement.
TAP_ONIONSKIN_REPLY_LEN == 148
extended_len(m) == TAP_ONIONSKIN_REPLY_LEN + (IF m.acked THEN 16 ELSE 0)
Unparseable(m) ==
  /\ m.type = "EXTENDED"
  /\ m.handshake = "TAP"
  /\ extended_len(m) # TAP_ONIONSKIN_REPLY_LEN

\* circuit_finish_handshake: an unacknowledged policy of the second hop.
BadNeverEnforce(k, m) == FALSE

policy_missing(k, m) == k = 2 /\ options.enforce /\ ~m.acked

put(links, i, m) == IF i \in Hops THEN [links EXCEPT ![i] = Append(@, m)] ELSE links
pop(links, i) == [links EXCEPT ![i] = Tail(@)]

-----------------------------------------------------------------------------
(* The client                                                              *)

\* The handshake for a hop: ntor, unless a legacy hop was added at the end.
HandshakeFor(k) == IF Legacy /\ k = N THEN {"NTOR", "TAP"} ELSE {"NTOR"}

NonOpen(c) == {k \in 1..c.len : c.hop[k] # "OPEN"}

\* cpath_get_next_non_open_hop
NextHop(c) == CHOOSE k \in NonOpen(c) : \A j \in NonOpen(c) : k <= j

\* Bad: the hop behind the last one of the path is asked for.
BadSendNextOnionSkin(c, links) ==
  IF NonOpen(c) = {}
  THEN client' = [c EXCEPT !.state = "OPEN"] /\ fwd' = links
  ELSE /\ client' = [c EXCEPT !.hop[NextHop(c)] = "AWAITING_KEYS"]
       /\ fwd' = put(links, 1, [type |-> "EXTEND", hop |-> c.len + 1,
                                handshake |-> "NTOR", policy |-> "unset",
                                acked |-> FALSE])

\* circuit_send_next_onion_skin on circuit c, whose last cell left links: ask
\* the last open hop to extend, or find that there are no more hops.
SendNextOnionSkin(c, links) ==
  IF NonOpen(c) = {}
  THEN /\ client' = [c EXCEPT !.state = "OPEN"]
       /\ fwd' = links
  ELSE LET k == NextHop(c) IN
       \E h \in HandshakeFor(k) :
         /\ client' = [c EXCEPT !.hop[k] = "AWAITING_KEYS"]
         /\ fwd' = put(links, 1,
                       [type |-> "EXTEND", hop |-> k, handshake |-> h,
                        policy |-> offered_policy(c.hop[2] = "CLOSED"),
                        acked |-> FALSE])

CloseClient ==
  /\ client' = [client EXCEPT !.state = "CLOSED"]
  /\ fwd' = put(fwd, 1, Destroy)

\* A CREATED of the first hop or an EXTENDED of a later one: finish that
\* hop's handshake, and go on to the next.
ClientReceiveReply ==
  /\ back[1] # <<>>
  /\ Head(back[1]).type # "DESTROY"
  /\ LET m == Head(back[1])
         k == NextHop(client)
     IN  IF client.state # "BUILDING" THEN UNCHANGED <<client, fwd>>
         ELSE IF Unparseable(m) \/ policy_missing(k, m) THEN CloseClient
         ELSE SendNextOnionSkin([client EXCEPT !.hop[k] = "OPEN"], fwd)
  /\ back' = pop(back, 1)
  /\ UNCHANGED <<options, disabled, relay, changes>>

ClientReceiveDestroy ==
  /\ back[1] # <<>>
  /\ Head(back[1]).type = "DESTROY"
  /\ client' = [client EXCEPT !.state = "CLOSED"]
  /\ back' = pop(back, 1)
  /\ UNCHANGED <<options, disabled, relay, fwd, changes>>

\* circuit_extend_to_new_exit, EXTENDCIRCUIT of a controller: one more hop
\* behind an open circuit.
ExtendToNewExit ==
  /\ client.state = "OPEN"
  /\ client.len < N
  /\ SendNextOnionSkin([client EXCEPT !.state = "BUILDING", !.len = @ + 1], fwd)
  /\ UNCHANGED <<options, disabled, relay, back, changes>>

\* Timeouts, a failed handshake, a guard that turned out unusable, the end of
\* the circuit's life.
ClientCloses ==
  /\ client.state # "CLOSED"
  /\ CloseClient
  /\ UNCHANGED <<options, disabled, relay, back, changes>>

-----------------------------------------------------------------------------
(* The relays                                                              *)

Alive(k) == relay[k].state \in {"ONIONSKIN_PENDING", "OPEN"}

\* The circuit at hop k is closed for a reason of its own: both sides hear.
RelayCloses(k) ==
  /\ Alive(k)
  /\ relay' = [relay EXCEPT ![k].state = "closed"]
  /\ back' = put(back, k, Destroy)
  /\ fwd' = IF relay[k].extended THEN put(fwd, k + 1, Destroy) ELSE fwd
  /\ UNCHANGED <<options, disabled, client, changes>>

\* command_process_create_cell on an id that is not in use: a hibernating relay
\* answers DESTROY and makes no circuit; a CREATE_FAST is answered at once, any
\* other goes to a cpuworker.
ReceiveCreate(k) ==
  /\ fwd[k] # <<>>
  /\ Head(fwd[k]).type = "CREATE"
  /\ relay[k].state = "none"
  /\ LET m == Head(fwd[k])
         p == accepted_policy(k, m.policy)
     IN  \/ /\ back' = put(back, k, Destroy)
            /\ UNCHANGED relay
         \/ /\ relay' = [relay EXCEPT
                           ![k] = [state |-> IF m.handshake = "FAST" THEN "OPEN"
                                             ELSE "ONIONSKIN_PENDING",
                                   handshake |-> m.handshake,
                                   policy |-> p, extended |-> FALSE]]
            /\ back' = IF m.handshake = "FAST"
                       THEN put(back, k, [m EXCEPT !.type = "CREATED",
                                                   !.acked = p # "unset"])
                       ELSE back
  /\ fwd' = pop(fwd, k)
  /\ UNCHANGED <<options, disabled, client, changes>>

\* cpuworker_onion_handshake_replyfn, when the handshake succeeded and the
\* circuit is still there.
CpuworkerReply(k) ==
  /\ relay[k].state = "ONIONSKIN_PENDING"
  /\ relay' = [relay EXCEPT ![k].state = "OPEN"]
  /\ back' = put(back, k, [type |-> "CREATED", hop |-> k,
                           handshake |-> relay[k].handshake,
                           policy |-> "unset",
                           acked |-> delay_policy_acked(k)])
  /\ UNCHANGED <<options, disabled, client, fwd, changes>>

\* An EXTEND is passed on until it reaches the last hop, whose circuit_extend
\* turns it into a CREATE with the same policy.
RelayExtend(k) ==
  /\ fwd[k] # <<>>
  /\ Head(fwd[k]).type = "EXTEND"
  /\ LET m == Head(fwd[k]) IN
     IF relay[k].state # "OPEN"
     THEN /\ fwd' = pop(fwd, k)
          /\ UNCHANGED relay
     ELSE /\ fwd' = put(pop(fwd, k), k + 1,
                        IF m.hop = k + 1 THEN [m EXCEPT !.type = "CREATE"] ELSE m)
          /\ relay' = [relay EXCEPT ![k].extended = TRUE]
  /\ UNCHANGED <<options, disabled, client, back, changes>>

\* command_process_created_cell turns the CREATED of the next hop into an
\* EXTENDED with the same acknowledgement; an EXTENDED is passed on.
BadDropAck(m) == [m EXCEPT !.type = "EXTENDED", !.acked = FALSE]

extended_from(m) == [m EXCEPT !.type = "EXTENDED"]

RelayReply(k) ==
  /\ k + 1 \in Hops
  /\ back[k + 1] # <<>>
  /\ LET m == Head(back[k + 1]) IN
     /\ m.type # "DESTROY"
     /\ back' = IF relay[k].state = "OPEN"
                THEN put(pop(back, k + 1), k, extended_from(m))
                ELSE pop(back, k + 1)
  /\ UNCHANGED <<options, disabled, client, relay, fwd, changes>>

\* Bad: the DESTROY is not handed on.
BadDestroyFromBehind(k) ==
  /\ fwd[k] # <<>>
  /\ Head(fwd[k]).type = "DESTROY"
  /\ relay' = IF Alive(k) THEN [relay EXCEPT ![k].state = "closed"] ELSE relay
  /\ fwd' = pop(fwd, k)
  /\ UNCHANGED <<options, disabled, client, back, changes>>

BadDestroyFromAhead(k) ==
  /\ k + 1 \in Hops
  /\ back[k + 1] # <<>>
  /\ Head(back[k + 1]).type = "DESTROY"
  /\ relay' = IF Alive(k) THEN [relay EXCEPT ![k].extended = FALSE] ELSE relay
  /\ back' = pop(back, k + 1)
  /\ UNCHANGED <<options, disabled, client, fwd, changes>>

\* command_process_destroy_cell, from behind and from ahead.
DestroyFromBehind(k) ==
  /\ fwd[k] # <<>>
  /\ Head(fwd[k]).type = "DESTROY"
  /\ IF Alive(k)
     THEN /\ relay' = [relay EXCEPT ![k].state = "closed"]
          /\ fwd' = IF relay[k].extended THEN put(pop(fwd, k), k + 1, Destroy)
                    ELSE pop(fwd, k)
     ELSE /\ fwd' = pop(fwd, k)
          /\ UNCHANGED relay
  /\ UNCHANGED <<options, disabled, client, back, changes>>

DestroyFromAhead(k) ==
  /\ k + 1 \in Hops
  /\ back[k + 1] # <<>>
  /\ Head(back[k + 1]).type = "DESTROY"
  /\ IF Alive(k)
     THEN /\ relay' = [relay EXCEPT ![k].state = "closed"]
          /\ back' = put(pop(back, k + 1), k, Destroy)
     ELSE /\ back' = pop(back, k + 1)
          /\ UNCHANGED relay
  /\ UNCHANGED <<options, disabled, client, fwd, changes>>

-----------------------------------------------------------------------------
(* Options, read anew by every handler                                     *)

SetClientOptions ==
  /\ changes < MaxChanges
  /\ options' \in [enforce : BOOLEAN, policy : Policy]
  /\ changes' = changes + 1
  /\ UNCHANGED <<disabled, client, relay, fwd, back>>

SetDisableDelays(k) ==
  /\ changes < MaxChanges
  /\ disabled' = [disabled EXCEPT ![k] = ~@]
  /\ changes' = changes + 1
  /\ UNCHANGED <<options, client, relay, fwd, back>>

-----------------------------------------------------------------------------
Deliver(k) ==
  \/ ReceiveCreate(k) \/ RelayExtend(k) \/ RelayReply(k)
  \/ DestroyFromBehind(k) \/ DestroyFromAhead(k)

Next ==
  \/ ClientReceiveReply \/ ClientReceiveDestroy
  \/ ExtendToNewExit \/ ClientCloses
  \/ \E k \in Hops : \/ Deliver(k) \/ CpuworkerReply(k) \/ RelayCloses(k)
                     \/ SetDisableDelays(k)
  \/ SetClientOptions

\* Links deliver, cpuworkers answer.
Fairness ==
  /\ WF_vars(ClientReceiveReply) /\ WF_vars(ClientReceiveDestroy)
  /\ \A k \in Hops : WF_vars(Deliver(k)) /\ WF_vars(CpuworkerReply(k))

Spec == Init /\ [][Next]_vars

FairSpec == Spec /\ Fairness

-----------------------------------------------------------------------------
(* Properties                                                              *)

\* A client that enforces its policy never goes past a second hop that does
\* not have one, whatever options change while EXTEND and EXTENDED travel
\* (circuit_finish_handshake believes the acknowledgement).
EnforcedHopDelays ==
  [][client.hop[2] # "OPEN" /\ client'.hop[2] = "OPEN" /\ options.enforce
       => relay[2].policy # "unset"]_vars

\* With the options left alone the second hop has the very policy of the
\* client, and is willing.
EnforcedPolicyIsMine ==
  changes = 0 /\ options.enforce /\ client.hop[2] = "OPEN"
    => relay[2].policy = options.policy /\ ~disabled[2]

\* Only the second hop may delay: the zeroed policy that an enforcing client
\* attaches for the other hops has mode NONE, the first hop has none at all.
OnlySecondHopDelays ==
  /\ relay[1].policy = "unset"
  /\ \A k \in Hops \ {1, 2} : relay[k].policy \in {"NONE", "unset"}

\* Every acknowledgement on its way tells the truth about its hop.
AckIsTrue ==
  \A i \in Hops : \A j \in 1..Len(back[i]) :
    LET m == back[i][j] IN
    m.type # "DESTROY" => m.acked = (relay[m.hop].policy # "unset")

\* A circuit is built or closed: no refusal, option or close leaves the client
\* waiting for a hop.
BuildEnds == client.state = "BUILDING" ~> client.state # "BUILDING"

\* No relay keeps the circuit of a client that closed it, even if a CREATE
\* was on its way or with a cpuworker.
NoOrphans == client.state = "CLOSED" ~> \A k \in Hops : ~Alive(k)

-----------------------------------------------------------------------------
(* What a test says                                                        *)

\* test_cfmt_extended_cells: what extended_cell_format makes of a regular
\* EXTENDED cell has TAP_ONIONSKIN_REPLY_LEN bytes.
RegularExtended == \A i \in Hops : \A j \in 1..Len(back[i]) : ~Unparseable(back[i][j])
=============================================================================

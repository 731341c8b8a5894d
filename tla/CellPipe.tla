------------------------------ MODULE CellPipe ------------------------------
(***************************************************************************)
(* What a circuit promises of one direction, delays or not: a first-in      *)
(* first-out pipe.  Cells are numbered as they are accepted; they leave in   *)
(* that order, each at most once; while the circuit is open none is lost,    *)
(* except that cutting the next hop loses the oldest (those that are no       *)
(* longer delayed), and a failure all of them; once the circuit is closed     *)
(* nothing more is accepted.                                                 *)
(***************************************************************************)
EXTENDS Naturals, Sequences

VARIABLES
  pipe,       \* numbers of the cells accepted and not delivered, in order
  accepted,   \* number of the last cell accepted
  delivered,  \* number of the last cell delivered
  open,       \* the circuit takes cells
  linked      \* there is a hop to deliver to

vars == <<pipe, accepted, delivered, open, linked>>

Init ==
  /\ pipe = <<>>
  /\ accepted = 0
  /\ delivered = 0
  /\ open = TRUE
  /\ linked \in BOOLEAN

\* The first cell for a hop is accepted as the hop is linked.
Accept ==
  /\ open
  /\ accepted' = accepted + 1
  /\ pipe' = Append(pipe, accepted + 1)
  /\ linked' \in {linked, TRUE}
  /\ UNCHANGED <<delivered, open>>

Deliver ==
  /\ linked
  /\ pipe # <<>>
  /\ delivered' = Head(pipe)
  /\ pipe' = Tail(pipe)
  /\ UNCHANGED <<accepted, open, linked>>

\* The hop is cut: some of the oldest cells are lost.
Cut ==
  /\ linked /\ ~linked'
  /\ \E k \in 0..Len(pipe) : pipe' = SubSeq(pipe, k + 1, Len(pipe))
  /\ UNCHANGED <<accepted, delivered, open>>

\* The channel fails, or memory is reclaimed: everything in the pipe is lost.
Discard ==
  /\ pipe' = <<>>
  /\ linked' \in {linked, FALSE}
  /\ UNCHANGED <<accepted, delivered, open>>

\* Closing may lose the end of the pipe (the cells still delayed) or all of
\* it, with the cell that was being accepted; the rest may still be delivered.
Close ==
  /\ open
  /\ open' = FALSE
  /\ \/ /\ \E k \in 0..Len(pipe) : pipe' = SubSeq(pipe, 1, k)
        /\ accepted' = accepted
     \/ /\ pipe' = <<>>
        /\ accepted' = accepted + 1
  /\ linked' \in BOOLEAN
  /\ UNCHANGED delivered

Next == Accept \/ Deliver \/ Cut \/ Discard \/ Close

Spec == Init /\ [][Next]_vars
=============================================================================

-------------------------- MODULE OnionQueueProofs --------------------------
(***************************************************************************)
(* The handshakes of a relay for any number of circuits and threads and     *)
(* any limits: jobs and the memory they name, the queues of onionskins,     *)
(* the counters, and the two wake-ups.                                      *)
(***************************************************************************)
EXTENDS OnionQueue, FiniteSetTheorems, TLAPS

In(x, s) == \E a \in 1..Len(s) : s[a] = x

Distinct(s) == \A a, b \in 1..Len(s) : s[a] = s[b] => a = b

-----------------------------------------------------------------------------
(* Sequences without repetition                                             *)

LEMMA AppendFacts ==
  ASSUME NEW S, NEW s \in Seq(S), Distinct(s), NEW x \in S, ~In(x, s)
  PROVE  /\ Append(s, x) \in Seq(S)
         /\ Len(Append(s, x)) = Len(s) + 1
         /\ Distinct(Append(s, x))
         /\ \A y : In(y, Append(s, x)) <=> In(y, s) \/ y = x
<1> DEFINE n == Len(s)
           r == Append(s, x)
<1>1. n \in Nat /\ r \in Seq(S) /\ Len(r) = n + 1 /\ r[n + 1] = x
      /\ \A a \in 1..n : r[a] = s[a] /\ s[a] # x
  BY DEF In
<1> HIDE DEF r
<1>2. Distinct(r)
  <2> SUFFICES ASSUME NEW a \in 1..(n + 1), NEW b \in 1..(n + 1), r[a] = r[b]
               PROVE  a = b
    BY <1>1 DEF Distinct
  <2>1. CASE a \in 1..n /\ b \in 1..n
    BY <1>1, <2>1 DEF Distinct
  <2>2. CASE a = n + 1 \/ b = n + 1
    BY <1>1, <2>2
  <2> QED BY <1>1, <2>1, <2>2
<1>3. ASSUME NEW y PROVE In(y, r) <=> In(y, s) \/ y = x
  <2>1. ASSUME In(y, r) PROVE In(y, s) \/ y = x
    <3>1. PICK a \in 1..(n + 1) : r[a] = y
      BY <1>1, <2>1 DEF In
    <3> QED BY <1>1, <3>1 DEF In
  <2>2. ASSUME In(y, s) PROVE In(y, r)
    <3>1. PICK a \in 1..n : s[a] = y
      BY <2>2 DEF In
    <3>2. a \in 1..(n + 1)
      BY <1>1
    <3> QED BY <1>1, <3>1, <3>2 DEF In
  <2>3. In(x, r)
    BY <1>1 DEF In
  <2> QED BY <2>1, <2>2, <2>3
<1> QED BY <1>1, <1>2, <1>3 DEF r

LEMMA ConcatFacts ==
  ASSUME NEW S, NEW u \in Seq(S), NEW v \in Seq(S)
  PROVE  /\ u \o v \in Seq(S)
         /\ Len(u \o v) = Len(u) + Len(v)
         /\ \A a \in 1..(Len(u) + Len(v)) :
              (u \o v)[a] = IF a <= Len(u) THEN u[a] ELSE v[a - Len(u)]
OBVIOUS

LEMMA RemoveFacts ==
  ASSUME NEW S, NEW s \in Seq(S), Distinct(s), NEW i \in 1..Len(s)
  PROVE  /\ RemoveAt(s, i) \in Seq(S)
         /\ Len(RemoveAt(s, i)) = Len(s) - 1
         /\ Distinct(RemoveAt(s, i))
         /\ \A y : In(y, RemoveAt(s, i)) <=> In(y, s) /\ y # s[i]
<1> DEFINE n == Len(s)
           r == RemoveAt(s, i)
           left == SubSeq(s, 1, i - 1)
           right == SubSeq(s, i + 1, n)
<1>1. /\ n \in Nat /\ i \in Nat
      /\ left \in Seq(S) /\ Len(left) = i - 1
      /\ right \in Seq(S) /\ Len(right) = n - i
      /\ \A a \in 1..(i - 1) : left[a] = s[a]
      /\ \A a \in 1..(n - i) : right[a] = s[i + a]
  OBVIOUS
<1>2. /\ r \in Seq(S) /\ Len(r) = n - 1
      /\ \A a \in 1..(i - 1) : r[a] = s[a]
      /\ \A a \in i..(n - 1) : r[a] = s[a + 1]
  <2> HIDE DEF left, right
  <2>1. r = left \o right
    BY DEF RemoveAt, left, right
  <2>2. \A a \in i..(n - 1) : a - (i - 1) \in 1..(n - i) /\ i + (a - (i - 1)) = a + 1
    BY <1>1
  <2> HIDE DEF r, n
  <2>3. r \in Seq(S) /\ Len(r) = (i - 1) + (n - i)
        /\ \A a \in 1..((i - 1) + (n - i)) :
             r[a] = IF a <= i - 1 THEN left[a] ELSE right[a - (i - 1)]
    <3>1. /\ left \o right \in Seq(S)
          /\ Len(left \o right) = Len(left) + Len(right)
          /\ \A a \in 1..(Len(left) + Len(right)) :
              (left \o right)[a] = IF a <= Len(left) THEN left[a] ELSE right[a - Len(left)]
      <4>1. left \in Seq(S) /\ right \in Seq(S)
        BY <1>1
      <4> QED BY ONLY <4>1, ConcatFacts
    <3>2. Len(left) = i - 1 /\ Len(right) = n - i
      BY <1>1
    <3> QED BY ONLY <3>1, <3>2, <2>1
  <2>4. (i - 1) + (n - i) = n - 1 /\ i - 1 <= n - 1
    BY <1>1 DEF n
  <2>5. \A a \in 1..(i - 1) : a \in 1..(n - 1)
    BY <1>1, <2>4
  <2>6. \A a \in i..(n - 1) : a \in 1..(n - 1) /\ ~(a <= i - 1)
    BY <1>1 DEF n
  <2> QED BY <1>1, <2>2, <2>3, <2>4, <2>5, <2>6
<1> HIDE DEF r, left, right
<1> DEFINE at(a) == IF a < i THEN a ELSE a + 1
<1>3. \A a \in 1..(n - 1) : at(a) \in 1..n /\ at(a) # i /\ r[a] = s[at(a)]
  BY <1>1, <1>2
<1>4. \A a, b \in 1..(n - 1) : at(a) = at(b) => a = b
  BY <1>1
<1>5. Distinct(r)
  BY <1>2, <1>3, <1>4 DEF Distinct
<1>6. ASSUME NEW y PROVE In(y, r) <=> In(y, s) /\ y # s[i]
  <2>1. ASSUME In(y, r) PROVE In(y, s) /\ y # s[i]
    <3>1. PICK a \in 1..(n - 1) : r[a] = y
      BY <1>2, <2>1 DEF In
    <3> QED BY <1>3, <3>1 DEF In, Distinct
  <2>2. ASSUME In(y, s), y # s[i] PROVE In(y, r)
    <3>1. PICK a \in 1..n : s[a] = y
      BY <2>2 DEF In
    <3>2. CASE a < i
      <4>1. a \in 1..(i - 1) /\ a \in 1..(n - 1)
        BY <1>1, <3>2
      <4> QED BY <1>2, <3>1, <4>1 DEF In
    <3>3. CASE a > i
      <4>1. a - 1 \in i..(n - 1) /\ a - 1 \in 1..(n - 1) /\ (a - 1) + 1 = a
        BY <1>1, <3>3
      <4> QED BY <1>2, <3>1, <4>1 DEF In
    <3> QED BY <1>1, <2>2, <3>1, <3>2, <3>3
  <2> QED BY <2>1, <2>2
<1> QED BY <1>2, <1>5, <1>6 DEF r

LEMMA TailFacts ==
  ASSUME NEW S, NEW s \in Seq(S), Distinct(s), s # <<>>
  PROVE  /\ Tail(s) \in Seq(S) /\ Head(s) \in S /\ In(Head(s), s)
         /\ Len(Tail(s)) = Len(s) - 1
         /\ Distinct(Tail(s))
         /\ \A y : In(y, Tail(s)) <=> In(y, s) /\ y # Head(s)
<1>1. /\ 1 \in 1..Len(s) /\ s[1] = Head(s) /\ Head(s) \in S
      /\ Tail(s) \in Seq(S) /\ Len(Tail(s)) = Len(s) - 1
      /\ \A a \in 1..(Len(s) - 1) : Tail(s)[a] = s[a + 1]
  OBVIOUS
<1>2. In(Head(s), s)
  BY <1>1 DEF In
<1>3. Distinct(Tail(s))
  <2> SUFFICES ASSUME NEW a \in 1..(Len(s) - 1), NEW b \in 1..(Len(s) - 1),
                      Tail(s)[a] = Tail(s)[b]
               PROVE  a = b
    BY <1>1 DEF Distinct
  <2>1. a + 1 \in 1..Len(s) /\ b + 1 \in 1..Len(s) /\ s[a + 1] = s[b + 1]
    BY <1>1
  <2>2. a + 1 = b + 1
    BY <2>1 DEF Distinct
  <2> QED BY <2>2
<1>4. ASSUME NEW y PROVE In(y, Tail(s)) <=> In(y, s) /\ y # Head(s)
  <2>1. ASSUME In(y, Tail(s)) PROVE In(y, s) /\ y # Head(s)
    <3>1. PICK a \in 1..(Len(s) - 1) : Tail(s)[a] = y
      BY <1>1, <2>1 DEF In
    <3>2. a + 1 \in 1..Len(s) /\ s[a + 1] = y /\ a + 1 # 1
      BY <1>1, <3>1
    <3> QED BY <1>1, <3>2 DEF In, Distinct
  <2>2. ASSUME In(y, s), y # Head(s) PROVE In(y, Tail(s))
    <3>1. PICK a \in 1..Len(s) : s[a] = y
      BY <2>2 DEF In
    <3>2. a # 1
      BY <1>1, <2>2, <3>1
    <3>3. a - 1 \in 1..(Len(s) - 1) /\ (a - 1) + 1 = a
      BY <3>2
    <3> QED BY <1>1, <3>1, <3>3 DEF In
  <2> QED BY <2>1, <2>2
<1> QED BY <1>1, <1>2, <1>3, <1>4

LEMMA DropFacts ==
  ASSUME NEW S, NEW s \in Seq(S), Distinct(s), NEW k \in 0..Len(s)
  PROVE  LET r == SubSeq(s, k + 1, Len(s))
         IN  /\ r \in Seq(S) /\ Len(r) = Len(s) - k /\ Distinct(r)
             /\ \A y : In(y, r) <=> In(y, s) /\ ~ \E i \in 1..k : s[i] = y
<1> DEFINE n == Len(s)
           r == SubSeq(s, k + 1, n)
<1>1. /\ n \in Nat /\ r \in Seq(S) /\ Len(r) = n - k
      /\ \A a \in 1..(n - k) : r[a] = s[k + a] /\ k + a \in 1..n
  OBVIOUS
<1> HIDE DEF r
<1>2. Distinct(r)
  <2> SUFFICES ASSUME NEW a \in 1..(n - k), NEW b \in 1..(n - k), r[a] = r[b]
               PROVE  a = b
    BY <1>1 DEF Distinct
  <2>1. k + a = k + b
    BY <1>1 DEF Distinct
  <2> QED BY <2>1
<1>3. ASSUME NEW y PROVE In(y, r) <=> In(y, s) /\ ~ \E i \in 1..k : s[i] = y
  <2>1. ASSUME In(y, r) PROVE In(y, s) /\ ~ \E i \in 1..k : s[i] = y
    <3>1. PICK a \in 1..(n - k) : r[a] = y
      BY <1>1, <2>1 DEF In
    <3>2. k + a \in 1..n /\ s[k + a] = y /\ \A i \in 1..k : i \in 1..n /\ i # k + a
      BY <1>1, <3>1
    <3> QED BY <3>2 DEF In, Distinct
  <2>2. ASSUME In(y, s), ~ \E i \in 1..k : s[i] = y PROVE In(y, r)
    <3>1. PICK a \in 1..n : s[a] = y
      BY <2>2 DEF In
    <3>2. a - k \in 1..(n - k) /\ k + (a - k) = a
      BY <1>1, <2>2, <3>1
    <3> QED BY <1>1, <3>1, <3>2 DEF In
  <2> QED BY <2>1, <2>2
<1> QED BY <1>1, <1>2, <1>3 DEF r

\* How often an element is in a sequence without repetition.
LEMMA OccursOnce ==
  ASSUME NEW S, NEW s \in Seq(S), Distinct(s), NEW x
  PROVE  Cardinality({i \in 1..Len(s) : s[i] = x}) = IF In(x, s) THEN 1 ELSE 0
<1>1. CASE In(x, s)
  <2>1. PICK i \in 1..Len(s) : s[i] = x
    BY <1>1 DEF In
  <2>2. {j \in 1..Len(s) : s[j] = x} = {i}
    BY <2>1 DEF Distinct
  <2> QED BY <1>1, <2>2, FS_Singleton
<1>2. CASE ~In(x, s)
  <2>1. {j \in 1..Len(s) : s[j] = x} = {}
    BY <1>2 DEF In
  <2> QED BY <1>2, <2>1, FS_EmptySet
<1> QED BY <1>1, <1>2

-----------------------------------------------------------------------------
(* The invariant                                                            *)

RunningThreads == {t \in Threads : thread[t].at = "running"}

RunsFor(c) == \E t \in RunningThreads : thread[t].circ = c

HasJob(c) == In(c, work) \/ RunsFor(c) \/ In(c, answers)

\* The states of the pool's parts; total_pending_tasks is in Counts.
PoolTypes ==
  /\ work \in Seq(Circuits)
  /\ thread \in [Threads -> Thread]
  /\ \A t \in RunningThreads : thread[t].circ \in Circuits
  /\ answers \in Seq(Circuits)

\* A job is in one place.
OnePlace ==
  /\ Distinct(work) /\ Distinct(answers)
  /\ \A t, u \in RunningThreads : thread[t].circ = thread[u].circ => t = u
  /\ \A c \in Circuits : /\ ~(In(c, work) /\ RunsFor(c))
                          /\ ~(In(c, work) /\ In(c, answers))
                          /\ ~(RunsFor(c) /\ In(c, answers))

\* Circuits know their jobs; a dead one has one, memory that is free has none.
JobsKnown ==
  \A c \in Circuits :
    HasJob(c) <=> \/ circ[c].mem = "live" /\ circ[c].job
                  \/ circ[c].mem = "dead"

Queued(c) == \E q \in Types : In(c, ol_list[q])

QueueTypes ==
  /\ circ \in [Circuits -> Circuit]
  /\ ol_list \in [Types -> Seq(Circuits)]
  /\ ol_entries \in [Types -> Nat]

\* A circuit is queued or with the pool until it is answered.
NotForgotten(r) ==
  /\ r.entry => (r.mem = "live" /\ ~r.job)
  /\ (r.mem = "live" /\ ~r.marked /\ r.state = "ONIONSKIN_PENDING") => (r.entry \/ r.job)

\* An onionskin is queued once, and the circuit knows its entry.
QueuesKnown ==
  /\ \A q \in Types : Distinct(ol_list[q])
  /\ \A c \in Circuits : ~(In(c, ol_list["TAP"]) /\ In(c, ol_list["NTOR"]))
  /\ \A c \in Circuits : circ[c].entry <=> Queued(c)
  /\ \A c \in Circuits : NotForgotten(circ[c])

EntriesCounted == \A q \in Types : ol_entries[q] = Len(ol_list[q])

TasksCounted ==
  /\ total_pending_tasks \in 0..MaxPending
  /\ total_pending_tasks = Len(work) + Cardinality(RunningThreads) + Len(answers)

MainTypes ==
  /\ alert \in BOOLEAN
  /\ main \in {"loop", "replies", "queueing", "closing"}
  /\ recently_chosen_ntors \in 0..(NtorsPerTap + 1)
  /\ ntors_ahead \in Nat

\* Ntors that went ahead of a TAP were counted.
NtorsCounted == ntors_ahead <= recently_chosen_ntors /\ ntors_ahead <= NtorsPerTap

IInv ==
  /\ PoolTypes /\ OnePlace /\ JobsKnown
  /\ QueueTypes /\ QueuesKnown /\ EntriesCounted /\ TasksCounted
  /\ MainTypes /\ NtorsCounted /\ AnswersAreHeard /\ WorkIsSeen

LEMMA InitIInv ==
  ASSUME Init
  PROVE  IInv
<1> USE OnionParameters
<1>1. RunningThreads = {}
  BY DEF Init, RunningThreads
<1>2. work = <<>> /\ answers = <<>> /\ \A q \in Types : ol_list[q] = <<>>
  BY DEF Init
<1>3. \A c : ~In(c, <<>>)
  BY DEF In
<1>4. PoolTypes
  BY <1>1 DEF Init, PoolTypes, Thread
<1>5. OnePlace /\ \A c : ~HasJob(c)
  BY <1>1, <1>2, <1>3 DEF OnePlace, HasJob, RunsFor, Distinct
<1>6. JobsKnown
  BY <1>5 DEF Init, JobsKnown, Free, NewCircuit
<1>7. QueueTypes
  <2>1. NewCircuit \in Circuit
    BY DEF Circuit, NewCircuit
  <2>2. Free \in Circuit /\ <<>> \in Seq(Circuits)
    BY <2>1 DEF Circuit, Free
  <2> QED BY <2>2 DEF Init, QueueTypes
<1>8. QueuesKnown
  <2>1. \A c \in Circuits : ~circ[c].entry /\ circ[c].mem = "free"
    BY DEF Init, Free, NewCircuit
  <2>2. \A c : ~Queued(c)
    BY <1>2, <1>3 DEF Queued
  <2>3. \A c \in Circuits : NotForgotten(circ[c])
    BY <2>1 DEF NotForgotten
  <2> QED BY <1>2, <1>3, <2>1, <2>2, <2>3 DEF QueuesKnown, Distinct, Types
<1>9. EntriesCounted
  BY <1>2 DEF Init, EntriesCounted
<1>10. TasksCounted
  BY <1>1, <1>2, FS_EmptySet DEF Init, TasksCounted
<1>11. MainTypes /\ NtorsCounted /\ AnswersAreHeard /\ WorkIsSeen
  <2>1. alert = FALSE /\ main = "loop" /\ recently_chosen_ntors = 0 /\ ntors_ahead = 0
    BY DEF Init
  <2>2. MainTypes /\ NtorsCounted
    <3>1. alert \in BOOLEAN
      BY <2>1, Zenon
    <3>2. NtorsPerTap \in Nat
      OBVIOUS
    <3> QED BY <2>1, <3>1, <3>2 DEF MainTypes, NtorsCounted
  <2> QED BY <1>2, <2>2 DEF AnswersAreHeard, WorkIsSeen
<1> QED BY <1>4, <1>5, <1>6, <1>7, <1>8, <1>9, <1>10, <1>11 DEF IInv

-----------------------------------------------------------------------------
(* Jobs                                                                     *)

LEMMA RunningIsFinite ==
  IsFiniteSet(RunningThreads) /\ Cardinality(RunningThreads) \in Nat
<1>1. IsFiniteSet(RunningThreads)
  BY OnionParameters, FS_Subset DEF RunningThreads
<1> QED BY <1>1, FS_CardinalityType

\* Waking a thread makes none run and leaves one awake.
LEMMA SignalWakes ==
  ASSUME PoolTypes, SignalOne
  PROVE  /\ thread' \in [Threads -> Thread]
         /\ RunningThreads' = RunningThreads
         /\ \A t \in RunningThreads : thread'[t] = thread[t]
         /\ \E t \in Threads : thread'[t].at # "waiting"
         /\ \A t \in Threads : thread[t].at = "alerting" => thread'[t].at = "alerting"
<1>1. CASE Waiting = {}
  BY <1>1, OnionParameters DEF SignalOne, Waiting, PoolTypes, RunningThreads
<1>2. CASE Waiting # {}
  <2>1. PICK t \in Waiting : thread' = [thread EXCEPT ![t].at = "awake"]
    BY <1>2 DEF SignalOne
  <2>2. t \in Threads /\ thread[t].at = "waiting"
    BY DEF Waiting
  <2> QED BY <2>1, <2>2 DEF PoolTypes, RunningThreads, Thread
<1> QED BY <1>1, <1>2

LEMMA QueueWorkStep ==
  ASSUME IInv, NEW c \in Circuits, ~HasJob(c), total_pending_tasks < MaxPending,
         NEW C, QueueWork(c, C), answers' = answers
  PROVE  /\ PoolTypes' /\ OnePlace' /\ TasksCounted' /\ WorkIsSeen'
         /\ \A x : HasJob(x)' <=> (HasJob(x) \/ x = c)
         /\ \A t \in Threads : thread[t].at = "alerting" => thread'[t].at = "alerting"
<1>1. /\ work' = Append(work, c) /\ SignalOne
      /\ total_pending_tasks' = total_pending_tasks + 1
  BY DEF QueueWork
<1>2. /\ work' \in Seq(Circuits) /\ Len(work') = Len(work) + 1 /\ Distinct(work')
      /\ \A y : In(y, work') <=> (In(y, work) \/ y = c)
  BY <1>1, AppendFacts DEF IInv, PoolTypes, OnePlace, HasJob
<1>3. /\ thread' \in [Threads -> Thread]
      /\ RunningThreads' = RunningThreads
      /\ \A t \in RunningThreads : thread'[t] = thread[t]
      /\ \E t \in Threads : thread'[t].at # "waiting"
      /\ \A t \in Threads : thread[t].at = "alerting" => thread'[t].at = "alerting"
  BY <1>1, SignalWakes DEF IInv
<1>4. \A x : RunsFor(x)' <=> RunsFor(x)
  BY <1>3 DEF RunsFor
<1>5. PoolTypes'
  BY <1>2, <1>3 DEF IInv, PoolTypes
<1>6. \A x : HasJob(x)' <=> (HasJob(x) \/ x = c)
  BY <1>2, <1>4 DEF HasJob
<1>7. OnePlace'
  BY <1>2, <1>3, <1>4 DEF IInv, OnePlace, HasJob
<1>8. TasksCounted'
  <2>1. Len(work) \in Nat /\ Len(answers) \in Nat /\ MaxPending \in Nat
    BY OnionParameters DEF IInv, PoolTypes
  <2>2. Cardinality(RunningThreads) \in Nat
    BY RunningIsFinite
  <2> QED BY <1>1, <1>2, <1>3, <2>1, <2>2 DEF IInv, TasksCounted
<1>9. WorkIsSeen'
  BY <1>3 DEF WorkIsSeen
<1> QED BY <1>3, <1>5, <1>6, <1>7, <1>8, <1>9

LEMMA PoolStays ==
  ASSUME IInv, UNCHANGED <<work, thread, answers>>
  PROVE  /\ PoolTypes' /\ OnePlace' /\ WorkIsSeen'
         /\ \A x : HasJob(x)' <=> HasJob(x)
         /\ total_pending_tasks' = total_pending_tasks => TasksCounted'
<1>1. RunningThreads' = RunningThreads
  BY DEF RunningThreads
<1>2. \A x : RunsFor(x)' <=> RunsFor(x)
  BY <1>1 DEF RunsFor
<1>3. PoolTypes' /\ WorkIsSeen'
  BY <1>1 DEF IInv, PoolTypes, WorkIsSeen
<1>4. OnePlace' /\ \A x : HasJob(x)' <=> HasJob(x)
  BY <1>1, <1>2 DEF IInv, OnePlace, HasJob
<1> QED BY <1>1, <1>3, <1>4 DEF IInv, TasksCounted

LEMMA StillHeard ==
  ASSUME IInv, UNCHANGED <<answers, alert>>,
         \A t \in Threads : thread[t].at = "alerting" => thread'[t].at = "alerting",
         main \in {"loop", "closing"}
  PROVE  AnswersAreHeard'
BY DEF IInv, AnswersAreHeard

-----------------------------------------------------------------------------
(* A CREATE cell                                                            *)

LEMMA CreateCellKeeps ==
  ASSUME IInv, NEW c \in Circuits, NEW type \in Types, CreateCell(c, type)
  PROVE  IInv'
<1>1. /\ main = "loop" /\ main' = main /\ answers' = answers /\ alert' = alert
      /\ recently_chosen_ntors' = recently_chosen_ntors /\ ntors_ahead' = ntors_ahead
      /\ circ[c].mem = "free"
  BY DEF CreateCell, replies
<1>2. ~HasJob(c) /\ circ[c].entry = FALSE /\ \A q \in Types : ~In(c, ol_list[q])
  <2>1. circ[c] \in Circuit /\ NotForgotten(circ[c])
    BY DEF IInv, QueueTypes, QueuesKnown
  <2>2. circ[c].entry = FALSE
    BY <1>1, <2>1 DEF NotForgotten, Circuit
  <2> QED BY <1>1, <2>2 DEF IInv, JobsKnown, QueuesKnown, Queued
<1>3. MainTypes' /\ NtorsCounted'
  BY <1>1 DEF IInv, MainTypes, NtorsCounted
<1>4. NewCircuit \in Circuit
  BY DEF NewCircuit, Circuit
<1>5. CASE total_pending_tasks < MaxPending
  <2> DEFINE C == [circ EXCEPT ![c] = NewCircuit]
  <2>1. /\ QueueWork(c, C) /\ circ' = [C EXCEPT ![c].job = TRUE]
        /\ ol_list' = ol_list /\ ol_entries' = ol_entries
    BY <1>5 DEF CreateCell, QueueWork
  <2>2. /\ circ' \in [Circuits -> Circuit]
        /\ circ'[c] = [NewCircuit EXCEPT !.job = TRUE]
        /\ \A x \in Circuits \ {c} : circ'[x] = circ[x]
    BY <1>4, <2>1 DEF IInv, QueueTypes, Circuit, NewCircuit
  <2> HIDE DEF C
  <2>3. /\ PoolTypes' /\ OnePlace' /\ TasksCounted' /\ WorkIsSeen'
        /\ \A x : HasJob(x)' <=> (HasJob(x) \/ x = c)
        /\ \A t \in Threads : thread[t].at = "alerting" => thread'[t].at = "alerting"
    BY <1>1, <1>2, <1>5, <2>1, QueueWorkStep
  <2>4. JobsKnown'
    BY <1>1, <2>2, <2>3 DEF IInv, JobsKnown, NewCircuit
  <2>5. QueueTypes' /\ EntriesCounted'
    BY <2>1, <2>2 DEF IInv, QueueTypes, EntriesCounted
  <2>6. QueuesKnown'
    <3>1. \A x : Queued(x)' <=> Queued(x)
      BY <2>1 DEF Queued
    <3>2. /\ circ'[c].entry = FALSE /\ circ'[c].mem = "live" /\ circ'[c].job = TRUE
      BY <2>2 DEF NewCircuit
    <3>3. ~Queued(c)
      BY <1>2 DEF Queued
    <3>4. \A q \in Types : Distinct(ol_list'[q])
      BY <2>1 DEF IInv, QueuesKnown
    <3>5. \A x \in Circuits : ~(In(x, ol_list'["TAP"]) /\ In(x, ol_list'["NTOR"]))
      BY <2>1 DEF IInv, QueuesKnown
    <3>6. \A x \in Circuits : circ'[x].entry <=> Queued(x)'
      BY <2>2, <3>1, <3>2, <3>3 DEF IInv, QueuesKnown
    <3>7. \A x \in Circuits : NotForgotten(circ'[x])
      <4>1. NotForgotten(circ'[c])
        BY <3>2 DEF NotForgotten
      <4> QED BY <2>2, <4>1 DEF IInv, QueuesKnown
    <3> QED BY <3>4, <3>5, <3>6, <3>7 DEF QueuesKnown
  <2>7. AnswersAreHeard'
    BY <1>1, <2>3, StillHeard
  <2> QED BY <1>3, <2>3, <2>4, <2>5, <2>6, <2>7 DEF IInv
<1>6. CASE ~(total_pending_tasks < MaxPending)
  <2>1. UNCHANGED <<total_pending_tasks, work, thread>>
    BY <1>6 DEF CreateCell, pool
  <2>2. /\ PoolTypes' /\ OnePlace' /\ WorkIsSeen' /\ TasksCounted'
        /\ \A x : HasJob(x)' <=> HasJob(x)
    BY <1>1, <2>1, PoolStays
  <2>3. AnswersAreHeard'
    BY <1>1, <2>1, StillHeard
  <2>4. CASE /\ circ' = [circ EXCEPT ![c] = [NewCircuit EXCEPT !.marked = TRUE]]
             /\ UNCHANGED <<ol_list, ol_entries>>
    <3>1. /\ circ' \in [Circuits -> Circuit]
          /\ circ'[c] = [NewCircuit EXCEPT !.marked = TRUE]
          /\ \A x \in Circuits \ {c} : circ'[x] = circ[x]
      BY <2>4 DEF IInv, QueueTypes, Circuit, NewCircuit
    <3>2. /\ circ'[c].mem = "live" /\ circ'[c].job = FALSE /\ circ'[c].entry = FALSE
          /\ circ'[c].marked = TRUE
      BY <3>1 DEF NewCircuit
    <3>3. JobsKnown'
      BY <1>2, <2>2, <3>1, <3>2 DEF IInv, JobsKnown
    <3>4. QueueTypes' /\ EntriesCounted'
      BY <2>4, <3>1 DEF IInv, QueueTypes, EntriesCounted
    <3>5. QueuesKnown'
      <4>1. (\A x : Queued(x)' <=> Queued(x)) /\ ~Queued(c)
        BY <1>2, <2>4 DEF Queued
      <4>2. NotForgotten(circ'[c])
        BY <3>2 DEF NotForgotten
      <4> QED BY <2>4, <3>1, <3>2, <4>1, <4>2 DEF IInv, QueuesKnown
    <3> QED BY <1>3, <2>2, <2>3, <3>3, <3>4, <3>5 DEF IInv
  <2>5. CASE \E k \in 0..Len(ol_list[type]) : onion_pending_add(type, c, k)
    <3>1. PICK k \in 0..Len(ol_list[type]) : onion_pending_add(type, c, k)
      BY <2>5
    <3> DEFINE old == ol_list[type]
               rest == SubSeq(old, k + 1, Len(old))
               Culled(x) == \E i \in 1..k : old[i] = x
    <3>2. /\ old \in Seq(Circuits) /\ Distinct(old)
      BY DEF IInv, QueueTypes, QueuesKnown
    <3>3. /\ rest \in Seq(Circuits) /\ Len(rest) = Len(old) - k /\ Distinct(rest)
          /\ \A y : In(y, rest) <=> In(y, old) /\ ~Culled(y)
      <4> HIDE DEF old
      <4> QED BY <3>2, DropFacts DEF old
    <3>4. /\ ol_list' = [ol_list EXCEPT ![type] = Append(rest, c)]
          /\ ol_entries' = [ol_entries EXCEPT ![type] = @ + 1 - k]
          /\ circ' = [x \in Circuits |->
                IF x = c THEN [NewCircuit EXCEPT !.entry = TRUE]
                ELSE IF Culled(x)
                THEN [circ[x] EXCEPT !.entry = FALSE, !.marked = TRUE]
                ELSE circ[x]]
      BY <3>1 DEF onion_pending_add
    <3>5. \A x \in Circuits : Culled(x) => In(x, old)
      BY <3>2 DEF In
    <3> HIDE DEF rest, Culled
    <3>6. /\ Append(rest, c) \in Seq(Circuits) /\ Len(Append(rest, c)) = Len(rest) + 1
          /\ Distinct(Append(rest, c))
          /\ \A y : In(y, Append(rest, c)) <=> In(y, rest) \/ y = c
      <4>1. ~In(c, rest)
        BY <1>2, <3>3
      <4> QED BY <3>3, <4>1, AppendFacts
    <3>7. /\ ol_list'[type] = Append(rest, c)
          /\ \A q \in Types \ {type} : ol_list'[q] = ol_list[q] /\ ol_entries'[q] = ol_entries[q]
          /\ ol_entries'[type] = ol_entries[type] + 1 - k
      BY <3>4 DEF IInv, QueueTypes
    <3>8. QueueTypes' /\ EntriesCounted'
      <4>1. circ' \in [Circuits -> Circuit]
        BY <3>4 DEF IInv, QueueTypes, Circuit, NewCircuit
      <4>2. ol_list' \in [Types -> Seq(Circuits)]
        BY <3>4, <3>6 DEF IInv, QueueTypes
      <4>3. EntriesCounted'
        <5>1. ol_entries[type] = Len(old) /\ Len(old) \in Nat /\ k \in Nat
          BY <3>2 DEF IInv, EntriesCounted
        <5>2. ol_entries'[type] = Len(ol_list'[type])
          BY <3>3, <3>6, <3>7, <5>1
        <5>3. \A q \in Types \ {type} : ol_entries'[q] = Len(ol_list'[q])
          BY <3>7 DEF IInv, EntriesCounted
        <5> QED BY <5>2, <5>3 DEF EntriesCounted
      <4>4. ol_entries' \in [Types -> Nat]
        <5>1. ol_entries'[type] \in Nat
          BY <3>2, <3>3, <3>7 DEF IInv, QueueTypes, EntriesCounted
        <5> QED BY <3>4, <5>1 DEF IInv, QueueTypes
      <4> QED BY <4>1, <4>2, <4>3, <4>4 DEF QueueTypes
    <3>9. /\ circ'[c].entry = TRUE /\ circ'[c].mem = "live" /\ circ'[c].job = FALSE
          /\ \A x \in Circuits \ {c} :
               /\ circ'[x].mem = circ[x].mem /\ circ'[x].job = circ[x].job
               /\ circ'[x].state = circ[x].state
               /\ circ'[x].entry = (circ[x].entry /\ ~Culled(x))
               /\ circ'[x].marked = (circ[x].marked \/ Culled(x))
      BY <3>4 DEF IInv, QueueTypes, Circuit, NewCircuit
    <3>10. JobsKnown'
      BY <1>2, <2>2, <3>9 DEF IInv, JobsKnown
    <3>11. QueuesKnown'
      <4>1. \A q \in Types : Distinct(ol_list'[q])
        BY <3>6, <3>7 DEF IInv, QueuesKnown
      <4>2. \A x \in Circuits, q \in Types \ {type} : Culled(x) => ~In(x, ol_list[q])
        BY <3>5 DEF IInv, QueuesKnown, Types
      <4>3. \A x \in Circuits, q \in Types :
              In(x, ol_list'[q]) <=> \/ x = c /\ q = type
                                     \/ In(x, ol_list[q]) /\ ~Culled(x)
        BY <3>3, <3>6, <3>7, <4>2
      <4>4. \A x \in Circuits : ~(In(x, ol_list'["TAP"]) /\ In(x, ol_list'["NTOR"]))
        BY <1>2, <4>3 DEF IInv, QueuesKnown, Types
      <4>5. \A x \in Circuits : Queued(x)' <=> (x = c \/ (Queued(x) /\ ~Culled(x)))
        BY <4>3 DEF Queued
      <4>6. \A x \in Circuits : circ'[x].entry <=> Queued(x)'
        BY <3>9, <4>5 DEF IInv, QueuesKnown
      <4>7. \A x \in Circuits : NotForgotten(circ'[x])
        <5>1. NotForgotten(circ'[c])
          BY <3>9 DEF NotForgotten
        <5>2. ASSUME NEW x \in Circuits \ {c} PROVE NotForgotten(circ'[x])
          <6>1. NotForgotten(circ[x])
            BY DEF IInv, QueuesKnown
          <6> QED BY <3>9, <6>1 DEF NotForgotten
        <5> QED BY <5>1, <5>2
      <4> QED BY <4>1, <4>4, <4>6, <4>7 DEF QueuesKnown
    <3> QED BY <1>3, <2>2, <2>3, <3>8, <3>10, <3>11 DEF IInv
  <2> QED BY <1>6, <2>4, <2>5 DEF CreateCell
<1> QED BY <1>5, <1>6

-----------------------------------------------------------------------------
(* The main thread                                                          *)

\* Steps after which circuits have the entries and jobs they had.
LEMMA QueuesStay ==
  ASSUME IInv, UNCHANGED <<ol_list, ol_entries>>,
         circ' \in [Circuits -> Circuit],
         \A x \in Circuits : circ'[x].entry = circ[x].entry /\ NotForgotten(circ'[x])
  PROVE  QueueTypes' /\ QueuesKnown' /\ EntriesCounted'
<1>1. \A x : Queued(x)' <=> Queued(x)
  BY DEF Queued
<1> QED BY <1>1 DEF IInv, QueueTypes, QueuesKnown, EntriesCounted

LEMMA MarkForCloseKeeps ==
  ASSUME IInv, NEW c \in Circuits, MarkForClose(c)
  PROVE  IInv'
<1>1. /\ main = "loop" /\ main' = main
      /\ circ[c].mem = "live" /\ circ' = [circ EXCEPT ![c].marked = TRUE]
      /\ UNCHANGED <<ol_list, ol_entries, recently_chosen_ntors, ntors_ahead,
                     total_pending_tasks, work, thread, answers, alert>>
  BY DEF MarkForClose, onions, pool, replies
<1>2. /\ circ' \in [Circuits -> Circuit]
      /\ \A x \in Circuits : /\ circ'[x].mem = circ[x].mem /\ circ'[x].job = circ[x].job
                             /\ circ'[x].entry = circ[x].entry
                             /\ circ'[x].state = circ[x].state
                             /\ circ[x].marked => circ'[x].marked
  BY <1>1 DEF IInv, QueueTypes, Circuit
<1>3. \A x \in Circuits : NotForgotten(circ'[x])
  BY <1>2 DEF IInv, QueuesKnown, NotForgotten
<1>4. QueueTypes' /\ QueuesKnown' /\ EntriesCounted'
  BY <1>1, <1>2, <1>3, QueuesStay
<1>5. /\ PoolTypes' /\ OnePlace' /\ WorkIsSeen' /\ TasksCounted'
      /\ \A x : HasJob(x)' <=> HasJob(x)
  BY <1>1, PoolStays
<1>6. JobsKnown'
  BY <1>2, <1>5 DEF IInv, JobsKnown
<1>7. MainTypes' /\ NtorsCounted' /\ AnswersAreHeard'
  BY <1>1, StillHeard DEF IInv, MainTypes, NtorsCounted
<1> QED BY <1>4, <1>5, <1>6, <1>7 DEF IInv

\* The main thread goes into a loop or comes out of it.
LEMMA MainGoesOn ==
  ASSUME IInv,
         UNCHANGED <<circ, ol_list, ol_entries, recently_chosen_ntors, ntors_ahead,
                     total_pending_tasks, work, thread, answers>>,
         alert' \in BOOLEAN, main' \in {"loop", "replies", "queueing", "closing"},
         AnswersAreHeard'
  PROVE  IInv'
<1>1. QueueTypes' /\ QueuesKnown' /\ EntriesCounted'
  BY QueuesStay DEF IInv, QueueTypes, QueuesKnown
<1>2. /\ PoolTypes' /\ OnePlace' /\ WorkIsSeen' /\ TasksCounted'
      /\ \A x : HasJob(x)' <=> HasJob(x)
  BY PoolStays
<1>3. JobsKnown'
  BY <1>2 DEF IInv, JobsKnown
<1> QED BY <1>1, <1>2, <1>3 DEF IInv, MainTypes, NtorsCounted

LEMMA MainLoopKeeps ==
  ASSUME IInv, CloseBegin \/ CloseEnd \/ ReplyEvent \/ QueueDone \/ RepliesDone
  PROVE  IInv'
<1>1. UNCHANGED <<circ, ol_list, ol_entries, recently_chosen_ntors, ntors_ahead,
                  total_pending_tasks, work, thread, answers>>
  BY DEF CloseBegin, CloseEnd, ReplyEvent, QueueDone, RepliesDone, onions, pool, replies
<1>2. alert' \in BOOLEAN /\ main' \in {"loop", "replies", "queueing", "closing"}
  BY DEF CloseBegin, CloseEnd, ReplyEvent, QueueDone, RepliesDone, replies, IInv, MainTypes
<1>3. AnswersAreHeard'
  <2>1. CASE CloseBegin \/ CloseEnd
    BY <1>1, <2>1, StillHeard DEF CloseBegin, CloseEnd, replies
  <2>2. CASE ReplyEvent \/ QueueDone
    BY <2>2 DEF ReplyEvent, QueueDone, AnswersAreHeard
  <2>3. CASE RepliesDone
    BY <1>1, <2>3 DEF RepliesDone, AnswersAreHeard
  <2> QED BY <2>1, <2>2, <2>3
<1> QED BY <1>1, <1>2, <1>3, MainGoesOn

LEMMA CloseOneKeeps ==
  ASSUME IInv, NEW c \in Circuits, CloseOne(c)
  PROVE  IInv'
<1>1. /\ main = "closing" /\ main' = main
      /\ circ[c].mem = "live" /\ circ[c].marked
      /\ onion_pending_remove(c) /\ cpuworker_cancel_circ_handshake(c)
      /\ UNCHANGED <<recently_chosen_ntors, ntors_ahead, thread, answers, alert>>
  BY DEF CloseOne, Marked, replies
<1>2. Cancellable(c) <=> In(c, work)
  <2>1. In(c, work) => circ[c].job
    BY <1>1 DEF IInv, JobsKnown, HasJob
  <2> QED BY <2>1 DEF Cancellable, In
<1>3. RunningThreads' = RunningThreads /\ \A x : RunsFor(x)' <=> RunsFor(x)
  BY <1>1 DEF RunningThreads, RunsFor
<1>4. /\ work' \in Seq(Circuits) /\ Distinct(work')
      /\ \A x : In(x, work') <=> (In(x, work) /\ x # c)
      /\ total_pending_tasks' - Len(work') = total_pending_tasks - Len(work)
      /\ Len(work') <= Len(work)
      /\ work' # <<>> => work # <<>>
  <2>0. Len(work) \in Nat /\ total_pending_tasks \in Nat /\ work \in Seq(Circuits)
        /\ Distinct(work)
    BY DEF IInv, PoolTypes, OnePlace, TasksCounted
  <2>1. CASE Cancellable(c)
    <3>1. PICK i \in 1..Len(work) : work[i] = c /\ work' = RemoveAt(work, i)
      BY <1>1, <2>1 DEF cpuworker_cancel_circ_handshake
    <3>2. total_pending_tasks' = total_pending_tasks - 1
      BY <1>1, <2>1 DEF cpuworker_cancel_circ_handshake
    <3>3. /\ work' \in Seq(Circuits) /\ Len(work') = Len(work) - 1 /\ Distinct(work')
          /\ \A x : In(x, work') <=> (In(x, work) /\ x # c)
      BY <2>0, <3>1, RemoveFacts
    <3> QED BY <2>0, <3>1, <3>2, <3>3
  <2>2. CASE ~Cancellable(c)
    BY <1>1, <1>2, <2>0, <2>2 DEF cpuworker_cancel_circ_handshake
  <2> QED BY <2>1, <2>2
<1>5. PoolTypes' /\ OnePlace'
  BY <1>1, <1>3, <1>4 DEF IInv, PoolTypes, OnePlace
<1>6. \A x : HasJob(x)' <=> ((In(x, work) /\ x # c) \/ RunsFor(x) \/ In(x, answers))
  BY <1>1, <1>3, <1>4 DEF HasJob
<1>7. TasksCounted'
  <2>1. Len(work) \in Nat /\ Len(work') \in Nat /\ Len(answers) \in Nat /\ MaxPending \in Nat
    BY <1>4, OnionParameters DEF IInv, PoolTypes
  <2>2. Cardinality(RunningThreads) \in Nat
    BY RunningIsFinite
  <2>3. total_pending_tasks' \in Int
    <3>1. total_pending_tasks' = total_pending_tasks - 1
          \/ total_pending_tasks' = total_pending_tasks
      BY <1>1 DEF cpuworker_cancel_circ_handshake
    <3> QED BY <3>1 DEF IInv, TasksCounted
  <2>4. /\ total_pending_tasks = Len(work) + Cardinality(RunningThreads) + Len(answers)
        /\ total_pending_tasks <= MaxPending
    BY DEF IInv, TasksCounted
  <2>5. /\ total_pending_tasks' = Len(work') + Cardinality(RunningThreads) + Len(answers)
        /\ total_pending_tasks' \in 0..MaxPending
    <3>1. /\ total_pending_tasks' - Len(work') = total_pending_tasks - Len(work)
          /\ Len(work') <= Len(work)
      BY <1>4
    <3>2. total_pending_tasks \in Nat
      BY <2>1, <2>2, <2>4
    <3> QED BY <2>1, <2>2, <2>3, <2>4, <3>1, <3>2
  <2> QED BY <1>1, <1>3, <2>5 DEF TasksCounted
<1>8. WorkIsSeen'
  BY <1>1, <1>4 DEF IInv, WorkIsSeen
<1>9. AnswersAreHeard' /\ MainTypes' /\ NtorsCounted'
  BY <1>1, StillHeard DEF IInv, MainTypes, NtorsCounted
<1> DEFINE keeps == circ[c].job /\ ~Cancellable(c)
<1>10. /\ circ' \in [Circuits -> Circuit]
       /\ \A x \in Circuits \ {c} : circ'[x] = circ[x]
       /\ circ'[c].mem = IF keeps THEN "dead" ELSE "free"
       /\ circ'[c].entry = FALSE
  <2>1. circ' = [circ EXCEPT ![c] = IF keeps THEN [Free EXCEPT !.mem = "dead"] ELSE Free]
    <3> DEFINE r == [circ[c] EXCEPT !.job = circ[c].job /\ ~Cancellable(c)]
    <3>1. circ' = [circ EXCEPT ![c] = circuit_free(r)]
      BY DEF CloseOne
    <3>2. circ[c] \in Circuit
      BY DEF IInv, QueueTypes
    <3>3. r.job = keeps
      BY <3>2 DEF Circuit
    <3> HIDE DEF r, keeps
    <3> QED BY <3>1, <3>3 DEF circuit_free
  <2>2. NewCircuit \in Circuit
    BY DEF Circuit, NewCircuit
  <2>3. /\ Free \in Circuit /\ Free.mem = "free" /\ Free.entry = FALSE
        /\ [Free EXCEPT !.mem = "dead"] \in Circuit
        /\ [Free EXCEPT !.mem = "dead"].mem = "dead"
        /\ [Free EXCEPT !.mem = "dead"].entry = FALSE
    BY <2>2 DEF Circuit, Free, NewCircuit
  <2> QED BY <2>1, <2>3 DEF IInv, QueueTypes
<1>11. JobsKnown'
  <2>1. HasJob(c)' <=> keeps
    BY <1>1, <1>2, <1>6 DEF IInv, JobsKnown, HasJob, OnePlace
  <2>2. \A x \in Circuits \ {c} : HasJob(x)' <=> HasJob(x)
    BY <1>6 DEF HasJob
  <2> HIDE DEF keeps
  <2> QED BY <1>10, <2>1, <2>2 DEF IInv, JobsKnown
<1>12. /\ ol_list' \in [Types -> Seq(Circuits)]
       /\ ol_entries' \in [Types -> Nat]
       /\ \A q \in Types : /\ Distinct(ol_list'[q])
                           /\ ol_entries'[q] = Len(ol_list'[q])
                           /\ \A x : In(x, ol_list'[q]) <=> (In(x, ol_list[q]) /\ x # c)
  <2>0. \A q \in Types : /\ ol_list[q] \in Seq(Circuits) /\ Distinct(ol_list[q])
                         /\ ol_entries[q] = Len(ol_list[q])
    BY DEF IInv, QueueTypes, QueuesKnown, EntriesCounted
  <2>1. CASE circ[c].entry
    <3>0. PICK q \in Types : \E i \in 1..Len(ol_list[q]) :
            /\ ol_list[q][i] = c
            /\ ol_list' = [ol_list EXCEPT ![q] = RemoveAt(@, i)]
            /\ ol_entries' = [ol_entries EXCEPT ![q] = @ - 1]
      BY <1>1, <2>1 DEF onion_pending_remove
    <3>1. PICK i \in 1..Len(ol_list[q]) :
            /\ ol_list[q][i] = c
            /\ ol_list' = [ol_list EXCEPT ![q] = RemoveAt(@, i)]
            /\ ol_entries' = [ol_entries EXCEPT ![q] = @ - 1]
      BY <3>0
    <3> DEFINE r == RemoveAt(ol_list[q], i)
    <3>2. /\ r \in Seq(Circuits) /\ Len(r) = Len(ol_list[q]) - 1 /\ Distinct(r)
          /\ \A x : In(x, r) <=> (In(x, ol_list[q]) /\ x # c)
      BY <2>0, <3>1, RemoveFacts
    <3>3. ol_list' = [ol_list EXCEPT ![q] = r]
      BY <3>1
    <3> HIDE DEF r
    <3>4. /\ ol_list' \in [Types -> Seq(Circuits)] /\ ol_list'[q] = r
          /\ \A p \in Types \ {q} : ol_list'[p] = ol_list[p] /\ ol_entries'[p] = ol_entries[p]
          /\ ol_entries'[q] = ol_entries[q] - 1
      BY <3>1, <3>2, <3>3 DEF IInv, QueueTypes
    <3>5. \A p \in Types \ {q} : ~In(c, ol_list[p])
      <4>1. In(c, ol_list[q])
        BY <3>1 DEF In
      <4> QED BY <4>1 DEF IInv, QueuesKnown, Types
    <3>6. \A p \in Types : ol_entries'[p] = Len(ol_list'[p]) /\ Len(ol_list'[p]) \in Nat
      BY <2>0, <3>2, <3>4
    <3>7. ol_entries' \in [Types -> Nat]
      BY <3>1, <3>6 DEF IInv, QueueTypes
    <3> QED BY <2>0, <3>2, <3>4, <3>5, <3>6, <3>7
  <2>2. CASE ~circ[c].entry
    <3>1. UNCHANGED <<ol_list, ol_entries>>
      BY <1>1, <2>2 DEF onion_pending_remove
    <3>2. \A q \in Types : ~In(c, ol_list[q])
      BY <2>2 DEF IInv, QueuesKnown, Queued
    <3> QED BY <2>0, <3>1, <3>2 DEF IInv, QueueTypes
  <2> QED BY <2>1, <2>2
<1>13. QueueTypes' /\ EntriesCounted'
  BY <1>10, <1>12 DEF QueueTypes, EntriesCounted
<1>14. QueuesKnown'
  <2>1. \A x \in Circuits : Queued(x)' <=> (Queued(x) /\ x # c)
    BY <1>12 DEF Queued
  <2>2. \A x \in Circuits : circ'[x].entry <=> Queued(x)'
    BY <1>10, <2>1 DEF IInv, QueuesKnown
  <2>3. \A x \in Circuits : ~(In(x, ol_list'["TAP"]) /\ In(x, ol_list'["NTOR"]))
    BY <1>12 DEF IInv, QueuesKnown, Types
  <2>4. NotForgotten(circ'[c])
    BY <1>10 DEF NotForgotten
  <2>5. \A x \in Circuits : NotForgotten(circ'[x])
    BY <1>10, <2>4 DEF IInv, QueuesKnown
  <2> QED BY <1>12, <2>2, <2>3, <2>5 DEF QueuesKnown
<1> QED BY <1>5, <1>7, <1>8, <1>9, <1>11, <1>13, <1>14 DEF IInv

LEMMA ReplyKeeps ==
  ASSUME IInv, Reply
  PROVE  IInv'
<1> DEFINE c == Head(answers)
<1>1. /\ main' = "queueing" /\ answers # <<>> /\ answers' = Tail(answers)
      /\ total_pending_tasks' = total_pending_tasks - 1
      /\ UNCHANGED <<ol_list, ol_entries, recently_chosen_ntors, ntors_ahead, work, thread, alert>>
  BY DEF Reply, onions
<1>2. /\ answers' \in Seq(Circuits) /\ c \in Circuits /\ In(c, answers)
      /\ Len(answers') = Len(answers) - 1 /\ Distinct(answers')
      /\ \A x : In(x, answers') <=> (In(x, answers) /\ x # c)
  BY <1>1, TailFacts DEF IInv, PoolTypes, OnePlace
<1>3. RunningThreads' = RunningThreads /\ \A x : RunsFor(x)' <=> RunsFor(x)
  BY <1>1 DEF RunningThreads, RunsFor
<1>4. PoolTypes' /\ OnePlace' /\ WorkIsSeen'
  BY <1>1, <1>2, <1>3 DEF IInv, PoolTypes, OnePlace, WorkIsSeen
<1>5. \A x \in Circuits : HasJob(x)' <=> (HasJob(x) /\ x # c)
  BY <1>1, <1>2, <1>3 DEF IInv, OnePlace, HasJob
<1>6. TasksCounted'
  <2>1. Len(work) \in Nat /\ Len(answers) \in Nat /\ Len(answers') \in Nat /\ MaxPending \in Nat
    BY <1>2, OnionParameters DEF IInv, PoolTypes
  <2>2. Cardinality(RunningThreads) \in Nat
    BY RunningIsFinite
  <2>3. /\ total_pending_tasks = Len(work) + Cardinality(RunningThreads) + Len(answers)
        /\ total_pending_tasks <= MaxPending
    BY DEF IInv, TasksCounted
  <2>4. /\ total_pending_tasks' = Len(work) + Cardinality(RunningThreads) + Len(answers')
        /\ total_pending_tasks' \in 0..MaxPending
    BY <1>1, <1>2, <2>1, <2>2, <2>3
  <2> QED BY <1>1, <1>3, <2>4 DEF TasksCounted
<1>7. MainTypes' /\ NtorsCounted' /\ AnswersAreHeard'
  BY <1>1 DEF IInv, MainTypes, NtorsCounted, AnswersAreHeard
<1>8. PICK success \in BOOLEAN : circ' = [circ EXCEPT ![c] = replyfn(circ[c], success)]
  BY DEF Reply
<1>9. /\ circ[c] \in Circuit /\ NotForgotten(circ[c])
      /\ circ[c].mem = "dead" \/ (circ[c].mem = "live" /\ circ[c].job)
  BY <1>2 DEF IInv, QueueTypes, QueuesKnown, JobsKnown, HasJob
<1> DEFINE r == replyfn(circ[c], success)
<1>10. /\ r \in Circuit /\ r.entry = FALSE /\ NotForgotten(r)
       /\ r.mem = "free" \/ (r.mem = "live" /\ r.job = FALSE)
  <2>0. circ[c].entry = FALSE
    BY <1>9 DEF NotForgotten, Circuit
  <2>1. CASE circ[c].mem = "dead"
    <3>1. r = Free
      BY <2>1 DEF replyfn, free_dead
    <3>2. NewCircuit \in Circuit
      BY DEF Circuit, NewCircuit
    <3>3. Free \in Circuit /\ Free.mem = "free" /\ Free.entry = FALSE
      BY <3>2 DEF Circuit, Free, NewCircuit
    <3> QED BY <3>1, <3>3 DEF NotForgotten
  <2>2. CASE circ[c].mem # "dead" /\ circ[c].marked
    <3>1. r = [circ[c] EXCEPT !.job = FALSE]
      BY <2>2 DEF replyfn
    <3> QED BY <1>9, <2>0, <2>2, <3>1 DEF Circuit, NotForgotten
  <2>3. CASE circ[c].mem # "dead" /\ ~circ[c].marked /\ success
    <3>1. r = [circ[c] EXCEPT !.job = FALSE, !.state = "OPEN"]
      BY <2>3 DEF replyfn
    <3> QED BY <1>9, <2>0, <2>3, <3>1 DEF Circuit, NotForgotten
  <2>4. CASE circ[c].mem # "dead" /\ ~circ[c].marked /\ ~success
    <3>1. r = [circ[c] EXCEPT !.job = FALSE, !.marked = TRUE]
      BY <2>4 DEF replyfn
    <3> QED BY <1>9, <2>0, <2>4, <3>1 DEF Circuit, NotForgotten
  <2> QED BY <2>1, <2>2, <2>3, <2>4
<1> HIDE DEF r
<1>11. /\ circ' \in [Circuits -> Circuit] /\ circ'[c] = r
       /\ \A x \in Circuits \ {c} : circ'[x] = circ[x]
  <2>1. circ' = [circ EXCEPT ![c] = r]
    BY <1>8 DEF r
  <2> HIDE DEF c
  <2> QED BY <1>2, <1>10, <2>1 DEF IInv, QueueTypes
<1>12. JobsKnown'
  <2> HIDE DEF c
  <2>1. \A x \in Circuits : x = c => ~HasJob(x)'
    BY <1>5
  <2>2. ~(circ'[c].mem = "live" /\ circ'[c].job) /\ circ'[c].mem # "dead"
    BY <1>10, <1>11
  <2> QED BY <1>5, <1>11, <2>1, <2>2 DEF IInv, JobsKnown
<1>13. QueueTypes' /\ QueuesKnown' /\ EntriesCounted'
  <2>1. circ[c].entry = FALSE
    BY <1>9 DEF NotForgotten, Circuit
  <2> HIDE DEF c
  <2>2. \A x \in Circuits : circ'[x].entry = circ[x].entry /\ NotForgotten(circ'[x])
    BY <1>10, <1>11, <2>1 DEF IInv, QueuesKnown
  <2> QED BY <1>1, <1>11, <2>2, QueuesStay
<1> QED BY <1>4, <1>6, <1>7, <1>12, <1>13 DEF IInv

LEMMA QueueTaskKeeps ==
  ASSUME IInv, QueueTask
  PROVE  IInv'
<1> DEFINE type == decide_next_handshake_type[1]
           old == ol_list[type]
           c == Head(old)
           C == [circ EXCEPT ![c].entry = FALSE]
<1>1. /\ main = "queueing" /\ main' = main /\ answers' = answers /\ alert' = alert
      /\ total_pending_tasks < MaxPending /\ ~NothingQueued
      /\ ol_list' = [ol_list EXCEPT ![type] = Tail(@)]
      /\ ol_entries' = [ol_entries EXCEPT ![type] = @ - 1]
      /\ recently_chosen_ntors' = decide_next_handshake_type[2]
      /\ ntors_ahead' = IF type = "NTOR" /\ ol_list["TAP"] # <<>>
                        THEN ntors_ahead + 1 ELSE 0
      /\ \/ QueueWork(c, C)
         \/ circ[c].marked /\ circ' = C /\ UNCHANGED <<total_pending_tasks, work, thread>>
  BY DEF QueueTask, replies, pool
<1>2. /\ type \in Types /\ old # <<>>
      /\ recently_chosen_ntors' \in 0..(NtorsPerTap + 1)
      /\ ntors_ahead' \in Nat /\ ntors_ahead' <= recently_chosen_ntors'
      /\ ntors_ahead' <= NtorsPerTap
  <2>1. /\ NtorsPerTap \in Nat /\ recently_chosen_ntors \in 0..(NtorsPerTap + 1)
        /\ ntors_ahead \in Nat /\ ntors_ahead <= recently_chosen_ntors
    BY OnionParameters DEF IInv, MainTypes, NtorsCounted
  <2>2. \A q \in Types : ol_entries[q] = 0 <=> ol_list[q] = <<>>
    BY DEF IInv, QueueTypes, EntriesCounted
  <2>3. \E q \in Types : ol_list[q] # <<>>
    BY <1>1 DEF NothingQueued
  <2>4. CASE ol_entries["NTOR"] = 0
    <3>1. decide_next_handshake_type = <<"TAP", recently_chosen_ntors>>
      BY <2>4 DEF decide_next_handshake_type
    <3>2. ol_list["TAP"] # <<>>
      BY <2>2, <2>3, <2>4 DEF Types
    <3> QED BY <1>1, <2>1, <3>1, <3>2 DEF Types
  <2>5. CASE ol_entries["NTOR"] # 0 /\ ol_entries["TAP"] = 0
    <3>1. decide_next_handshake_type =
            <<"NTOR", IF recently_chosen_ntors <= NtorsPerTap THEN recently_chosen_ntors + 1
                      ELSE recently_chosen_ntors>>
      BY <2>5 DEF decide_next_handshake_type
    <3>2. ol_list["TAP"] = <<>> /\ ol_list["NTOR"] # <<>>
      BY <2>2, <2>5 DEF Types
    <3> QED BY <1>1, <2>1, <3>1, <3>2 DEF Types
  <2>6. CASE /\ ol_entries["NTOR"] # 0 /\ ol_entries["TAP"] # 0
             /\ recently_chosen_ntors + 1 <= NtorsPerTap
    <3>1. decide_next_handshake_type = <<"NTOR", recently_chosen_ntors + 1>>
      BY <2>6 DEF decide_next_handshake_type
    <3>2. ol_list["NTOR"] # <<>>
      BY <2>2, <2>6 DEF Types
    <3> QED BY <1>1, <2>1, <2>6, <3>1, <3>2 DEF Types
  <2>7. CASE /\ ol_entries["NTOR"] # 0 /\ ol_entries["TAP"] # 0
             /\ ~(recently_chosen_ntors + 1 <= NtorsPerTap)
    <3>1. decide_next_handshake_type = <<"TAP", 0>>
      BY <2>7 DEF decide_next_handshake_type
    <3>2. ol_list["TAP"] # <<>>
      BY <2>2, <2>7 DEF Types
    <3> QED BY <1>1, <2>1, <3>1, <3>2 DEF Types
  <2> QED BY <2>4, <2>5, <2>6, <2>7
<1> HIDE DEF type
<1>3. /\ old \in Seq(Circuits) /\ Distinct(old) /\ ol_entries[type] = Len(old)
  BY <1>2 DEF IInv, QueueTypes, QueuesKnown, EntriesCounted
<1> HIDE DEF old
<1>4. /\ Tail(old) \in Seq(Circuits) /\ c \in Circuits /\ In(c, old)
      /\ Len(Tail(old)) = Len(old) - 1
      /\ Distinct(Tail(old))
      /\ \A y : In(y, Tail(old)) <=> (In(y, old) /\ y # c)
  BY <1>2, <1>3, TailFacts
<1> HIDE DEF c
<1>5. /\ circ[c].entry /\ circ[c].mem = "live" /\ circ[c].job = FALSE /\ ~HasJob(c)
  <2>1. Queued(c)
    BY <1>2, <1>4 DEF Queued, old
  <2>2. circ[c].entry /\ NotForgotten(circ[c]) /\ circ[c] \in Circuit
    BY <1>4, <2>1 DEF IInv, QueuesKnown, QueueTypes
  <2>3. circ[c].mem = "live" /\ circ[c].job = FALSE
    BY <2>2 DEF NotForgotten, Circuit
  <2> QED BY <1>4, <2>2, <2>3 DEF IInv, JobsKnown
<1>6. /\ ol_list' \in [Types -> Seq(Circuits)]
      /\ ol_entries' \in [Types -> Nat]
      /\ \A q \in Types : /\ Distinct(ol_list'[q])
                          /\ ol_entries'[q] = Len(ol_list'[q])
                          /\ \A x : In(x, ol_list'[q]) <=> (In(x, ol_list[q]) /\ (q = type => x # c))
  <2>1. ol_list' = [ol_list EXCEPT ![type] = Tail(old)]
    BY <1>1 DEF old
  <2>2. /\ ol_list' \in [Types -> Seq(Circuits)] /\ ol_list'[type] = Tail(old)
        /\ ol_entries'[type] = Len(old) - 1
        /\ \A q \in Types \ {type} : ol_list'[q] = ol_list[q] /\ ol_entries'[q] = ol_entries[q]
    BY <1>1, <1>2, <1>3, <1>4, <2>1 DEF IInv, QueueTypes
  <2>3. \A q \in Types : /\ Distinct(ol_list[q]) /\ ol_entries[q] = Len(ol_list[q])
    BY DEF IInv, QueuesKnown, EntriesCounted
  <2>4. \A q \in Types : ol_entries'[q] = Len(ol_list'[q]) /\ Len(ol_list'[q]) \in Nat
    BY <1>4, <2>2, <2>3
  <2>5. ol_entries' \in [Types -> Nat]
    BY <1>1, <2>4 DEF IInv, QueueTypes
  <2>6. old = ol_list[type]
    BY DEF old
  <2> QED BY <1>4, <2>2, <2>3, <2>4, <2>5, <2>6
<1>7. MainTypes' /\ NtorsCounted' /\ AnswersAreHeard'
  BY <1>1, <1>2 DEF IInv, MainTypes, NtorsCounted, AnswersAreHeard
<1>8. \A x \in Circuits : Queued(x)' <=> (Queued(x) /\ x # c)
  <2>1. \A q \in Types \ {type} : ~In(c, ol_list[q])
    BY <1>2, <1>4 DEF IInv, QueuesKnown, Types, old
  <2> QED BY <1>6, <2>1 DEF Queued
\* What remains depends on whether the circuit got a job.
<1>9. ASSUME circ' \in [Circuits -> Circuit],
             \A x \in Circuits \ {c} : circ'[x] = circ[x],
             circ'[c].entry = FALSE, circ'[c].mem = "live",
             circ'[c].marked \/ circ'[c].job
      PROVE  QueueTypes' /\ QueuesKnown' /\ EntriesCounted'
  <2>1. QueueTypes' /\ EntriesCounted'
    BY <1>6, <1>9 DEF QueueTypes, EntriesCounted
  <2>2. \A x \in Circuits : circ'[x].entry <=> Queued(x)'
    BY <1>4, <1>8, <1>9 DEF IInv, QueuesKnown
  <2>3. \A x \in Circuits : ~(In(x, ol_list'["TAP"]) /\ In(x, ol_list'["NTOR"]))
    BY <1>6 DEF IInv, QueuesKnown, Types
  <2>4. NotForgotten(circ'[c])
    BY <1>9 DEF NotForgotten
  <2>5. \A x \in Circuits : NotForgotten(circ'[x])
    BY <1>9, <2>4 DEF IInv, QueuesKnown
  <2> QED BY <1>6, <2>1, <2>2, <2>3, <2>5 DEF QueuesKnown
<1>10. CASE QueueWork(c, C)
  <2>1. circ' = [C EXCEPT ![c].job = TRUE]
    BY <1>10 DEF QueueWork
  <2>2. /\ circ' \in [Circuits -> Circuit]
        /\ \A x \in Circuits \ {c} : circ'[x] = circ[x]
        /\ circ'[c].entry = FALSE /\ circ'[c].mem = "live" /\ circ'[c].job = TRUE
    BY <1>4, <1>5, <2>1 DEF IInv, QueueTypes, Circuit
  <2> HIDE DEF C
  <2>3. /\ PoolTypes' /\ OnePlace' /\ TasksCounted' /\ WorkIsSeen'
        /\ \A x : HasJob(x)' <=> (HasJob(x) \/ x = c)
    BY <1>1, <1>4, <1>5, <1>10, QueueWorkStep
  <2>4. JobsKnown'
    BY <1>4, <2>2, <2>3 DEF IInv, JobsKnown
  <2> QED BY <1>7, <1>9, <2>2, <2>3, <2>4 DEF IInv
<1>11. CASE circ[c].marked /\ circ' = C /\ UNCHANGED <<total_pending_tasks, work, thread>>
  <2>1. /\ circ' \in [Circuits -> Circuit]
        /\ \A x \in Circuits \ {c} : circ'[x] = circ[x]
        /\ circ'[c].entry = FALSE /\ circ'[c].mem = "live" /\ circ'[c].marked
        /\ circ'[c].job = FALSE
    BY <1>4, <1>5, <1>11 DEF IInv, QueueTypes, Circuit
  <2>2. /\ PoolTypes' /\ OnePlace' /\ WorkIsSeen' /\ TasksCounted'
        /\ \A x : HasJob(x)' <=> HasJob(x)
    BY <1>1, <1>11, PoolStays
  <2>3. JobsKnown'
    BY <1>4, <1>5, <2>1, <2>2 DEF IInv, JobsKnown
  <2> QED BY <1>7, <1>9, <2>1, <2>2, <2>3 DEF IInv
<1> QED BY <1>1, <1>10, <1>11

-----------------------------------------------------------------------------
(* The worker threads                                                       *)

\* What a worker leaves alone.
LEMMA WorkerKeeps ==
  ASSUME IInv, UNCHANGED <<circ, ol_list, ol_entries, recently_chosen_ntors, ntors_ahead, main>>,
         alert' \in BOOLEAN,
         PoolTypes', OnePlace', \A x \in Circuits : HasJob(x)' <=> HasJob(x),
         TasksCounted', WorkIsSeen', AnswersAreHeard'
  PROVE  IInv'
<1>1. QueueTypes' /\ QueuesKnown' /\ EntriesCounted'
  BY QueuesStay DEF IInv, QueueTypes, QueuesKnown
<1>2. JobsKnown'
  BY DEF IInv, JobsKnown
<1> QED BY <1>1, <1>2 DEF IInv, MainTypes, NtorsCounted

\* A thread that neither takes a job nor gives one back.
LEMMA AwakeOrNot ==
  ASSUME IInv, NEW t \in Threads, t \notin RunningThreads, NEW at \in {"waiting", "awake"},
         thread' = [thread EXCEPT ![t].at = at], UNCHANGED <<work, answers>>
  PROVE  /\ PoolTypes' /\ OnePlace'
         /\ \A x \in Circuits : HasJob(x)' <=> HasJob(x)
         /\ total_pending_tasks' = total_pending_tasks => TasksCounted'
<1>1. /\ thread' \in [Threads -> Thread] /\ RunningThreads' = RunningThreads
      /\ \A u \in RunningThreads : thread'[u] = thread[u]
  BY DEF IInv, PoolTypes, Thread, RunningThreads
<1>2. \A x : RunsFor(x)' <=> RunsFor(x)
  BY <1>1 DEF RunsFor
<1> QED BY <1>1, <1>2 DEF IInv, PoolTypes, OnePlace, HasJob, TasksCounted

LEMMA WaitKeeps ==
  ASSUME IInv, NEW t \in Threads, Wait(t)
  PROVE  IInv'
<1>1. /\ thread[t].at = "awake" /\ work = <<>>
      /\ thread' = [thread EXCEPT ![t].at = "waiting"]
      /\ UNCHANGED <<circ, ol_list, ol_entries, recently_chosen_ntors, ntors_ahead,
                     total_pending_tasks, work, answers, alert, main>>
  BY DEF Wait, onions, replies
<1>2. t \notin RunningThreads
  BY <1>1 DEF RunningThreads
<1>3. PoolTypes' /\ OnePlace' /\ TasksCounted' /\ \A x \in Circuits : HasJob(x)' <=> HasJob(x)
  BY <1>1, <1>2, AwakeOrNot
<1>4. WorkIsSeen'
  BY <1>1 DEF WorkIsSeen
<1>5. AnswersAreHeard'
  BY <1>1 DEF IInv, PoolTypes, AnswersAreHeard
<1>6. alert' \in BOOLEAN
  BY <1>1 DEF IInv, MainTypes
<1> QED BY <1>1, <1>3, <1>4, <1>5, <1>6, WorkerKeeps

LEMMA AlertKeeps ==
  ASSUME IInv, NEW t \in Threads, Alert(t)
  PROVE  IInv'
<1>1. /\ thread[t].at = "alerting" /\ alert' = TRUE
      /\ thread' = [thread EXCEPT ![t].at = "awake"]
      /\ UNCHANGED <<circ, ol_list, ol_entries, recently_chosen_ntors, ntors_ahead,
                     total_pending_tasks, work, answers, main>>
  BY DEF Alert, onions
<1>2. t \notin RunningThreads
  BY <1>1 DEF RunningThreads
<1>3. PoolTypes' /\ OnePlace' /\ TasksCounted' /\ \A x \in Circuits : HasJob(x)' <=> HasJob(x)
  BY <1>1, <1>2, AwakeOrNot
<1>4. WorkIsSeen'
  <2>1. thread'[t].at = "awake"
    BY <1>1 DEF IInv, PoolTypes, Thread
  <2> QED BY <2>1 DEF WorkIsSeen
<1>5. AnswersAreHeard' /\ alert' \in BOOLEAN
  BY <1>1 DEF AnswersAreHeard
<1> QED BY <1>1, <1>3, <1>4, <1>5, WorkerKeeps

LEMMA TakeWorkKeeps ==
  ASSUME IInv, NEW t \in Threads, TakeWork(t)
  PROVE  IInv'
<1>1. /\ thread[t].at = "awake" /\ work # <<>> /\ work' = Tail(work)
      /\ thread' = [thread EXCEPT ![t] = [at |-> "running", circ |-> Head(work)]]
      /\ UNCHANGED <<circ, ol_list, ol_entries, recently_chosen_ntors, ntors_ahead,
                     total_pending_tasks, answers, alert, main>>
  BY DEF TakeWork, onions, replies
<1>0. PICK c : c = Head(work)
  OBVIOUS
<1>2. /\ work' \in Seq(Circuits) /\ c \in Circuits /\ In(c, work)
      /\ Len(work') = Len(work) - 1 /\ Distinct(work')
      /\ \A x : In(x, work') <=> (In(x, work) /\ x # c)
  BY <1>0, <1>1, TailFacts DEF IInv, PoolTypes, OnePlace
<1>3. t \notin RunningThreads
  BY <1>1 DEF RunningThreads
<1>4. /\ thread' \in [Threads -> Thread]
      /\ thread'[t] = [at |-> "running", circ |-> c]
      /\ \A u \in Threads \ {t} : thread'[u] = thread[u]
  BY <1>0, <1>1, <1>2 DEF IInv, PoolTypes, Thread
<1>5. RunningThreads' = RunningThreads \cup {t}
  BY <1>4 DEF RunningThreads
<1>6. \A x : RunsFor(x)' <=> (RunsFor(x) \/ x = c)
  <2>1. \A u \in RunningThreads : u \in Threads /\ thread'[u] = thread[u]
    BY <1>3, <1>4 DEF RunningThreads
  <2> QED BY <1>4, <1>5, <2>1 DEF RunsFor
<1>7. PoolTypes'
  <2>1. \A u \in RunningThreads' : thread'[u].circ \in Circuits
    BY <1>2, <1>3, <1>4, <1>5 DEF IInv, PoolTypes, RunningThreads
  <2> QED BY <1>1, <1>2, <1>4, <2>1 DEF IInv, PoolTypes
<1>8. OnePlace'
  <2>1. ~RunsFor(c) /\ ~In(c, answers)
    BY <1>2 DEF IInv, OnePlace
  <2>2. \A u, v \in RunningThreads' : thread'[u].circ = thread'[v].circ => u = v
    <3>1. \A u \in RunningThreads : thread'[u].circ = thread[u].circ /\ thread[u].circ # c
      BY <1>3, <1>4, <2>1 DEF RunsFor, RunningThreads
    <3> QED BY <1>4, <1>5, <3>1 DEF IInv, OnePlace
  <2>3. \A x \in Circuits : /\ ~(In(x, work') /\ RunsFor(x)')
                           /\ ~(In(x, work') /\ In(x, answers))
                           /\ ~(RunsFor(x)' /\ In(x, answers))
    BY <1>2, <1>6, <2>1 DEF IInv, OnePlace
  <2>4. answers' = answers /\ Distinct(answers)
    BY <1>1 DEF IInv, OnePlace
  <2> QED BY <1>2, <2>2, <2>3, <2>4 DEF OnePlace
<1>9. \A x \in Circuits : HasJob(x)' <=> HasJob(x)
  BY <1>1, <1>2, <1>6 DEF HasJob
<1>10. TasksCounted'
  <2>1. Cardinality(RunningThreads') = Cardinality(RunningThreads) + 1
    BY <1>3, <1>5, RunningIsFinite, FS_AddElement
  <2>2. Len(work) \in Nat /\ Len(answers) \in Nat /\ Cardinality(RunningThreads) \in Nat
    BY RunningIsFinite DEF IInv, PoolTypes
  <2>3. Len(work') + Cardinality(RunningThreads') + Len(answers)
        = Len(work) + Cardinality(RunningThreads) + Len(answers)
    BY <1>2, <2>1, <2>2
  <2> QED BY <1>1, <2>3 DEF IInv, TasksCounted
<1>11. WorkIsSeen'
  <2>1. thread'[t].at = "running"
    BY <1>4
  <2> QED BY <2>1 DEF WorkIsSeen
<1>12. AnswersAreHeard'
  <2>1. \A u \in Threads : thread[u].at = "alerting" => thread'[u].at = "alerting"
    BY <1>1, <1>4
  <2> QED BY <1>1, <2>1 DEF IInv, AnswersAreHeard
<1>13. alert' \in BOOLEAN
  BY <1>1 DEF IInv, MainTypes
<1> QED BY <1>1, <1>7, <1>8, <1>9, <1>10, <1>11, <1>12, <1>13, WorkerKeeps

LEMMA QueueReplyKeeps ==
  ASSUME IInv, NEW t \in Threads, QueueReply(t)
  PROVE  IInv'
<1>0. PICK c : c = thread[t].circ
  OBVIOUS
<1>1. /\ thread[t].at = "running" /\ answers' = Append(answers, c)
      /\ thread' = [thread EXCEPT ![t] = [at |-> IF answers = <<>> THEN "alerting" ELSE "awake",
                                         circ |-> "none"]]
      /\ UNCHANGED <<circ, ol_list, ol_entries, recently_chosen_ntors, ntors_ahead,
                     total_pending_tasks, work, alert, main>>
  BY <1>0 DEF QueueReply, onions
<1>2. t \in RunningThreads /\ c \in Circuits /\ RunsFor(c)
  BY <1>0, <1>1 DEF RunningThreads, RunsFor, IInv, PoolTypes
<1>3. ~In(c, answers) /\ ~In(c, work)
  BY <1>2 DEF IInv, OnePlace
<1>4. /\ answers' \in Seq(Circuits) /\ Len(answers') = Len(answers) + 1 /\ Distinct(answers')
      /\ \A y : In(y, answers') <=> (In(y, answers) \/ y = c)
  BY <1>1, <1>2, <1>3, AppendFacts DEF IInv, PoolTypes, OnePlace
<1>5. /\ thread' \in [Threads -> Thread]
      /\ thread'[t].at = IF answers = <<>> THEN "alerting" ELSE "awake"
      /\ \A u \in Threads \ {t} : thread'[u] = thread[u]
  BY <1>1 DEF IInv, PoolTypes, Thread
<1>6. RunningThreads' = RunningThreads \ {t}
  BY <1>5 DEF RunningThreads
<1>7. \A u \in RunningThreads \ {t} : thread'[u] = thread[u] /\ thread[u].circ # c
  BY <1>0, <1>2, <1>5 DEF IInv, OnePlace, RunningThreads
<1>8. \A x \in Circuits : RunsFor(x)' <=> (RunsFor(x) /\ x # c)
  BY <1>0, <1>2, <1>6, <1>7 DEF RunsFor
<1>9. PoolTypes'
  BY <1>1, <1>4, <1>5, <1>6, <1>7 DEF IInv, PoolTypes
<1>10. OnePlace'
  <2>1. \A u, v \in RunningThreads' : thread'[u].circ = thread'[v].circ => u = v
    BY <1>6, <1>7 DEF IInv, OnePlace
  <2>2. \A x \in Circuits : /\ ~(In(x, work) /\ RunsFor(x)')
                           /\ ~(In(x, work) /\ In(x, answers'))
                           /\ ~(RunsFor(x)' /\ In(x, answers'))
    BY <1>3, <1>4, <1>8 DEF IInv, OnePlace
  <2>3. work' = work /\ Distinct(work)
    BY <1>1 DEF IInv, OnePlace
  <2> QED BY <1>4, <2>1, <2>2, <2>3 DEF OnePlace
<1>11. \A x \in Circuits : HasJob(x)' <=> HasJob(x)
  BY <1>1, <1>2, <1>4, <1>8 DEF HasJob
<1>12. TasksCounted'
  <2>1. Cardinality(RunningThreads') = Cardinality(RunningThreads) - 1
    BY <1>2, <1>6, RunningIsFinite, FS_RemoveElement
  <2>2. Len(work) \in Nat /\ Len(answers) \in Nat /\ Cardinality(RunningThreads) \in Nat
    BY RunningIsFinite DEF IInv, PoolTypes
  <2>3. Len(work) + Cardinality(RunningThreads') + Len(answers')
        = Len(work) + Cardinality(RunningThreads) + Len(answers)
    BY <1>4, <2>1, <2>2
  <2> QED BY <1>1, <2>3 DEF IInv, TasksCounted
<1>13. WorkIsSeen'
  BY <1>5 DEF WorkIsSeen
<1>14. AnswersAreHeard'
  <2>1. CASE answers = <<>>
    BY <1>5, <2>1 DEF AnswersAreHeard
  <2>2. CASE answers # <<>>
    <3>1. \A u \in Threads : thread[u].at = "alerting" => thread'[u].at = "alerting"
      BY <1>1, <1>5
    <3> QED BY <1>1, <2>2, <3>1 DEF IInv, AnswersAreHeard
  <2> QED BY <2>1, <2>2
<1>15. alert' \in BOOLEAN
  BY <1>1 DEF IInv, MainTypes
<1> QED BY <1>1, <1>9, <1>10, <1>11, <1>12, <1>13, <1>14, <1>15, WorkerKeeps

-----------------------------------------------------------------------------
(* The theorems                                                             *)

LEMMA NextIInv ==
  ASSUME IInv, [Next]_vars
  PROVE  IInv'
<1>1. ASSUME NEW c \in Circuits, MarkForClose(c) \/ \E type \in Types : CreateCell(c, type)
      PROVE  IInv'
  BY <1>1, MarkForCloseKeeps, CreateCellKeeps
<1>2. CASE CloseBegin \/ ReplyEvent \/ MainLoops
  BY <1>2, MainLoopKeeps, CloseOneKeeps, ReplyKeeps, QueueTaskKeeps DEF MainLoops
<1>3. ASSUME NEW t \in Threads, Worker(t) PROVE IInv'
  BY <1>3, TakeWorkKeeps, WaitKeeps, QueueReplyKeeps, AlertKeeps DEF Worker
<1>4. CASE UNCHANGED vars
  <2>1. UNCHANGED <<circ, ol_list, ol_entries, recently_chosen_ntors, ntors_ahead,
                    total_pending_tasks, work, thread, answers, alert, main>>
    BY <1>4 DEF vars
  <2>2. AnswersAreHeard' /\ alert' \in BOOLEAN
        /\ main' \in {"loop", "replies", "queueing", "closing"}
    BY <2>1 DEF IInv, AnswersAreHeard, MainTypes
  <2> QED BY <2>1, <2>2, MainGoesOn
<1> QED BY <1>1, <1>2, <1>3, <1>4 DEF Next

\* The invariant of the relay's handshakes.
THEOREM InvariantHolds == Spec => []IInv
<1>1. Init => IInv
  BY InitIInv
<1>2. IInv /\ [Next]_vars => IInv'
  BY NextIInv
<1> QED BY <1>1, <1>2, PTL DEF Spec

\* However close, handshake and reply interleave, the job of a thread names a
\* circuit whose memory was not given back, and no memory is kept without a
\* reply to come (circuit_free_, cpuworker_onion_handshake_replyfn).
THEOREM JobsAreSafe == Spec => []JobsPointToMemory
<1>1. IInv => JobsPointToMemory
  <2> SUFFICES ASSUME IInv, NEW c \in Circuits
               PROVE  Outstanding(c) = IF HasJob(c) THEN 1 ELSE 0
    BY DEF JobsPointToMemory, IInv, JobsKnown
  <2>1. InWork(c) = IF In(c, work) THEN 1 ELSE 0
    BY OccursOnce DEF InWork, IInv, PoolTypes, OnePlace
  <2>2. InAnswers(c) = IF In(c, answers) THEN 1 ELSE 0
    BY OccursOnce DEF InAnswers, IInv, PoolTypes, OnePlace
  <2>3. Running(c) = IF RunsFor(c) THEN 1 ELSE 0
    <3> DEFINE T == {t \in Threads : thread[t].at = "running" /\ thread[t].circ = c}
    <3>1. CASE RunsFor(c)
      <4>1. PICK t \in RunningThreads : thread[t].circ = c
        BY <3>1 DEF RunsFor
      <4>2. T = {t}
        BY <4>1 DEF IInv, OnePlace, RunningThreads
      <4> QED BY <3>1, <4>2, FS_Singleton DEF Running
    <3>2. CASE ~RunsFor(c)
      <4>1. T = {}
        BY <3>2 DEF RunsFor, RunningThreads
      <4> QED BY <3>2, <4>1, FS_EmptySet DEF Running
    <3> QED BY <3>1, <3>2
  <2> QED BY <2>1, <2>2, <2>3 DEF Outstanding, HasJob, IInv, OnePlace
<1> QED BY <1>1, InvariantHolds, PTL

\* Every circuit that waits for its handshake is in one queue, once, or with
\* the pool (onion_pending_add, onion_next_task, onion_pending_remove).
THEOREM NoneIsForgotten == Spec => []NoCircuitForgotten
<1>1. IInv => NoCircuitForgotten
  <2> SUFFICES ASSUME IInv, NEW c \in Circuits
               PROVE  /\ Cardinality({i \in 1..Len(ol_list["TAP"]) : ol_list["TAP"][i] = c})
                          + Cardinality({i \in 1..Len(ol_list["NTOR"]) : ol_list["NTOR"][i] = c})
                          = IF circ[c].entry THEN 1 ELSE 0
                      /\ circ[c].entry => circ[c].mem = "live" /\ ~circ[c].job
                      /\ circ[c].mem = "live" /\ ~circ[c].marked
                           /\ circ[c].state = "ONIONSKIN_PENDING" => circ[c].entry # circ[c].job
    BY DEF NoCircuitForgotten
  <2>1. \A q \in Types : Cardinality({i \in 1..Len(ol_list[q]) : ol_list[q][i] = c})
                         = IF In(c, ol_list[q]) THEN 1 ELSE 0
    BY OccursOnce DEF IInv, QueueTypes, QueuesKnown
  <2>2. circ[c].entry <=> (In(c, ol_list["TAP"]) \/ In(c, ol_list["NTOR"]))
    BY DEF IInv, QueuesKnown, Queued, Types
  <2>3. ~(In(c, ol_list["TAP"]) /\ In(c, ol_list["NTOR"]))
    BY DEF IInv, QueuesKnown
  <2>4. "TAP" \in Types /\ "NTOR" \in Types
    BY DEF Types
  <2>5. NotForgotten(circ[c]) /\ circ[c] \in Circuit
    BY DEF IInv, QueuesKnown, QueueTypes
  <2>6. circ[c].entry \in BOOLEAN /\ circ[c].job \in BOOLEAN
    BY <2>5 DEF Circuit
  <2> QED BY <2>1, <2>2, <2>3, <2>4, <2>5, <2>6 DEF NotForgotten
<1> QED BY <1>1, InvariantHolds, PTL

\* ol_entries and total_pending_tasks count what they say, whoever wins the
\* race between workqueue_entry_cancel and a thread that takes the job.
THEOREM CountersTrue == Spec => []CountersAreTrue
<1>1. IInv => CountersAreTrue
  BY DEF IInv, EntriesCounted, TasksCounted, RunningThreads, CountersAreTrue
<1> QED BY <1>1, InvariantHolds, PTL

\* No answer waits while the main thread does not know (queue_reply,
\* replyqueue_process).
THEOREM NoLostWakeup == Spec => []AnswersAreHeard
<1>1. IInv => AnswersAreHeard
  BY DEF IInv
<1> QED BY <1>1, InvariantHolds, PTL

\* No job waits while every thread sleeps (threadpool_queue_work,
\* worker_thread_main).
THEOREM NoLostSignal == Spec => []WorkIsSeen
<1>1. IInv => WorkIsSeen
  BY DEF IInv
<1> QED BY <1>1, InvariantHolds, PTL

\* At most num_ntors_per_tap ntors go ahead of a TAP that waits
\* (decide_next_handshake_type).
THEOREM TapGetsItsTurn == Spec => []TapNotStarved
<1>1. IInv => TapNotStarved
  BY DEF IInv, NtorsCounted, TapNotStarved
<1> QED BY <1>1, InvariantHolds, PTL
=============================================================================

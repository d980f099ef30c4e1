-------------------------- MODULE FairSched_proofs --------------------------
(***************************************************************************)
(* The process table of xv6, for any number of processes, channels, nice   *)
(* values and weights: no wakeup of a parent in wait is lost, and every    *)
(* child has a parent that is alive, so that no zombie stays for good; run *)
(* times do not overflow, and room made for one keeps their order.         *)
(*                                                                         *)
(* NoLostWakeup is not inductive.  It needs to know that a slot which is   *)
(* free or being filled has no parent (FreeSlots), else a fork could take  *)
(* the only child of a sleeping parent away; that the slots being filled   *)
(* belong to one fork each (Forks); and that only the process on the CPU   *)
(* is RUNNING.  Run times play no part in it.                              *)
(*                                                                         *)
(* Run times stay in the range of an int and keep their order (Ranges,     *)
(* OrderStays).  wakeup1 and the sum of the weights are loops over the     *)
(* table: LoopResult shows that such a loop has a result and Rounds what   *)
(* it keeps.                                                               *)
(***************************************************************************)
EXTENDS FairSched, WellFoundedInduction, TLAPS

LEMMA Sizes == NPROC \in Nat \ {0} /\ NCHAN \in Nat \ {0}
  BY SchedAssumption DEF SchedAssumption

-----------------------------------------------------------------------------
\* Loops over the process table.
LEMMA LeastNat ==
    ASSUME NEW T \in SUBSET Nat, T # {}
    PROVE  \E m \in T : \A k \in T : m <= k
  <1>1. PICK m \in T : \A k \in T : ~(<<k, m>> \in OpToRel(<, Nat))
    <2> DEFINE less == OpToRel(<, Nat)
    <2>1. IsWellFoundedOn(less, Nat)
      BY NatLessThanWellFounded
    <2> HIDE DEF less
    <2> QED BY <2>1, WFMin DEF less
  <1>2. \A k \in T : ~(k < m)
    BY <1>1 DEF OpToRel
  <1> QED BY <1>2

\* What holds before a loop and is kept by each round holds after every round.
LEMMA Rounds ==
    ASSUME NEW n \in Nat, NEW good, 0 \in good,
           \A i \in 1 .. n : i - 1 \in good => i \in good
    PROVE  \A i \in 0 .. n : i \in good
  <1> DEFINE bad == {i \in 0 .. n : i \notin good}
  <1> SUFFICES ASSUME bad # {} PROVE FALSE
    OBVIOUS
  <1>0. bad \in SUBSET Nat
    OBVIOUS
  <1>1. PICK m \in bad : \A k \in bad : m <= k
    <2> HIDE DEF bad
    <2> QED BY <1>0, LeastNat
  <1>2. m \in 1 .. n
    BY <1>1
  <1>3. m - 1 \in 0 .. n
    BY <1>2
  <1> QED BY <1>1, <1>2, <1>3

\* A loop over the first n slots, that starts from base, computes f.
IsLoop(f, n, base, round) ==
    f[0] = base /\ \A i \in 1 .. n : f[i] = round[i][f[i - 1]]

\* Every loop computes something, whatever it does in a round.
LEMMA LoopResult ==
    ASSUME NEW n \in Nat, NEW S, NEW base \in S, NEW round \in [1 .. n -> [S -> S]]
    PROVE  \E f \in [0 .. n -> S] : IsLoop(f, n, base, round)
  <1> DEFINE good == {k \in 0 .. n : \E f \in [0 .. n -> S] : IsLoop(f, k, base, round)}
  <1>1. 0 \in good
    <2> DEFINE f == [i \in 0 .. n |-> base]
    <2>1. f \in [0 .. n -> S] /\ f[0] = base
      OBVIOUS
    <2> HIDE DEF f
    <2>2. IsLoop(f, 0, base, round)
      BY <2>1 DEF IsLoop
    <2> QED BY <2>1, <2>2
  <1>2. ASSUME NEW k \in 1 .. n, k - 1 \in good PROVE k \in good
    <2>1. PICK f \in [0 .. n -> S] : IsLoop(f, k - 1, base, round)
      BY <1>2
    <2> DEFINE v == round[k][f[k - 1]]
               g == [f EXCEPT ![k] = v]
    <2>2. k \in 0 .. n /\ k - 1 \in 0 .. n /\ k - 1 # k
      OBVIOUS
    <2>3. v \in S
      BY <2>2
    <2>4. g \in [0 .. n -> S] /\ g[k] = v /\ \A i \in 0 .. n : i # k => g[i] = f[i]
      BY <2>2, <2>3
    <2>5. g[0] = base
      BY <2>1, <2>4 DEF IsLoop
    <2>6. ASSUME NEW i \in 1 .. k PROVE g[i] = round[i][g[i - 1]]
      <3>1. CASE i = k
        BY <2>2, <2>4, <3>1
      <3>2. CASE i # k
        <4>1. i \in 1 .. k - 1 /\ i \in 0 .. n /\ i - 1 \in 0 .. n /\ i - 1 # k
          BY <3>2
        <4> HIDE DEF g
        <4> QED BY <2>1, <2>4, <4>1, <3>2 DEF IsLoop
      <3> QED BY <3>1, <3>2
    <2> HIDE DEF g
    <2>7. IsLoop(g, k, base, round)
      BY <2>5, <2>6 DEF IsLoop
    <2> QED BY <2>2, <2>4, <2>7
  <1> HIDE DEF good
  <1>3. \A k \in 0 .. n : k \in good
    BY <1>1, <1>2, Rounds
  <1>4. n \in good
    BY <1>3
  <1> QED BY <1>4 DEF good

\* A sum over the table is at least each of its terms.
LEMMA TotalWeight ==
    ASSUME NEW p \in Runnable, priority \in [Procs -> Nice]
    PROVE  total_weight \in Nat /\ total_weight >= Weight[priority[p]]
  <1> DEFINE w(q) == IF q \in Runnable THEN Weight[priority[q]] ELSE 0
             IsSum(f) == f = [q \in 0 .. NPROC |->
                 IF q = 0 THEN 0
                 ELSE f[q - 1] + (IF q \in Runnable THEN Weight[priority[q]] ELSE 0)]
             ret == CHOOSE f : IsSum(f)
  <1>1. \A q \in Procs : w(q) \in Nat
    BY SchedAssumption DEF SchedAssumption
  <1>2. \E f : IsSum(f)
    <2> DEFINE round == [q \in 1 .. NPROC |-> [s \in Nat |-> s + w(q)]]
    <2>1. round \in [1 .. NPROC -> [Nat -> Nat]]
      BY <1>1 DEF Procs
    <2> HIDE DEF round
    <2>2. PICK f \in [0 .. NPROC -> Nat] : IsLoop(f, NPROC, 0, round)
      BY <2>1, LoopResult, Sizes
    <2>3. \A q \in 1 .. NPROC : f[q] = f[q - 1] + w(q)
      <3> TAKE q \in 1 .. NPROC
      <3>1. f[q - 1] \in Nat
        BY Sizes
      <3> QED BY <2>2, <3>1 DEF round, IsLoop
    <2>4. \A q \in 0 .. NPROC : f[q] = IF q = 0 THEN 0 ELSE f[q - 1] + w(q)
      BY <2>2, <2>3, Sizes DEF IsLoop
    <2>5. IsSum(f)
      BY <2>4
    <2> QED BY <2>5
  <1>3. ret = [q \in 0 .. NPROC |->
                 IF q = 0 THEN 0
                 ELSE ret[q - 1] + (IF q \in Runnable THEN Weight[priority[q]] ELSE 0)]
    BY <1>2
  <1>4. total_weight = ret[NPROC]
    BY DEF total_weight
  <1> HIDE DEF ret
  <1>5. ret[0] = 0 /\ \A q \in 1 .. NPROC : ret[q] = ret[q - 1] + w(q)
    BY <1>3, Sizes
  <1> DEFINE good == {q \in 0 .. NPROC : ret[q] \in Nat /\ (q >= p => ret[q] >= w(p))}
  <1>6. p \in 1 .. NPROC
    BY DEF Runnable, Procs
  <1>7. 0 \in good
    BY <1>5, <1>6, Sizes
  <1>8. ASSUME NEW q \in 1 .. NPROC, q - 1 \in good PROVE q \in good
    <2>1. ret[q] = ret[q - 1] + w(q) /\ w(q) \in Nat /\ w(p) \in Nat /\ ret[q - 1] \in Nat
      BY <1>1, <1>5, <1>6, <1>8 DEF Procs
    <2>2. q - 1 >= p => ret[q - 1] >= w(p)
      BY <1>8
    <2> HIDE DEF w
    <2>3. ret[q] \in Nat /\ ret[q] >= w(q)
      BY <2>1
    <2>4. CASE q = p
      BY <2>3, <2>4
    <2>5. CASE q # p
      <3>1. q >= p => q - 1 >= p
        BY <1>6, <2>5
      <3> QED BY <2>1, <2>2, <3>1
    <2> QED BY <2>3, <2>4, <2>5
  <1> HIDE DEF good
  <1>9. \A q \in 0 .. NPROC : q \in good
    BY <1>7, <1>8, Rounds, Sizes
  <1> QED BY <1>4, <1>6, <1>9, Sizes DEF good

-----------------------------------------------------------------------------
\* The arithmetic of virtual run times stays in the range of an int.
RunTimes == MINIMUM_INT .. MAXIMUM_INT

LEMMA IntFacts ==
    /\ MAXIMUM_INT \in Nat \ {0} /\ MINIMUM_INT = -MAXIMUM_INT - 1 /\ MINIMUM_INT \in Int
    /\ UNIT \in Nat \ {0} /\ SHIFT \in Nat \ {0} /\ SHIFT <= MAXIMUM_INT - MINIMUM_INT
    /\ 0 \in RunTimes
  BY SchedAssumption DEF SchedAssumption, MINIMUM_INT, RunTimes

\* What a tick costs, and what a process that wakes up is given.
LEMMA TickFacts ==
    ASSUME NEW nice \in Nice
    PROVE  /\ Weight[nice] \in Nat \ {0}
           /\ CeilDiv(UNIT, Weight[nice]) \in Nat /\ CeilDiv(UNIT, Weight[nice]) <= SHIFT
           /\ UNIT \div Weight[nice] \in Nat
  <1>1. Weight[nice] \in 1 .. UNIT /\ UNIT \in Nat \ {0}
    BY SchedAssumption DEF SchedAssumption
  <1>2. CeilDiv(UNIT, Weight[nice]) <= SHIFT
    BY SchedAssumption DEF SchedAssumption
  <1> QED BY <1>1, <1>2 DEF CeilDiv

LEMMA MinFacts ==
    ASSUME NEW T \in SUBSET RunTimes, T # {}
    PROVE  Min(T) \in T /\ \A t \in T : Min(T) <= t
  <1> DEFINE above == {t - MINIMUM_INT : t \in T}
  <1>1. above \in SUBSET Nat /\ above # {}
    <2>1. \A t \in T : t - MINIMUM_INT \in Nat
      BY IntFacts DEF RunTimes
    <2>2. PICK t \in T : TRUE
      OBVIOUS
    <2>3. t - MINIMUM_INT \in above
      OBVIOUS
    <2>4. above \in SUBSET Nat
      BY <2>1
    <2> QED BY <2>3, <2>4
  <1>2. PICK a \in above : \A k \in above : a <= k
    <2> HIDE DEF above
    <2> QED BY <1>1, LeastNat
  <1>3. PICK m \in T : a = m - MINIMUM_INT
    BY <1>2
  <1>4. \A t \in T : m - MINIMUM_INT <= t - MINIMUM_INT
    BY <1>2, <1>3
  <1>5. \A t \in T : m <= t
    BY <1>4, IntFacts DEF RunTimes
  <1> QED BY <1>5 DEF Min

Slots == [ready : SUBSET Procs, vr : [Procs -> RunTimes]]

\* A woken process is placed, whatever the others have run; they keep theirs.
LEMMA PlacedOneFacts ==
    ASSUME NEW s \in Slots, NEW p \in Procs, priority \in [Procs -> Nice]
    PROVE  /\ PlacedOne(s, p) \in Slots
           /\ \A q \in Procs : q # p => PlacedOne(s, p).vr[q] = s.vr[q]
  <1> DEFINE others == s.ready \ {p}
             least == Min({0} \cup {s.vr[q] : q \in others})
             tick == UNIT \div Weight[priority[p]]
             v == IF others = {} THEN 0 ELSE Plus(least, -tick, MINIMUM_INT)
  <1>1. s.ready \in SUBSET Procs /\ s.vr \in [Procs -> RunTimes]
    BY DEF Slots
  <1>2. least \in RunTimes /\ least <= 0
    <2> DEFINE T == {0} \cup {s.vr[q] : q \in others}
    <2>1. T \in SUBSET RunTimes /\ 0 \in T
      BY <1>1, IntFacts
    <2> HIDE DEF T
    <2>2. Min(T) \in T /\ Min(T) <= 0
      BY <2>1, MinFacts
    <2> QED BY <2>1, <2>2 DEF T
  <1>3. tick \in Nat
    BY TickFacts
  <1> HIDE DEF least, tick
  <1>4. Plus(least, -tick, MINIMUM_INT) \in RunTimes
    BY <1>2, <1>3, IntFacts DEF Plus, is_overflow, RunTimes
  <1>5. v \in RunTimes
    BY <1>4, IntFacts
  <1>6. PlacedOne(s, p) = [ready |-> s.ready \cup {p}, vr |-> [s.vr EXCEPT ![p] = v]]
    BY DEF PlacedOne, least, tick
  <1> HIDE DEF v
  <1> QED BY <1>1, <1>5, <1>6 DEF Slots

LEMMA PlacedFacts ==
    ASSUME NEW st \in [Procs -> States], NEW vr \in [Procs -> RunTimes], NEW c,
           priority \in [Procs -> Nice]
    PROVE  /\ Placed(st, vr, c) \in [Procs -> RunTimes]
           /\ \A q \in Procs : q \notin Sleepers(st, c) => Placed(st, vr, c)[q] = vr[q]
  <1> DEFINE base == [ready |-> Ready(st), vr |-> vr]
             Next1(s, p) == IF p \in Sleepers(st, c) THEN PlacedOne(s, p) ELSE s
             IsAfter(f) == f = [p \in 0 .. NPROC |->
                 IF p = 0 THEN [ready |-> Ready(st), vr |-> vr]
                 ELSE IF p \in Sleepers(st, c) THEN PlacedOne(f[p - 1], p)
                 ELSE f[p - 1]]
             after == CHOOSE f : IsAfter(f)
  <1>1. base \in Slots
    BY DEF Slots, Ready
  <1>2. ASSUME NEW s \in Slots, NEW p \in Procs PROVE Next1(s, p) \in Slots
    BY PlacedOneFacts
  <1>3. \E f : IsAfter(f)
    <2> DEFINE round == [p \in 1 .. NPROC |-> [s \in Slots |-> Next1(s, p)]]
    <2>1. round \in [1 .. NPROC -> [Slots -> Slots]]
      <3> HIDE DEF Next1
      <3> QED BY <1>2 DEF Procs
    <2> HIDE DEF round, base
    <2>2. PICK f \in [0 .. NPROC -> Slots] : IsLoop(f, NPROC, base, round)
      BY <1>1, <2>1, LoopResult, Sizes
    <2>3. \A p \in 1 .. NPROC : f[p] = Next1(f[p - 1], p)
      <3> TAKE p \in 1 .. NPROC
      <3>1. f[p - 1] \in Slots
        BY Sizes
      <3> HIDE DEF Next1
      <3> QED BY <2>2, <3>1 DEF round, IsLoop
    <2>4. \A p \in 0 .. NPROC : f[p] = IF p = 0 THEN base ELSE Next1(f[p - 1], p)
      <3> HIDE DEF Next1
      <3> QED BY <2>2, <2>3, Sizes DEF IsLoop
    <2>5. IsAfter(f)
      BY <2>4 DEF base
    <2> QED BY <2>5
  <1>4. after = [p \in 0 .. NPROC |->
                 IF p = 0 THEN [ready |-> Ready(st), vr |-> vr]
                 ELSE IF p \in Sleepers(st, c) THEN PlacedOne(after[p - 1], p)
                 ELSE after[p - 1]]
    BY <1>3
  <1>5. Placed(st, vr, c) = after[NPROC].vr
    BY DEF Placed
  <1> HIDE DEF after
  <1>6. after[0] = base /\ \A p \in 1 .. NPROC : after[p] = Next1(after[p - 1], p)
    BY <1>4, Sizes
  <1> DEFINE good == {p \in 0 .. NPROC : /\ after[p] \in Slots
                        /\ \A q \in Procs : q \notin Sleepers(st, c) => after[p].vr[q] = vr[q]}
  <1>7. 0 \in good
    BY <1>1, <1>6, Sizes
  <1>8. ASSUME NEW p \in 1 .. NPROC, p - 1 \in good PROVE p \in good
    <2>1. p \in Procs /\ after[p] = Next1(after[p - 1], p) /\ after[p - 1] \in Slots
      BY <1>6, <1>8 DEF Procs
    <2>2. \A q \in Procs : q \notin Sleepers(st, c) => after[p - 1].vr[q] = vr[q]
      BY <1>8
    <2>3. after[p] \in Slots
      BY <1>2, <2>1
    <2>4. \A q \in Procs : q \notin Sleepers(st, c) => after[p].vr[q] = vr[q]
      <3>1. CASE p \in Sleepers(st, c)
        <4>1. \A q \in Procs : q # p => after[p].vr[q] = after[p - 1].vr[q]
          <5> DEFINE s == after[p - 1]
          <5>1. s \in Slots /\ p \in Procs /\ after[p] = PlacedOne(s, p)
            BY <2>1, <3>1
          <5> HIDE DEF s
          <5>2. \A q \in Procs : q # p => PlacedOne(s, p).vr[q] = s.vr[q]
            BY <5>1, PlacedOneFacts
          <5> QED BY <5>1, <5>2 DEF s
        <4> QED BY <2>2, <3>1, <4>1
      <3>2. CASE p \notin Sleepers(st, c)
        BY <2>1, <2>2, <3>2
      <3> QED BY <3>1, <3>2
    <2> QED BY <2>3, <2>4
  <1> HIDE DEF good
  <1>9. \A p \in 0 .. NPROC : p \in good
    BY <1>7, <1>8, Rounds, Sizes
  <1>10. NPROC \in good
    BY <1>9, Sizes
  <1> QED BY <1>5, <1>10 DEF good, Slots

-----------------------------------------------------------------------------
\* The process table.
Living == {"RUNNABLE", "RUNNING", "SLEEPING"}

\* exit hands its children to init, which never exits: whoever has a parent
\* has one that is alive and can still wait for it (proc.c:273-279).
ParentsAlive ==
    /\ state[initproc] \in Living
    /\ \A p \in Procs : parent[p] # 0 => state[parent[p]] \in Living

TableTypes ==
    /\ state \in [Procs -> States]
    /\ chan \in [Procs -> {0} \cup Procs \cup Chans]
    /\ parent \in [Procs -> {0} \cup Procs]
    /\ np \in [Procs -> {0} \cup Procs]
    /\ proc \in {0} \cup Procs
OneRuns   == \A p \in Procs : state[p] = "RUNNING" <=> proc = p
FreeSlots == \A p \in Procs : state[p] \in {"UNUSED", "EMBRYO"} => parent[p] = 0
Forks ==
    \A p \in Procs : np[p] # 0 =>
        /\ state[np[p]] = "EMBRYO"
        /\ \A q \in Procs : np[q] = np[p] => q = p

Family == parent[initproc] = 0 /\ \A p \in Procs : parent[p] # p

TableInv == TableTypes /\ OneRuns /\ FreeSlots /\ Forks /\ Family

IInv == TableInv /\ NoLostWakeup /\ ParentsAlive

-----------------------------------------------------------------------------
\* Channels of sleep are apart from those of wait.
LEMMA ChanFacts ==
    /\ initproc \in Procs /\ 0 \notin Procs
    /\ ticks \in Chans
    /\ \A c \in Chans : c \notin Procs /\ c # 0
  BY Sizes DEF Procs, Chans, ticks, initproc

\* wakeup1 makes the sleepers of its channel runnable and nobody else.
LEMMA AwakeFacts ==
    ASSUME NEW st \in [Procs -> States], NEW c
    PROVE  /\ Awake(st, c) \in [Procs -> States]
           /\ \A p \in Procs :
                Awake(st, c)[p] = IF st[p] = "SLEEPING" /\ chan[p] = c THEN "RUNNABLE" ELSE st[p]
  BY DEF Awake, Sleepers, States

LEMMA ForgottenFacts ==
    ASSUME NEW c
    PROVE  \A p \in Procs :
             Forgotten(c)[p] = IF state[p] = "SLEEPING" /\ chan[p] = c THEN 0 ELSE chan[p]
  BY DEF Forgotten, Sleepers

-----------------------------------------------------------------------------
\* A step that changes no parent and creates no zombie, sleeper or free slot
\* keeps the invariant.
LEMMA QuietStep ==
    ASSUME IInv, TableTypes', OneRuns', UNCHANGED <<parent, np>>,
           \A p \in Procs : \/ state'[p] = state[p]
                            \/ state[p] \in Living /\ state'[p] \in {"RUNNABLE", "RUNNING"},
           \A p \in Procs : state'[p] = "SLEEPING" => chan'[p] = chan[p]
    PROVE  IInv'
  <1>0. Family'
    BY DEF IInv, TableInv, Family
  <1>1. FreeSlots'
    BY DEF IInv, TableInv, FreeSlots, Living
  <1>2. Forks'
    BY DEF IInv, TableInv, Forks, TableTypes, Living
  <1>3. ParentsAlive'
    BY ChanFacts DEF IInv, TableInv, ParentsAlive, TableTypes, Living
  <1>4. NoLostWakeup'
    <2> SUFFICES ASSUME NEW p \in Procs, state'[p] = "SLEEPING", chan'[p] = p
                 PROVE  /\ Children(p)' # {}
                        /\ \A q \in Children(p)' : state'[q] # "ZOMBIE"
      BY DEF NoLostWakeup
    <2>1. state[p] = "SLEEPING" /\ chan[p] = p /\ Children(p)' = Children(p)
      BY DEF Children
    <2>2. Children(p) # {} /\ \A q \in Children(p) : state[q] # "ZOMBIE"
      BY <2>1 DEF IInv, NoLostWakeup
    <2>3. \A q \in Children(p) : q \in Procs
      BY DEF Children
    <2> QED BY <2>1, <2>2, <2>3
  <1> QED BY <1>0, <1>1, <1>2, <1>3, <1>4 DEF IInv, TableInv

\* Steps that only let processes run, or wake them up.
LEMMA SwitchInv == ASSUME IInv, Switch PROVE IInv'
  <1>1. PICK p \in Procs : /\ proc = 0 /\ state[p] = "RUNNABLE"
                           /\ state' = [state EXCEPT ![p] = "RUNNING"]
                           /\ chan' = [chan EXCEPT ![p] = 0]
                           /\ proc' = p
                           /\ UNCHANGED <<parent, np>>
    BY DEF Switch, Runnable
  <1>2. TableTypes'
    BY <1>1 DEF IInv, TableInv, TableTypes, States
  <1>3. OneRuns'
    BY <1>1, ChanFacts DEF IInv, TableInv, TableTypes, OneRuns
  <1>4. \A q \in Procs : /\ state'[q] = IF q = p THEN "RUNNING" ELSE state[q]
                         /\ state'[q] = "SLEEPING" => chan'[q] = chan[q]
    BY <1>1 DEF IInv, TableInv, TableTypes
  <1> QED BY <1>1, <1>2, <1>3, <1>4, QuietStep DEF Living

LEMMA RestartInv == ASSUME IInv, Restart PROVE IInv'
  BY DEF Restart, ptable, IInv, TableInv, TableTypes, OneRuns, FreeSlots, Forks, Family,
     NoLostWakeup, ParentsAlive, Children

\* Awake on a channel of sleep, with the process on the CPU left there or not.
LEMMA WakeStep ==
    ASSUME IInv, NEW c, NEW st \in [Procs -> States], UNCHANGED <<parent, np>>,
           state' = st, chan' = Forgotten(c), proc' \in {0, proc},
           \A p \in Procs : st[p] = IF p = proc /\ proc' = 0 THEN "RUNNABLE"
                                    ELSE Awake(state, c)[p]
    PROVE  IInv'
  <1>1. \A p \in Procs :
           /\ state[p] \in States /\ (state[p] = "RUNNING" <=> p = proc)
           /\ Awake(state, c)[p] = IF state[p] = "SLEEPING" /\ chan[p] = c THEN "RUNNABLE" ELSE state[p]
           /\ chan'[p] = IF state[p] = "SLEEPING" /\ chan[p] = c THEN 0 ELSE chan[p]
    BY AwakeFacts, ForgottenFacts DEF IInv, TableInv, TableTypes, OneRuns
  <1>2. TableTypes'
    <2>1. Forgotten(c) \in [Procs -> {0} \cup Procs \cup Chans]
      BY DEF Forgotten, IInv, TableInv, TableTypes
    <2> QED BY <2>1 DEF IInv, TableInv, TableTypes
  <1>3. OneRuns'
    BY <1>1, ChanFacts DEF OneRuns
  <1>4. \A p \in Procs : /\ \/ state'[p] = state[p]
                            \/ state[p] \in Living /\ state'[p] \in {"RUNNABLE", "RUNNING"}
                         /\ state'[p] = "SLEEPING" => chan'[p] = chan[p]
    BY <1>1 DEF Living
  <1> QED BY <1>2, <1>3, <1>4, QuietStep

LEMMA TickInv == ASSUME IInv, Tick PROVE IInv'
  <1>1. /\ state \in [Procs -> States] /\ proc \in {0} \cup Procs
        /\ chan' = Forgotten(ticks) /\ UNCHANGED <<parent, np>>
    BY DEF Tick, IInv, TableInv, TableTypes
  <1>2. Awake(state, ticks) \in [Procs -> States]
    BY <1>1, AwakeFacts
  <1>3. CASE state' = Awake(state, ticks) /\ proc' = proc
    <2>1. \A p \in Procs : ~(p = proc /\ proc' = 0)
      BY <1>3, ChanFacts
    <2> QED BY <1>1, <1>2, <1>3, <2>1, WakeStep
  <1>4. CASE proc # 0 /\ state' = [Awake(state, ticks) EXCEPT ![proc] = "RUNNABLE"] /\ proc' = 0
    <2>1. proc \in Procs
      BY <1>1, <1>4
    <2>2. state' \in [Procs -> States]
      BY <1>2, <1>4 DEF States
    <2>3. \A p \in Procs : state'[p] = IF p = proc /\ proc' = 0 THEN "RUNNABLE"
                                       ELSE Awake(state, ticks)[p]
      BY <1>2, <1>4, <2>1
    <2> QED BY <1>1, <1>4, <2>2, <2>3, WakeStep
  <1> QED BY <1>3, <1>4 DEF Tick, Leaves

LEMMA WakeupInv == ASSUME IInv, NEW c \in Chans, Wakeup(c) PROVE IInv'
  <1>1. /\ state \in [Procs -> States] /\ state' = Awake(state, c) /\ proc' = proc
        /\ chan' = Forgotten(c) /\ UNCHANGED <<parent, np>>
    BY DEF Wakeup, cpu, IInv, TableInv, TableTypes
  <1>2. Awake(state, c) \in [Procs -> States]
    BY <1>1, AwakeFacts
  <1>3. \A p \in Procs : ~(p = proc /\ proc' = 0)
    BY <1>1, ChanFacts
  <1> QED BY <1>1, <1>2, <1>3, WakeStep

LEMMA KillInv == ASSUME IInv, NEW p \in Procs, NEW q \in Procs, Kill(p, q) PROVE IInv'
  <1>1. /\ state \in [Procs -> States] /\ chan \in [Procs -> {0} \cup Procs \cup Chans]
        /\ state' = IF state[q] = "SLEEPING" THEN [state EXCEPT ![q] = "RUNNABLE"] ELSE state
        /\ chan' = IF chan[q] \in Chans THEN [chan EXCEPT ![q] = 0] ELSE chan
        /\ proc' = proc /\ UNCHANGED <<parent, np>>
    BY DEF Kill, cpu, IInv, TableInv, TableTypes
  <1>2. TableTypes'
    BY <1>1 DEF IInv, TableInv, TableTypes, States
  <1>3. OneRuns'
    BY <1>1 DEF IInv, TableInv, OneRuns
  <1>4. \A r \in Procs : /\ \/ state'[r] = state[r]
                            \/ state[r] \in Living /\ state'[r] \in {"RUNNABLE", "RUNNING"}
                         /\ state'[r] = "SLEEPING" => chan'[r] = chan[r]
    BY <1>1 DEF Living
  <1> QED BY <1>1, <1>2, <1>3, <1>4, QuietStep

LEMMA setniceInv ==
    ASSUME IInv, NEW p \in Procs, NEW q \in Procs, NEW nice, setnice(p, q, nice) PROVE IInv'
  BY DEF setnice, cpu, IInv, TableInv, TableTypes, OneRuns, FreeSlots, Forks, Family,
     NoLostWakeup, ParentsAlive, Children

-----------------------------------------------------------------------------
\* Steps that make a sleeper, a child or a free slot.
LEMMA SleepInv == ASSUME IInv, NEW p \in Procs, NEW c \in Chans, Sleep(p, c) PROVE IInv'
  <1>1. /\ proc = p /\ state[p] = "RUNNING" /\ proc' = 0
        /\ state' = [state EXCEPT ![p] = "SLEEPING"]
        /\ chan' = [chan EXCEPT ![p] = c]
        /\ UNCHANGED <<parent, np>>
    BY DEF Sleep, InCall, Leaves, IInv, TableInv, OneRuns
  <1>2. /\ state \in [Procs -> States] /\ chan \in [Procs -> {0} \cup Procs \cup Chans]
        /\ \A q \in Procs : /\ state'[q] = IF q = p THEN "SLEEPING" ELSE state[q]
                            /\ chan'[q] = IF q = p THEN c ELSE chan[q]
    BY <1>1 DEF IInv, TableInv, TableTypes
  <1>3. TableTypes'
    BY <1>1, <1>2 DEF IInv, TableInv, TableTypes, States
  <1>4. OneRuns'
    BY <1>1, <1>2, ChanFacts DEF IInv, TableInv, OneRuns
  <1>5. FreeSlots'
    BY <1>1, <1>2 DEF IInv, TableInv, FreeSlots
  <1>6. Forks'
    BY <1>1, <1>2 DEF IInv, TableInv, Forks, TableTypes
  <1>0. Family'
    BY <1>1 DEF IInv, TableInv, Family
  <1>7. ParentsAlive'
    BY <1>1, <1>2, ChanFacts DEF IInv, TableInv, TableTypes, ParentsAlive, Living
  <1>8. NoLostWakeup'
    <2> SUFFICES ASSUME NEW r \in Procs, state'[r] = "SLEEPING", chan'[r] = r
                 PROVE  Children(r)' # {} /\ \A q \in Children(r)' : state'[q] # "ZOMBIE"
      BY DEF NoLostWakeup
    <2>1. r # p
      BY <1>2, ChanFacts
    <2>2. state[r] = "SLEEPING" /\ chan[r] = r /\ Children(r)' = Children(r)
      BY <1>1, <1>2, <2>1 DEF Children
    <2>3. Children(r) # {} /\ \A q \in Children(r) : q \in Procs /\ state[q] # "ZOMBIE"
      BY <2>2 DEF IInv, NoLostWakeup, Children
    <2> QED BY <1>2, <2>2, <2>3
  <1> QED BY <1>0, <1>3, <1>4, <1>5, <1>6, <1>7, <1>8 DEF IInv, TableInv

LEMMA allocprocInv == ASSUME IInv, NEW p \in Procs, allocproc(p) PROVE IInv'
  <1>1. PICK q \in Procs : /\ state[q] = "UNUSED" /\ proc = p /\ np[p] = 0
                           /\ state' = [state EXCEPT ![q] = "EMBRYO"]
                           /\ np' = [np EXCEPT ![p] = q]
                           /\ UNCHANGED <<chan, parent, proc>>
    BY DEF allocproc, FirstOf, Calls, InCall, cpu
  <1>2. /\ state \in [Procs -> States] /\ np \in [Procs -> {0} \cup Procs]
        /\ \A r \in Procs : /\ state'[r] = IF r = q THEN "EMBRYO" ELSE state[r]
                            /\ np'[r] = IF r = p THEN q ELSE np[r]
    BY <1>1 DEF IInv, TableInv, TableTypes
  <1>3. TableTypes'
    BY <1>1 DEF IInv, TableInv, TableTypes, States
  <1>4. OneRuns'
    BY <1>1, <1>2 DEF IInv, TableInv, OneRuns
  <1>5. FreeSlots'
    BY <1>1, <1>2 DEF IInv, TableInv, FreeSlots
  <1>6. Forks'
    <2>1. \A r \in Procs : np[r] # q
      BY <1>1, ChanFacts DEF IInv, TableInv, Forks
    <2> QED BY <1>1, <1>2, <2>1, ChanFacts DEF IInv, TableInv, Forks
  <1>0. Family'
    BY <1>1 DEF IInv, TableInv, Family
  <1>7. ParentsAlive'
    BY <1>1, <1>2, ChanFacts DEF IInv, TableInv, TableTypes, ParentsAlive, Living
  <1>8. NoLostWakeup'
    <2>1. \A r \in Procs : Children(r)' = Children(r)
      BY <1>1 DEF Children
    <2> QED BY <1>1, <1>2, <2>1 DEF IInv, NoLostWakeup, Children
  <1> QED BY <1>0, <1>3, <1>4, <1>5, <1>6, <1>7, <1>8 DEF IInv, TableInv

LEMMA ForkInv == ASSUME IInv, NEW p \in Procs, Fork(p) PROVE IInv'
  <1> DEFINE q == np[p]
  <1>1. /\ proc = p /\ state[p] = "RUNNING" /\ q \in Procs /\ state[q] = "EMBRYO" /\ parent[q] = 0
        /\ np' = [np EXCEPT ![p] = 0]
        /\ UNCHANGED <<chan, proc>>
    BY DEF Fork, cpu, IInv, TableInv, TableTypes, OneRuns, Forks, FreeSlots
  <1>2. \/ state' = [state EXCEPT ![q] = "UNUSED"] /\ parent' = parent
        \/ state' = [state EXCEPT ![q] = "RUNNABLE"] /\ parent' = [parent EXCEPT ![q] = p]
    BY DEF Fork
  <1>3. /\ state \in [Procs -> States] /\ np \in [Procs -> {0} \cup Procs]
        /\ parent \in [Procs -> {0} \cup Procs]
        /\ \A r \in Procs : /\ r # q => state'[r] = state[r] /\ parent'[r] = parent[r]
                            /\ np'[r] = IF r = p THEN 0 ELSE np[r]
        /\ \/ state'[q] = "UNUSED" /\ parent'[q] = 0
           \/ state'[q] = "RUNNABLE" /\ parent'[q] = p
    BY <1>1, <1>2 DEF IInv, TableInv, TableTypes
  <1> HIDE DEF q
  <1>4. TableTypes'
    BY <1>1, <1>2 DEF IInv, TableInv, TableTypes, States
  <1>5. OneRuns'
    BY <1>1, <1>3 DEF IInv, TableInv, OneRuns
  <1>6. FreeSlots'
    BY <1>1, <1>3 DEF IInv, TableInv, FreeSlots
  <1>7. Forks'
    <2>1. \A r \in Procs : r # p => np[r] # q
      <3>1. np[p] # 0
        BY <1>1, ChanFacts DEF q
      <3>2. \A r \in Procs : np[r] = np[p] => r = p
        BY <3>1 DEF IInv, TableInv, Forks
      <3> QED BY <3>2 DEF q
    <2> QED BY <1>1, <1>3, <2>1, ZenonT(60) DEF IInv, TableInv, Forks, TableTypes
  <1>0. Family'
    <2>1. initproc # q /\ p # q
      BY <1>1 DEF IInv, ParentsAlive, Living
    <2> QED BY <1>3, <2>1, ChanFacts DEF IInv, TableInv, Family
  <1>8. ParentsAlive'
    <2>1. \A r \in Procs : state[r] \in Living => state'[r] \in Living
      BY <1>1, <1>3 DEF Living
    <2>2. /\ state[initproc] \in Living /\ state[p] \in Living
          /\ \A r \in Procs : parent[r] # 0 => parent[r] \in Procs /\ state[parent[r]] \in Living
      BY <1>1, <1>3 DEF IInv, ParentsAlive, Living
    <2>3. \A r \in Procs : parent'[r] \in {parent[r], p, 0}
      BY <1>3
    <2> QED BY <2>1, <2>2, <2>3, ChanFacts DEF ParentsAlive
  <1>9. NoLostWakeup'
    <2> SUFFICES ASSUME NEW r \in Procs, state'[r] = "SLEEPING", chan'[r] = r
                 PROVE  Children(r)' # {} /\ \A s \in Children(r)' : state'[s] # "ZOMBIE"
      BY DEF NoLostWakeup
    <2>1. r # q /\ r # p /\ state[r] = "SLEEPING" /\ chan[r] = r
      BY <1>1, <1>3
    <2>2. Children(r)' = Children(r)
      BY <1>1, <1>3, <2>1, ChanFacts DEF Children
    <2>3. Children(r) # {} /\ \A s \in Children(r) : s \in Procs /\ state[s] # "ZOMBIE"
      BY <2>1 DEF IInv, NoLostWakeup, Children
    <2>4. q \notin Children(r)
      BY <1>1, ChanFacts DEF Children
    <2> QED BY <1>3, <2>2, <2>3, <2>4
  <1> QED BY <1>0, <1>4, <1>5, <1>6, <1>7, <1>8, <1>9 DEF IInv, TableInv

\* exit wakes the parent, and init if it hands init a zombie.
LEMMA ExitInv == ASSUME IInv, NEW p \in Procs, Exit(p) PROVE IInv'
  <1> DEFINE awake == Awake(state, parent[p])
             both  == Awake(awake, initproc)
             kids  == {q \in Procs : parent[q] = p}
             st    == IF \E q \in kids : state[q] = "ZOMBIE" THEN both ELSE awake
  <1>1. /\ proc = p /\ state[p] = "RUNNING" /\ np[p] = 0 /\ p # initproc
        /\ state' = [st EXCEPT ![p] = "ZOMBIE"] /\ proc' = 0
        /\ parent' = [q \in Procs |-> IF q \in kids THEN initproc ELSE parent[q]]
        /\ UNCHANGED <<chan, np>>
    <2>1. /\ proc = p /\ np[p] = 0 /\ p # initproc /\ proc' = 0
          /\ parent' = [q \in Procs |-> IF q \in kids THEN initproc ELSE parent[q]]
          /\ UNCHANGED <<chan, np>>
      BY DEF Exit, Leaves, Children
    <2>2. state' = [st EXCEPT ![p] = "ZOMBIE"]
      BY DEF Exit, OrphansToInit, Waiter, Children
    <2> QED BY <2>1, <2>2 DEF IInv, TableInv, OneRuns
  <1>2. /\ state \in [Procs -> States] /\ parent \in [Procs -> {0} \cup Procs]
        /\ np \in [Procs -> {0} \cup Procs]
    BY DEF IInv, TableInv, TableTypes
  <1>3. /\ awake \in [Procs -> States]
        /\ \A q \in Procs : awake[q] = IF state[q] = "SLEEPING" /\ chan[q] = parent[p]
                                      THEN "RUNNABLE" ELSE state[q]
    BY <1>2, AwakeFacts
  <1>4. /\ both \in [Procs -> States]
        /\ \A q \in Procs : both[q] = IF awake[q] = "SLEEPING" /\ chan[q] = initproc
                                     THEN "RUNNABLE" ELSE awake[q]
    BY <1>3, AwakeFacts
  <1> HIDE DEF awake, both
  <1>5. /\ st \in [Procs -> States]
        /\ \A q \in Procs : st[q] = state[q] \/ (state[q] = "SLEEPING" /\ st[q] = "RUNNABLE")
        /\ \A q \in Procs : st[q] = "SLEEPING" => chan[q] # parent[p]
        /\ st[initproc] = "SLEEPING" /\ chan[initproc] = initproc =>
              \A q \in kids : state[q] # "ZOMBIE"
    BY <1>3, <1>4, ChanFacts
  <1> HIDE DEF st
  <1>6. /\ state' \in [Procs -> States] /\ state'[p] = "ZOMBIE"
        /\ \A q \in Procs : q # p => state'[q] = st[q]
        /\ \A q \in Procs : parent'[q] = IF parent[q] = p THEN initproc ELSE parent[q]
    BY <1>1, <1>5 DEF States
  <1>7. TableTypes'
    <2>1. parent' \in [Procs -> {0} \cup Procs]
      BY <1>1, <1>2, ChanFacts
    <2> QED BY <1>1, <1>6, <2>1 DEF IInv, TableInv, TableTypes
  <1>8. OneRuns'
    <2>1. \A q \in Procs : state[q] = "RUNNING" <=> q = p
      BY <1>1 DEF IInv, TableInv, OneRuns
    <2> QED BY <1>1, <1>5, <1>6, <2>1, ChanFacts DEF OneRuns
  <1>9. FreeSlots'
    <2>1. \A q \in Procs : state'[q] \in {"UNUSED", "EMBRYO"} => state[q] = state'[q]
      BY <1>5, <1>6
    <2> QED BY <1>6, <2>1, ChanFacts DEF IInv, TableInv, FreeSlots
  <1>10. Forks'
    <2>1. \A q \in Procs : state[q] = "EMBRYO" => state'[q] = "EMBRYO"
      BY <1>1, <1>5, <1>6
    <2> QED BY <1>1, <1>2, <2>1 DEF IInv, TableInv, Forks
  <1>0. Family'
    <2>1. parent[initproc] = 0 /\ \A q \in Procs : parent[q] # q
      BY DEF IInv, TableInv, Family
    <2>2. \A q \in Procs : parent[q] = p => q # initproc
      BY <2>1, ChanFacts
    <2> QED BY <1>6, <2>1, <2>2, ChanFacts DEF Family
  <1>11. ParentsAlive'
    <2>1. \A q \in Procs : q # p /\ state[q] \in Living => state'[q] \in Living
      BY <1>5, <1>6 DEF Living
    <2>2. /\ state[initproc] \in Living /\ initproc # p
          /\ \A q \in Procs : parent[q] # 0 => parent[q] \in Procs /\ state[parent[q]] \in Living
      BY <1>1, <1>2 DEF IInv, ParentsAlive
    <2>3. \A q \in Procs : parent'[q] # 0 =>
             parent'[q] \in Procs /\ parent'[q] # p /\ state[parent'[q]] \in Living
      BY <1>6, <2>2, ChanFacts
    <2> QED BY <2>1, <2>2, <2>3, ChanFacts DEF ParentsAlive
  <1>12. NoLostWakeup'
    <2> SUFFICES ASSUME NEW r \in Procs, state'[r] = "SLEEPING", chan'[r] = r
                 PROVE  Children(r)' # {} /\ \A q \in Children(r)' : state'[q] # "ZOMBIE"
      BY DEF NoLostWakeup
    <2>1. r # p /\ st[r] = "SLEEPING" /\ state[r] = "SLEEPING" /\ chan[r] = r /\ parent[p] # r
      BY <1>1, <1>5, <1>6
    <2>2. Children(r) # {} /\ \A q \in Children(r) : q \in Procs /\ state[q] # "ZOMBIE"
      BY <2>1 DEF IInv, NoLostWakeup, Children
    <2>3. \A q \in Children(r) : q \in Children(r)'
      BY <1>6, <2>1 DEF Children
    <2>4. ASSUME NEW q \in Procs, parent'[q] = r
          PROVE  state'[q] # "ZOMBIE"
      <3>1. CASE parent[q] = r
        <4>1. q # p /\ state[q] # "ZOMBIE"
          BY <2>1, <2>2, <3>1 DEF Children
        <4> QED BY <1>5, <1>6, <4>1
      <3>2. CASE parent[q] # r
        <4>1. parent[q] = p /\ r = initproc
          BY <1>6, <2>4, <3>2
        <4>2. state[q] # "ZOMBIE" /\ q # p
          BY <1>5, <2>1, <4>1 DEF IInv, TableInv, Family, kids
        <4> QED BY <1>5, <1>6, <4>2
      <3> QED BY <3>1, <3>2
    <2> QED BY <2>2, <2>3, <2>4 DEF Children
  <1> QED BY <1>0, <1>7, <1>8, <1>9, <1>10, <1>11, <1>12 DEF IInv, TableInv

\* wait takes a zombie away, returns, or sleeps if there is a child and none
\* is a zombie.
LEMMA WaitInv == ASSUME IInv, NEW p \in Procs, Wait(p) PROVE IInv'
  <1> DEFINE zombies == {q \in Children(p) : state[q] = "ZOMBIE"}
  <1>1. /\ proc = p /\ state[p] = "RUNNING" /\ np' = np
        /\ state \in [Procs -> States] /\ parent \in [Procs -> {0} \cup Procs]
        /\ chan \in [Procs -> {0} \cup Procs \cup Chans] /\ np \in [Procs -> {0} \cup Procs]
    BY DEF Wait, Calls, InCall, IInv, TableInv, OneRuns, TableTypes
  <1>2. CASE \E q \in Procs : /\ FirstOf(q, zombies)
                              /\ state' = [state EXCEPT ![q] = "UNUSED"]
                              /\ parent' = [parent EXCEPT ![q] = 0]
                              /\ UNCHANGED <<chan, proc>>
    <2>1. PICK q \in Procs : /\ parent[q] = p /\ state[q] = "ZOMBIE"
                             /\ state' = [state EXCEPT ![q] = "UNUSED"]
                             /\ parent' = [parent EXCEPT ![q] = 0]
                             /\ UNCHANGED <<chan, proc>>
      BY <1>2 DEF FirstOf, Children
    <2>2. \A r \in Procs : /\ state'[r] = IF r = q THEN "UNUSED" ELSE state[r]
                           /\ parent'[r] = IF r = q THEN 0 ELSE parent[r]
      BY <1>1, <2>1
    <2>3. TableTypes'
      BY <1>1, <2>1 DEF IInv, TableInv, TableTypes, States
    <2>4. OneRuns'
      BY <2>1, <2>2 DEF IInv, TableInv, OneRuns
    <2>5. FreeSlots'
      BY <2>2 DEF IInv, TableInv, FreeSlots
    <2>6. Forks'
      BY <1>1, <2>1, <2>2 DEF IInv, TableInv, Forks
    <2>7. Family'
      BY <2>2, ChanFacts DEF IInv, TableInv, Family
    <2>8. ParentsAlive'
      BY <1>1, <2>1, <2>2, ChanFacts DEF IInv, ParentsAlive, Living
    <2>9. NoLostWakeup'
      <3> SUFFICES ASSUME NEW r \in Procs, state'[r] = "SLEEPING", chan'[r] = r
                   PROVE  Children(r)' # {} /\ \A s \in Children(r)' : state'[s] # "ZOMBIE"
        BY DEF NoLostWakeup
      <3>1. r # q /\ r # p /\ state[r] = "SLEEPING" /\ chan[r] = r
        BY <1>1, <2>1, <2>2
      <3>2. Children(r)' = Children(r)
        BY <2>1, <2>2, <3>1, ChanFacts DEF Children
      <3>3. Children(r) # {} /\ \A s \in Children(r) : s \in Procs /\ state[s] # "ZOMBIE"
        BY <3>1 DEF IInv, NoLostWakeup, Children
      <3> QED BY <2>2, <3>2, <3>3
    <2> QED BY <2>3, <2>4, <2>5, <2>6, <2>7, <2>8, <2>9 DEF IInv, TableInv
  <1>3. CASE UNCHANGED <<state, chan, parent, proc>>
    BY <1>1, <1>3 DEF IInv, TableInv, TableTypes, OneRuns, FreeSlots, Forks, Family,
       NoLostWakeup, ParentsAlive, Children
  <1>4. CASE /\ zombies = {} /\ Children(p) # {}
             /\ state' = [state EXCEPT ![p] = "SLEEPING"]
             /\ chan' = [chan EXCEPT ![p] = p]
             /\ proc' = 0 /\ parent' = parent
    <2>1. \A r \in Procs : /\ state'[r] = IF r = p THEN "SLEEPING" ELSE state[r]
                           /\ chan'[r] = IF r = p THEN p ELSE chan[r]
      BY <1>1, <1>4
    <2>2. TableTypes'
      BY <1>1, <1>4 DEF IInv, TableInv, TableTypes, States
    <2>3. OneRuns'
      BY <1>1, <1>4, <2>1, ChanFacts DEF IInv, TableInv, OneRuns
    <2>4. FreeSlots'
      BY <1>4, <2>1 DEF IInv, TableInv, FreeSlots
    <2>5. Forks'
      BY <1>1, <2>1 DEF IInv, TableInv, Forks
    <2>6. Family'
      BY <1>4 DEF IInv, TableInv, Family
    <2>7. ParentsAlive'
      BY <1>1, <1>4, <2>1, ChanFacts DEF IInv, ParentsAlive, Living
    <2>8. NoLostWakeup'
      <3> SUFFICES ASSUME NEW r \in Procs, state'[r] = "SLEEPING", chan'[r] = r
                   PROVE  Children(r)' # {} /\ \A s \in Children(r)' : state'[s] # "ZOMBIE"
        BY DEF NoLostWakeup
      <3>1. Children(r)' = Children(r) /\ \A s \in Children(r) : s \in Procs
        BY <1>4 DEF Children
      <3>2. Children(r) # {} /\ \A s \in Children(r) : state[s] # "ZOMBIE"
        BY <1>4, <2>1 DEF IInv, NoLostWakeup
      <3> QED BY <2>1, <3>1, <3>2
    <2> QED BY <2>2, <2>3, <2>4, <2>5, <2>6, <2>7, <2>8 DEF IInv, TableInv
  <1> QED BY <1>2, <1>3, <1>4 DEF Wait, Leaves

-----------------------------------------------------------------------------
LEMMA InitInv == Init => IInv
  <1> SUFFICES ASSUME Init PROVE IInv
    OBVIOUS
  <1>1. \A p \in Procs : /\ state[p] = IF p = initproc THEN "RUNNABLE" ELSE "UNUSED"
                         /\ parent[p] = 0 /\ np[p] = 0
    BY DEF Init
  <1>2. TableTypes
    BY DEF Init, TableTypes, States
  <1>3. OneRuns
    BY <1>1, ChanFacts DEF Init, OneRuns
  <1>4. FreeSlots /\ Forks /\ Family
    BY <1>1, ChanFacts DEF FreeSlots, Forks, Family
  <1>5. ParentsAlive /\ NoLostWakeup
    BY <1>1, ChanFacts DEF ParentsAlive, Living, NoLostWakeup
  <1> QED BY <1>2, <1>3, <1>4, <1>5 DEF IInv, TableInv

LEMMA StepInv == IInv /\ [Next]_vars => IInv'
  <1> SUFFICES ASSUME IInv, [Next]_vars PROVE IInv'
    OBVIOUS
  <1>1. CASE UNCHANGED vars
    BY <1>1 DEF vars, ptable, cpu, IInv, TableInv, TableTypes, OneRuns, FreeSlots, Forks, Family,
       NoLostWakeup, ParentsAlive, Children
  <1>2. CASE Switch \/ Restart \/ Tick
    BY <1>2, SwitchInv, RestartInv, TickInv
  <1>3. CASE \E c \in Chans \ {ticks} : Wakeup(c)
    BY <1>3, WakeupInv
  <1>4. ASSUME NEW p \in Procs, \E c \in Chans : Sleep(p, c)
        PROVE  IInv'
    BY <1>4, SleepInv
  <1>5. ASSUME NEW p \in Procs, allocproc(p) \/ Fork(p) \/ Exit(p) \/ Wait(p)
        PROVE  IInv'
    BY <1>5, allocprocInv, ForkInv, ExitInv, WaitInv
  <1>6. ASSUME NEW p \in Procs, NEW q \in Procs,
               Kill(p, q) \/ \E nice \in Nice : setnice(p, q, nice)
        PROVE  IInv'
    BY <1>6, KillInv, setniceInv
  <1> QED BY <1>1, <1>2, <1>3, <1>4, <1>5, <1>6 DEF Next

\* The process table stays consistent through every call and interrupt.
THEOREM TableInvariance == Spec => []IInv
  BY InitInv, StepInv, PTL DEF Spec

\* A parent asleep in wait has a child, and none of its children has exited:
\* no order of exits, orphans, kills and interrupts loses its wakeup.
THEOREM WakeupsKept == Spec => []NoLostWakeup
  BY TableInvariance, PTL DEF IInv

\* Every child has a parent that is alive, init if no other.
THEOREM ParentsStay == Spec => []ParentsAlive
  BY TableInvariance, PTL DEF IInv

-----------------------------------------------------------------------------
\* What a step computes stays in range.  A process that is ready gets at most
\* all of the time there is to share.
LEMMA ShareFacts ==
    ASSUME NEW w \in Nat \ {0}, NEW total \in Nat \ {0}, w <= total, NEW s \in Nat
    PROVE  CeilDiv(s * w, total) \in 0 .. s
  <1> DEFINE a == s * w
             b == s * total
             q == (a + total - 1) \div total
  <1>1. a \in Nat /\ b \in Nat
    OBVIOUS
  <1>2. a <= b
    OBVIOUS
  <1> HIDE DEF a
  <1>3. q \in Nat /\ total * q <= a + total - 1
    BY <1>1
  <1> HIDE DEF q
  <1>4. ASSUME q >= s + 1 PROVE FALSE
    <2>1. total * (s + 1) <= total * q
      BY <1>3, <1>4
    <2>2. total * (s + 1) = b + total
      OBVIOUS
    <2> HIDE DEF b
    <2>3. total * q \in Int
      BY <1>3
    <2> QED BY <1>1, <1>2, <1>3, <2>1, <2>2, <2>3
  <1>5. q <= s
    BY <1>3, <1>4
  <1>6. CeilDiv(s * w, total) = q
    BY DEF CeilDiv, q, a
  <1> QED BY <1>3, <1>5, <1>6

LEMMA TimesliceFacts ==
    ASSUME NEW p \in Runnable, priority \in [Procs -> Nice]
    PROVE  CeilDiv(SLICE * Weight[priority[p]], total_weight) \in 0 .. CeilDiv(SLICE, 1)
  <1>1. SLICE \in Nat
    BY SchedAssumption DEF SchedAssumption
  <1>2. Weight[priority[p]] \in Nat \ {0}
    BY TickFacts DEF Runnable
  <1>3. total_weight \in Nat /\ total_weight >= Weight[priority[p]]
    BY TotalWeight
  <1>4. CeilDiv(SLICE * Weight[priority[p]], total_weight) \in 0 .. SLICE
    <2> DEFINE w == Weight[priority[p]]
               total == total_weight
    <2>1. w \in Nat \ {0} /\ total \in Nat \ {0} /\ w <= total
      BY <1>2, <1>3
    <2> HIDE DEF w, total
    <2>2. CeilDiv(SLICE * w, total) \in 0 .. SLICE
      BY <1>1, <2>1, ShareFacts
    <2> QED BY <2>2 DEF w, total
  <1>5. CeilDiv(SLICE, 1) = SLICE
    BY <1>1 DEF CeilDiv
  <1> QED BY <1>4, <1>5

\* overflow_handler keeps the range, and makes room for the tick of any
\* process that is alive.
LEMMA ShiftedFacts ==
    ASSUME NEW vr \in [Procs -> RunTimes], NEW p \in Procs
    PROVE  /\ Shifted(vr, p) \in RunTimes
           /\ p \in Alive => \/ Shifted(vr, p) = MINIMUM_INT
                             \/ Shifted(vr, p) = vr[p] - SHIFT
  <1>1. vr[p] \in RunTimes
    OBVIOUS
  <1> QED BY <1>1, IntFacts DEF Shifted, Plus, is_overflow, RunTimes

LEMMA ChargedFacts ==
    ASSUME NEW vr \in [Procs -> RunTimes], NEW p \in Alive, priority \in [Procs -> Nice]
    PROVE  Charged(vr, p) \in [Procs -> RunTimes]
  <1> DEFINE d == CeilDiv(UNIT, Weight[priority[p]])
             room == Room(vr, p, d)
  <1>0. p \in Procs
    BY DEF Alive
  <1>1. d \in Nat /\ d <= SHIFT
    BY <1>0, TickFacts
  <1> HIDE DEF d
  <1>2. room \in [Procs -> RunTimes]
    BY ShiftedFacts DEF Room
  <1>3. room[p] + d \in RunTimes
    <2>1. CASE is_overflow(vr[p], d)
      <3>1. room[p] = Shifted(vr, p)
        BY <1>0, <2>1 DEF Room
      <3>2. vr[p] \in RunTimes
        BY <1>0
      <3> HIDE DEF room
      <3> QED BY <1>0, <1>1, <3>1, <3>2, ShiftedFacts, IntFacts DEF RunTimes
    <2>2. CASE ~is_overflow(vr[p], d)
      <3>1. room[p] = vr[p] /\ vr[p] \in RunTimes
        BY <1>0, <2>2 DEF Room
      <3> HIDE DEF room
      <3> QED BY <1>1, <2>2, <3>1, IntFacts DEF is_overflow, RunTimes
    <2> QED BY <2>1, <2>2
  <1>4. Charged(vr, p) = [room EXCEPT ![p] = room[p] + d]
    BY DEF Charged, d
  <1> HIDE DEF room
  <1> QED BY <1>2, <1>3, <1>4

\* What the table does not determine: run times and slices.
RunTypes ==
    /\ killed \in [Procs -> BOOLEAN] /\ priority \in [Procs -> Nice]
    /\ vruntime \in [Procs -> RunTimes]
    /\ must \in {"any", "wait", "exit"} /\ scan \in 0 .. NPROC
    /\ timeslice \in 0 .. CeilDiv(SLICE, 1) /\ runtime_interval \in Nat

LEMMA SliceRange == 0 \in 0 .. CeilDiv(SLICE, 1) /\ TICK \in Nat
  <1>1. SLICE \in Nat /\ TICK \in Nat
    BY SchedAssumption DEF SchedAssumption
  <1> QED BY <1>1 DEF CeilDiv

LEMMA SwitchRange == ASSUME IInv, RunTypes, Switch PROVE RunTypes'
  <1>1. PICK p \in Runnable :
          /\ scan' = p /\ runtime_interval' = 0
          /\ timeslice' = CeilDiv(SLICE * Weight[priority[p]], total_weight)
          /\ must' \in {"any", "wait"}
          /\ UNCHANGED <<killed, priority, vruntime>>
    BY DEF Switch
  <1>2. timeslice' \in 0 .. CeilDiv(SLICE, 1)
    BY <1>1, TimesliceFacts DEF RunTypes
  <1>3. scan' \in 0 .. NPROC
    BY <1>1, Sizes DEF Runnable, Procs
  <1> QED BY <1>1, <1>2, <1>3 DEF RunTypes

LEMMA TickRange == ASSUME IInv, RunTypes, Tick PROVE RunTypes'
  <1> DEFINE vr == IF proc = 0 THEN vruntime ELSE Charged(vruntime, proc)
  <1>1. state \in [Procs -> States] /\ proc \in {0} \cup Procs
    BY DEF IInv, TableInv, TableTypes
  <1>2. vr \in [Procs -> RunTimes]
    <2>1. CASE proc = 0
      BY <2>1 DEF RunTypes
    <2>2. CASE proc # 0
      <3>1. proc \in Alive
        BY <1>1, <2>2 DEF IInv, TableInv, OneRuns, Alive
      <3> QED BY <2>2, <3>1, ChargedFacts DEF RunTypes
    <2> QED BY <2>1, <2>2
  <1>3. vruntime' = Placed(state, vr, ticks)
    BY DEF Tick
  <1> HIDE DEF vr
  <1>4. vruntime' \in [Procs -> RunTimes]
    BY <1>1, <1>2, <1>3, PlacedFacts DEF RunTypes
  <1>5. /\ UNCHANGED <<killed, priority>> /\ scan' = scan
        /\ must' \in {must, "any", "exit"}
        /\ timeslice' \in {0, timeslice}
        /\ runtime_interval' \in {0, runtime_interval, runtime_interval + TICK}
    BY DEF Tick, Leaves
  <1> QED BY <1>4, <1>5, SliceRange DEF RunTypes

LEMMA WakeupRange == ASSUME IInv, RunTypes, NEW c, Wakeup(c) PROVE RunTypes'
  <1>1. state \in [Procs -> States]
    BY DEF IInv, TableInv, TableTypes
  <1>2. Placed(state, vruntime, c) \in [Procs -> RunTimes]
    BY <1>1, PlacedFacts DEF RunTypes
  <1> QED BY <1>2 DEF Wakeup, cpu, RunTypes

LEMMA ForkRange == ASSUME IInv, RunTypes, NEW p \in Procs, Fork(p) PROVE RunTypes'
  <1>1. np[p] \in Procs
    BY DEF Fork, IInv, TableInv, TableTypes
  <1>2. \/ UNCHANGED <<priority, vruntime>>
        \/ /\ priority' = [priority EXCEPT ![np[p]] = priority[p]]
           /\ vruntime' = [vruntime EXCEPT ![np[p]] = vruntime[p]]
    BY DEF Fork
  <1>3. UNCHANGED <<killed, must, scan, runtime_interval, timeslice>>
    BY DEF Fork, cpu
  <1> QED BY <1>1, <1>2, <1>3 DEF RunTypes

\* The run times exit leaves.
LEMMA ExitTimes ==
    ASSUME IInv, RunTypes, NEW p \in Procs, Exit(p)
    PROVE  \E vr \in [Procs -> RunTimes] :
              /\ vruntime' = [vr EXCEPT ![p] = 0] /\ state'[p] = "ZOMBIE"
              /\ \A q \in Procs : state[q] # "SLEEPING" => vr[q] = vruntime[q]
              /\ \A q \in Procs : state[q] = "SLEEPING" /\ state'[q] = "SLEEPING" => vr[q] = vruntime[q]
  <1> DEFINE awake == Awake(state, parent[p])
             one   == Placed(state, vruntime, parent[p])
             both  == Awake(awake, initproc)
             two   == Placed(awake, one, initproc)
             orphans == \E q \in Children(p) : state[q] = "ZOMBIE"
  <1>1. state \in [Procs -> States] /\ vruntime \in [Procs -> RunTimes] /\ priority \in [Procs -> Nice]
    BY DEF IInv, TableInv, TableTypes, RunTypes
  <1>2. /\ awake \in [Procs -> States]
        /\ \A q \in Procs : awake[q] = IF state[q] = "SLEEPING" /\ chan[q] = parent[p]
                                       THEN "RUNNABLE" ELSE state[q]
    BY <1>1, AwakeFacts
  <1>3. /\ one \in [Procs -> RunTimes]
        /\ \A q \in Procs : q \notin Sleepers(state, parent[p]) => one[q] = vruntime[q]
    BY <1>1, PlacedFacts
  <1>4. CASE orphans
    <2>1. state' = [both EXCEPT ![p] = "ZOMBIE"] /\ vruntime' = [two EXCEPT ![p] = 0]
      BY <1>4 DEF Exit, OrphansToInit, Waiter
    <2> HIDE DEF awake, one
    <2>2. /\ both \in [Procs -> States]
          /\ \A q \in Procs : both[q] = IF awake[q] = "SLEEPING" /\ chan[q] = initproc
                                       THEN "RUNNABLE" ELSE awake[q]
      BY <1>2, AwakeFacts
    <2>3. /\ two \in [Procs -> RunTimes]
          /\ \A q \in Procs : q \notin Sleepers(awake, initproc) => two[q] = one[q]
      BY <1>1, <1>2, <1>3, PlacedFacts
    <2> HIDE DEF both, two
    <2>4. \A q \in Procs : state[q] # "SLEEPING" => two[q] = vruntime[q]
      BY <1>2, <1>3, <2>3 DEF Sleepers
    <2>5. \A q \in Procs : state[q] = "SLEEPING" /\ state'[q] = "SLEEPING" => two[q] = vruntime[q]
      BY <1>2, <1>3, <2>1, <2>2, <2>3 DEF Sleepers
    <2>6. state'[p] = "ZOMBIE"
      BY <2>1, <2>2
    <2> QED BY <2>1, <2>3, <2>4, <2>5, <2>6
  <1>5. CASE ~orphans
    <2>1. state' = [awake EXCEPT ![p] = "ZOMBIE"] /\ vruntime' = [one EXCEPT ![p] = 0]
      BY <1>5 DEF Exit, OrphansToInit, Waiter
    <2> HIDE DEF awake, one
    <2>2. \A q \in Procs : state[q] # "SLEEPING" => one[q] = vruntime[q]
      BY <1>3 DEF Sleepers
    <2>3. \A q \in Procs : state[q] = "SLEEPING" /\ state'[q] = "SLEEPING" => one[q] = vruntime[q]
      BY <1>2, <1>3, <2>1 DEF Sleepers
    <2>4. state'[p] = "ZOMBIE"
      BY <1>2, <2>1
    <2> QED BY <1>3, <2>1, <2>2, <2>3, <2>4
  <1> QED BY <1>4, <1>5

LEMMA ExitRange == ASSUME IInv, RunTypes, NEW p \in Procs, Exit(p) PROVE RunTypes'
  <1>1. vruntime' \in [Procs -> RunTimes]
    BY ExitTimes, IntFacts
  <1>2. /\ killed' = [killed EXCEPT ![p] = FALSE] /\ priority' = [priority EXCEPT ![p] = 0]
        /\ must' = "any" /\ runtime_interval' = 0 /\ timeslice' = 0 /\ scan' = scan
    BY DEF Exit, Leaves
  <1>3. 0 \in Nice
    BY SchedAssumption DEF SchedAssumption
  <1> QED BY <1>1, <1>2, <1>3, SliceRange DEF RunTypes

\* The other calls leave run times alone.
LEMMA CallRange ==
    ASSUME IInv, RunTypes, NEW p \in Procs,
           \/ \E c \in Chans : Sleep(p, c)
           \/ allocproc(p) \/ Wait(p)
           \/ \E q \in Procs : Kill(p, q) \/ \E nice \in Nice : setnice(p, q, nice)
    PROVE  RunTypes'
  <1>1. ASSUME NEW c \in Chans, Sleep(p, c) PROVE RunTypes'
    BY <1>1, SliceRange DEF Sleep, Leaves, RunTypes
  <1>2. CASE allocproc(p)
    <2>1. 0 \in Nice
      BY SchedAssumption DEF SchedAssumption
    <2>2. PICK q \in Procs : priority' = [priority EXCEPT ![q] = 0]
      BY <1>2 DEF allocproc
    <2>3. UNCHANGED <<killed, vruntime, must, scan, runtime_interval, timeslice>>
      BY <1>2 DEF allocproc, cpu
    <2> QED BY <2>1, <2>2, <2>3 DEF RunTypes
  <1>3. CASE Wait(p)
    BY <1>3, SliceRange DEF Wait, Leaves, RunTypes
  <1>4. ASSUME NEW q \in Procs, Kill(p, q) PROVE RunTypes'
    BY <1>4 DEF Kill, cpu, RunTypes
  <1>5. ASSUME NEW q \in Procs, NEW nice \in Nice, setnice(p, q, nice) PROVE RunTypes'
    BY <1>5 DEF setnice, cpu, RunTypes
  <1> QED BY <1>1, <1>2, <1>3, <1>4, <1>5

LEMMA InitRange == Init => RunTypes
  <1>1. 0 \in Nice /\ NPROC \in Nat
    BY SchedAssumption DEF SchedAssumption
  <1> QED BY <1>1, IntFacts, SliceRange DEF Init, RunTypes

LEMMA StepRange == IInv /\ RunTypes /\ [Next]_vars => RunTypes'
  <1> SUFFICES ASSUME IInv, RunTypes, [Next]_vars PROVE RunTypes'
    OBVIOUS
  <1>1. CASE UNCHANGED vars
    BY <1>1 DEF vars, ptable, cpu, RunTypes
  <1>2. CASE Restart
    BY <1>2, Sizes DEF Restart, ptable, RunTypes
  <1>3. CASE Switch \/ Tick \/ \E c \in Chans \ {ticks} : Wakeup(c)
    BY <1>3, SwitchRange, TickRange, WakeupRange
  <1>4. ASSUME NEW p \in Procs, Fork(p) \/ Exit(p) PROVE RunTypes'
    BY <1>4, ForkRange, ExitRange
  <1>5. ASSUME NEW p \in Procs,
               \/ \E c \in Chans : Sleep(p, c)
               \/ allocproc(p) \/ Wait(p)
               \/ \E q \in Procs : Kill(p, q) \/ \E nice \in Nice : setnice(p, q, nice)
        PROVE  RunTypes'
    BY <1>5, CallRange
  <1> QED BY <1>1, <1>2, <1>3, <1>4, <1>5 DEF Next

\* Run times stay within an int, also when they are moved to make room
\* (trap.c:63, proc.c:754-783), and a time slice within the time there is to
\* share (proc.c:410).
THEOREM Ranges == Spec => []TypeOK
  <1>1. IInv /\ RunTypes => TypeOK
    BY DEF IInv, TableInv, TableTypes, OneRuns, RunTypes, TypeOK, RunTimes
  <1> QED BY TableInvariance, InitRange, StepRange, <1>1, PTL DEF Spec

-----------------------------------------------------------------------------
\* The order of run times.
InOrder ==
    \A p, q \in Procs :
        /\ p # proc /\ {p, q} \subseteq Alive /\ {p, q} \subseteq Alive'
        /\ \A r \in {p, q} : state[r] = "SLEEPING" => state'[r] = "SLEEPING" \/ killed'[r] # killed[r]
        /\ vruntime[p] <= vruntime[q]
        => vruntime'[p] <= vruntime'[q]

\* A process that is alive before and after a step, and that the step does
\* not wake.
Stays(r) ==
    /\ r \in Alive /\ r \in Alive'
    /\ state[r] = "SLEEPING" => state'[r] = "SLEEPING" \/ killed'[r] # killed[r]

\* Nobody's run time changes but that of the process that runs, which grows,
\* and of those woken, created or gone.
LEMMA OthersKeep ==
    ASSUME \A r \in Procs : Stays(r) => vruntime'[r] = vruntime[r]
    PROVE  InOrder
  BY DEF InOrder, Stays

\* To make room moves all run times down alike, as far as the lowest allows.
LEMMA ChargedInOrder ==
    ASSUME NEW vr \in [Procs -> RunTimes], NEW r \in Alive, priority \in [Procs -> Nice],
           NEW p \in Alive, NEW q \in Alive, p # r, vr[p] <= vr[q]
    PROVE  Charged(vr, r)[p] <= Charged(vr, r)[q]
  <1> DEFINE d == CeilDiv(UNIT, Weight[priority[r]])
             room == Room(vr, r, d)
  <1>0. p \in Procs /\ q \in Procs /\ r \in Procs /\ vr[p] \in RunTimes /\ vr[q] \in RunTimes
    BY DEF Alive
  <1>1. d \in Nat
    BY <1>0, TickFacts
  <1> HIDE DEF d
  <1>2. room \in [Procs -> RunTimes]
    BY ShiftedFacts DEF Room
  <1>3. room[p] <= room[q]
    <2>1. Shifted(vr, p) <= Shifted(vr, q)
      BY <1>0, IntFacts DEF Shifted, Plus, is_overflow, RunTimes
    <2>2. \/ room[p] = Shifted(vr, p) /\ room[q] = Shifted(vr, q)
          \/ room[p] = vr[p] /\ room[q] = vr[q]
      BY <1>0 DEF Room
    <2> HIDE DEF room
    <2> QED BY <2>1, <2>2
  <1>4. Charged(vr, r) = [room EXCEPT ![r] = room[r] + d]
    BY DEF Charged, d
  <1> HIDE DEF room
  <1>5. Charged(vr, r)[p] = room[p] /\ Charged(vr, r)[q] \in {room[q], room[q] + d}
    BY <1>0, <1>2, <1>4
  <1>6. room[p] \in Int /\ room[q] \in Int
    BY <1>0, <1>2, IntFacts DEF RunTimes
  <1> QED BY <1>1, <1>3, <1>5, <1>6

LEMMA TickInOrder == ASSUME IInv, RunTypes, Tick PROVE InOrder
  <1> DEFINE vr == IF proc = 0 THEN vruntime ELSE Charged(vruntime, proc)
  <1>1. /\ state \in [Procs -> States] /\ proc \in {0} \cup Procs
        /\ vruntime \in [Procs -> RunTimes] /\ priority \in [Procs -> Nice]
    BY DEF IInv, TableInv, TableTypes, RunTypes
  <1>2. proc # 0 => proc \in Alive /\ state[proc] = "RUNNING"
    BY <1>1 DEF IInv, TableInv, OneRuns, Alive
  <1>3. vr \in [Procs -> RunTimes]
    BY <1>1, <1>2, ChargedFacts
  <1>4. vruntime' = Placed(state, vr, ticks) /\ killed' = killed
    BY DEF Tick
  <1>5. \A r \in Procs : Stays(r) => vruntime'[r] = vr[r]
    <2>1. \A r \in Procs : r \notin Sleepers(state, ticks) => vruntime'[r] = vr[r]
      <3> HIDE DEF vr
      <3> QED BY <1>1, <1>3, <1>4, PlacedFacts
    <2>2. \A r \in Procs : Awake(state, ticks)[r] =
             IF state[r] = "SLEEPING" /\ chan[r] = ticks THEN "RUNNABLE" ELSE state[r]
      BY <1>1, AwakeFacts
    <2>3. Awake(state, ticks) \in [Procs -> States]
      BY <1>1, AwakeFacts
    <2>4. \/ state' = Awake(state, ticks)
          \/ proc # 0 /\ state' = [Awake(state, ticks) EXCEPT ![proc] = "RUNNABLE"]
      BY DEF Tick
    <2>5. \A r \in Procs : state'[r] \in {Awake(state, ticks)[r], "RUNNABLE"}
      BY <2>3, <2>4
    <2>6. \A r \in Procs : Stays(r) => r \notin Sleepers(state, ticks)
      BY <1>4, <2>2, <2>5 DEF Stays, Sleepers
    <2> QED BY <2>1, <2>6
  <1>6. ASSUME NEW p \in Procs, NEW q \in Procs, p # proc, Stays(p), Stays(q),
               vruntime[p] <= vruntime[q]
        PROVE  vr[p] <= vr[q]
    BY <1>1, <1>2, <1>6, ChargedInOrder DEF Stays
  <1> HIDE DEF vr
  <1>7. \A p, q \in Procs : /\ p # proc /\ Stays(p) /\ Stays(q)
                            /\ vruntime[p] <= vruntime[q]
                            => vruntime'[p] <= vruntime'[q]
    BY <1>5, <1>6
  <1> QED BY <1>7 DEF InOrder, Stays

LEMMA WakeupInOrder == ASSUME IInv, RunTypes, NEW c, Wakeup(c) PROVE InOrder
  <1>1. /\ state \in [Procs -> States] /\ priority \in [Procs -> Nice]
        /\ vruntime \in [Procs -> RunTimes]
    BY DEF IInv, TableInv, TableTypes, RunTypes
  <1>2. /\ vruntime' = Placed(state, vruntime, c) /\ killed' = killed
        /\ state' = Awake(state, c)
    BY DEF Wakeup
  <1>3. \A r \in Procs : r \notin Sleepers(state, c) => vruntime'[r] = vruntime[r]
    BY <1>1, <1>2, PlacedFacts
  <1>4. \A r \in Procs : Stays(r) => r \notin Sleepers(state, c)
    BY <1>1, <1>2, AwakeFacts DEF Stays, Sleepers
  <1> QED BY <1>3, <1>4, OthersKeep

LEMMA ForkInOrder == ASSUME IInv, RunTypes, NEW p \in Procs, Fork(p) PROVE InOrder
  <1>1. np[p] \in Procs /\ state[np[p]] = "EMBRYO"
    BY DEF Fork, IInv, TableInv, TableTypes, Forks
  <1>2. vruntime' = vruntime \/ vruntime' = [vruntime EXCEPT ![np[p]] = vruntime[p]]
    BY DEF Fork
  <1>3. \A r \in Procs : r # np[p] => vruntime'[r] = vruntime[r]
    BY <1>2 DEF RunTypes
  <1>4. \A r \in Procs : Stays(r) => r # np[p]
    BY <1>1 DEF Stays, Alive
  <1> QED BY <1>3, <1>4, OthersKeep

LEMMA ExitInOrder == ASSUME IInv, RunTypes, NEW p \in Procs, Exit(p) PROVE InOrder
  <1>1. PICK vr \in [Procs -> RunTimes] :
          /\ vruntime' = [vr EXCEPT ![p] = 0]
          /\ \A q \in Procs : state[q] # "SLEEPING" => vr[q] = vruntime[q]
          /\ \A q \in Procs : state[q] = "SLEEPING" /\ state'[q] = "SLEEPING" => vr[q] = vruntime[q]
    BY ExitTimes
  <1>2. \A r \in Procs : r # p => killed'[r] = killed[r]
    BY DEF Exit, RunTypes
  <1>3. \A r \in Procs : Stays(r) => r # p
    <2>1. p \notin Alive'
      <3>1. state'[p] = "ZOMBIE"
        BY ExitTimes
      <3> QED BY <3>1 DEF Alive
    <2> QED BY <2>1 DEF Stays
  <1> QED BY <1>1, <1>2, <1>3, OthersKeep DEF Stays

\* Processes change order only by running or waking up, whatever overflows in
\* between (trap.c:62-67, proc.c:768-783).
THEOREM OrderStays == Spec => OrderKept
  <1>1. IInv /\ RunTypes /\ [Next]_vars => [InOrder]_vars
    <2> SUFFICES ASSUME IInv, RunTypes, [Next]_vars PROVE InOrder \/ UNCHANGED vars
      OBVIOUS
    <2>1. CASE vruntime' = vruntime
      BY <2>1, OthersKeep
    <2>2. CASE Tick
      BY <2>2, TickInOrder
    <2>3. CASE \E c \in Chans \ {ticks} : Wakeup(c)
      BY <2>3, WakeupInOrder
    <2>4. ASSUME NEW p \in Procs, Fork(p) \/ Exit(p) PROVE InOrder
      BY <2>4, ForkInOrder, ExitInOrder
    <2>5. ASSUME NEW p \in Procs,
                 \/ \E c \in Chans : Sleep(p, c)
                 \/ allocproc(p) \/ Wait(p)
                 \/ \E q \in Procs : Kill(p, q) \/ \E nice \in Nice : setnice(p, q, nice)
          PROVE  vruntime' = vruntime
      BY <2>5 DEF Sleep, allocproc, Wait, Kill, setnice
    <2>6. Switch \/ Restart => vruntime' = vruntime
      BY DEF Switch, Restart
    <2> QED BY <2>1, <2>2, <2>3, <2>4, <2>5, <2>6 DEF Next
  <1>2. Spec => [][InOrder]_vars
    BY TableInvariance, InitRange, StepRange, <1>1, PTL DEF Spec
  <1> QED BY <1>2 DEF OrderKept, InOrder
=============================================================================

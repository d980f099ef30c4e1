------------------------------- MODULE FairSched -------------------------------
(***************************************************************************)
(* The process table and the fair scheduler of xv6 (OS project 2,          *)
(* 3-1/OS/xv6-sse-local/proc.c, trap.c).  A process runs until it has used *)
(* up its time slice; the next one is the process with the lowest virtual  *)
(* run time.                                                               *)
(*                                                                         *)
(* The Makefile starts one CPU.  What holds ptable.lock runs with          *)
(* interrupts off and is a step; between steps a timer or device interrupt *)
(* may come.  A process is its slot of ptable.proc.  Processes make any    *)
(* calls.  What nothing reads any more (the run time of a zombie, the time *)
(* slice of a process that does not run) is cleared in the model.  A       *)
(* definition marked "mutant" is a plausible bug of the one below it.      *)
(***************************************************************************)
EXTENDS Integers, FiniteSets, FiniteSetsExt

CONSTANTS
    NPROC,
    Nice,                       \* nice values
    Weight,                     \* nice2weight_arr
    NCHAN,                      \* channels besides those of wait
    TICK,                       \* 1000, a tick in milli-ticks
    UNIT,                       \* 1000*1024, the run time of a tick at weight 1
    SLICE,                      \* 10*1000, the time all processes share
    MAXIMUM_INT,
    SHIFT                       \* 0x0FFFFFFF of overflow_handler

MINIMUM_INT == -MAXIMUM_INT - 1

Procs    == 1 .. NPROC
initproc == 1
ticks    == NPROC + 1                   \* the channel of sys_sleep
Chans    == NPROC + 1 .. NPROC + NCHAN  \* process p waits on channel p
States   == {"UNUSED", "EMBRYO", "SLEEPING", "RUNNABLE", "RUNNING", "ZOMBIE"}

VARIABLES
    state, chan, parent, killed, priority, vruntime,
    np,                 \* np[p]: the process p is creating in fork, or 0
    proc,               \* the process on the CPU, or 0
    must,               \* "wait", "exit": proc is in wait, with ptable.lock, or in
                        \* a trap that ends in exit, interrupts off; else "any"
    scan,               \* where the scheduler's loop is, 0 outside of it
    runtime_interval, timeslice         \* of proc

ptable == <<state, chan, parent, killed, priority>>
cpu    == <<proc, must, scan, runtime_interval, timeslice>>
vars   == <<ptable, vruntime, np, cpu>>

Ready(st) == {p \in Procs : st[p] \in {"RUNNABLE", "RUNNING"}}
Alive     == {p \in Procs : state[p] \in {"RUNNABLE", "RUNNING", "SLEEPING"}}
Children(p) == {q \in Procs : parent[q] = p}

\* The one a search of the table finds.
FirstOf(p, set) == p \in set /\ \A q \in set : p <= q

CeilDiv(a, b) == (a + b - 1) \div b

\* userinit.
Init ==
    /\ state = [p \in Procs |-> IF p = initproc THEN "RUNNABLE" ELSE "UNUSED"]
    /\ chan = [p \in Procs |-> 0] /\ parent = [p \in Procs |-> 0]
    /\ killed = [p \in Procs |-> FALSE] /\ priority = [p \in Procs |-> 0]
    /\ vruntime = [p \in Procs |-> 0]
    /\ np = [p \in Procs |-> 0]
    /\ proc = 0 /\ must = "any" /\ scan = 0 /\ runtime_interval = 0 /\ timeslice = 0

-----------------------------------------------------------------------------
\* The arithmetic of virtual run times.
ChecksOperand(a, b) ==                                     \* mutant
    \/ b > 0 /\ a > MAXIMUM_INT
    \/ b < 0 /\ a < MINIMUM_INT

is_overflow(a, b) ==
    \/ b > 0 /\ a > MAXIMUM_INT - b
    \/ b < 0 /\ a < MINIMUM_INT - b

Plus(a, b, limit) == IF is_overflow(a, b) THEN limit ELSE a + b

\* overflow_handler, for a run time that is too large.
ShiftReady(vr, p) == IF p \in Ready(state) THEN Plus(vr[p], -SHIFT, MINIMUM_INT) ELSE vr[p]  \* mutant
Shifted(vr, p) == IF p \in Alive THEN Plus(vr[p], -SHIFT, MINIMUM_INT) ELSE vr[p]

\* A tick is charged to p.  One call makes room for it (SHIFT).
Room(vr, p, d) == IF is_overflow(vr[p], d) THEN [q \in Procs |-> Shifted(vr, q)] ELSE vr
NotCharged(vr, p) == vr                                    \* mutant
Charged(vr, p) ==
    LET d == CeilDiv(UNIT, Weight[priority[p]])
    IN  [Room(vr, p, d) EXCEPT ![p] = @ + d]

\* wakeup1: who becomes RUNNABLE,
Sleepers(st, c) == {p \in Procs : st[p] = "SLEEPING" /\ chan[p] = c}
Awake(st, c) == [p \in Procs |-> IF p \in Sleepers(st, c) THEN "RUNNABLE" ELSE st[p]]

\* chan of a process that is not asleep tells only whether it is in wait.
Forgotten(c) == [p \in Procs |-> IF p \in Sleepers(state, c) THEN 0 ELSE chan[p]]

\* and where each is placed, one after the other: a tick before the lowest
\* of the other processes that are ready by then, and of 0.
PlacedOne(s, p) ==
    LET others == s.ready \ {p}
        least  == Min({0} \cup {s.vr[q] : q \in others})
        tick   == UNIT \div Weight[priority[p]]
    IN  [ready |-> s.ready \cup {p},
         vr |-> [s.vr EXCEPT ![p] = IF others = {} THEN 0 ELSE Plus(least, -tick, MINIMUM_INT)]]

Placed(st, vr, c) ==
    LET after[p \in 0 .. NPROC] ==
            IF p = 0 THEN [ready |-> Ready(st), vr |-> vr]
            ELSE IF p \in Sleepers(st, c) THEN PlacedOne(after[p - 1], p)
            ELSE after[p - 1]
    IN  after[NPROC].vr

-----------------------------------------------------------------------------
\* scheduler: from p, the first RUNNABLE process of the rest of the table, the
\* search ends with p or with the first of those of a lower run time.
Runnable == {p \in Procs : state[p] = "RUNNABLE"}
low_vruntime_p(p, low) ==
    LET least == {q \in Runnable : \A r \in Runnable : vruntime[q] <= vruntime[r]}
    IN  IF p \in least THEN low = p ELSE FirstOf(low, least)

total_weight ==
    LET ret[p \in 0 .. NPROC] ==
            IF p = 0 THEN 0
            ELSE ret[p - 1] + (IF p \in Runnable THEN Weight[priority[p]] ELSE 0)
    IN  ret[NPROC]

Rest == {p \in Runnable : p > scan}

Switch ==
    \E p \in Runnable :
        /\ proc = 0 /\ Rest # {} /\ low_vruntime_p(Min(Rest), p)
        /\ state' = [state EXCEPT ![p] = "RUNNING"]
        /\ proc' = p /\ scan' = p
        /\ runtime_interval' = 0
        /\ timeslice' = CeilDiv(SLICE * Weight[priority[p]], total_weight)
        /\ chan' = [chan EXCEPT ![p] = 0]        \* the end of sleep
        /\ must' = IF chan[p] = p THEN "wait" ELSE "any"
        /\ UNCHANGED <<parent, killed, priority, vruntime, np>>

\* At the end of the table ptable.lock is released.
Restart ==
    /\ proc = 0 /\ Rest = {} /\ scan # 0
    /\ scan' = 0
    /\ UNCHANGED <<ptable, vruntime, np, proc, must, runtime_interval, timeslice>>

InterruptsOn == IF proc = 0 THEN scan = 0 ELSE must = "any"

\* sched: proc leaves the CPU, and the loop of the scheduler goes on.
Leaves ==
    /\ proc' = 0 /\ must' = "any" /\ runtime_interval' = 0 /\ timeslice' = 0
    /\ UNCHANGED scan

\* The timer interrupt: proc is charged, the sleepers of sys_sleep wake up,
\* and proc yields when its slice is used up.  A killed process that was in
\* user mode exits instead.
Tick ==
    LET due == proc # 0 /\ runtime_interval + TICK >= timeslice
    IN  /\ InterruptsOn
        /\ vruntime' = Placed(state, IF proc = 0 THEN vruntime ELSE Charged(vruntime, proc), ticks)
        /\ \/ /\ due
              /\ state' = [Awake(state, ticks) EXCEPT ![proc] = "RUNNABLE"]
              /\ Leaves
           \/ /\ ~due
              /\ state' = Awake(state, ticks)
              /\ runtime_interval' = IF proc = 0 THEN 0 ELSE runtime_interval + TICK
              /\ UNCHANGED <<proc, must, scan, timeslice>>
           \/ /\ proc \notin {0, initproc} /\ killed[proc] /\ np[proc] = 0
              /\ state' = Awake(state, ticks)
              /\ must' = "exit"
              /\ UNCHANGED <<proc, scan, runtime_interval, timeslice>>
        /\ chan' = Forgotten(ticks)
        /\ UNCHANGED <<parent, killed, priority, np>>

\* A device interrupt, or a call of the process that runs, wakes sleepers.
Wakeup(c) ==
    /\ InterruptsOn
    /\ state' = Awake(state, c)
    /\ vruntime' = Placed(state, vruntime, c)
    /\ chan' = Forgotten(c)
    /\ UNCHANGED <<parent, killed, priority, np, cpu>>

-----------------------------------------------------------------------------
\* System calls of the process that runs.
\* A killed process finishes the call it is in, which may sleep again, and
\* exits.  After its start init only forks and waits (init.c:22-39).
InCall(p)    == proc = p /\ np[p] = 0 /\ must = "any"
Calls(p)     == InCall(p) /\ ~killed[p]
UserCalls(p) == Calls(p) /\ p # initproc

Sleep(p, c) ==
    /\ InCall(p) /\ p # initproc
    /\ state' = [state EXCEPT ![p] = "SLEEPING"]
    /\ chan' = [chan EXCEPT ![p] = c]
    /\ Leaves
    /\ UNCHANGED <<parent, killed, priority, vruntime, np>>

\* fork: allocproc takes a slot, and the rest, unless memory runs out, fills
\* it.  Interrupts may come in between.
allocproc(p) ==
    /\ Calls(p)
    /\ \E q \in Procs :
          /\ FirstOf(q, {r \in Procs : state[r] = "UNUSED"})
          /\ state' = [state EXCEPT ![q] = "EMBRYO"]
          /\ priority' = [priority EXCEPT ![q] = 0]
          /\ np' = [np EXCEPT ![p] = q]
    /\ UNCHANGED <<chan, parent, killed, vruntime, cpu>>

Fork(p) ==
    LET q == np[p]
    IN  /\ proc = p /\ q # 0
        /\ np' = [np EXCEPT ![p] = 0]
        /\ \/ /\ state' = [state EXCEPT ![q] = "UNUSED"]
              /\ UNCHANGED <<parent, priority, vruntime>>
           \/ /\ state' = [state EXCEPT ![q] = "RUNNABLE"]
              /\ parent' = [parent EXCEPT ![q] = p]
              /\ priority' = [priority EXCEPT ![q] = priority[p]]
              /\ vruntime' = [vruntime EXCEPT ![q] = vruntime[p]]
        /\ UNCHANGED <<chan, killed, cpu>>

WakesItself(p) == p                                        \* mutant
Waiter(p) == parent[p]

\* Children of p go to init, which is woken if one of them has exited.
OrphansToInit(p, s) ==
    IF \E q \in Children(p) : state[q] = "ZOMBIE"
    THEN [state |-> Awake(s.state, initproc), vr |-> Placed(s.state, s.vr, initproc)]
    ELSE s

Exit(p) ==
    LET s == OrphansToInit(p, [state |-> Awake(state, Waiter(p)),
                               vr |-> Placed(state, vruntime, Waiter(p))])
    IN  /\ proc = p /\ np[p] = 0 /\ must # "wait" /\ p # initproc
        /\ state' = [s.state EXCEPT ![p] = "ZOMBIE"]
        /\ vruntime' = [s.vr EXCEPT ![p] = 0]
        /\ parent' = [q \in Procs |-> IF q \in Children(p) THEN initproc ELSE parent[q]]
        /\ killed' = [killed EXCEPT ![p] = FALSE]
        /\ priority' = [priority EXCEPT ![p] = 0]
        /\ Leaves
        /\ UNCHANGED <<chan, np>>

\* One round of the loop of wait, at its start or after a wakeup.
Wait(p) ==
    LET zombies == {q \in Children(p) : state[q] = "ZOMBIE"}
    IN  /\ Calls(p) \/ (proc = p /\ must = "wait")
        /\ \/ /\ \E q \in Procs :
                    /\ FirstOf(q, zombies)
                    /\ state' = [state EXCEPT ![q] = "UNUSED"]
                    /\ parent' = [parent EXCEPT ![q] = 0]
              /\ must' = "any"
              /\ UNCHANGED <<chan, proc, scan, runtime_interval, timeslice>>
           \/ /\ zombies = {} /\ (Children(p) = {} \/ killed[p])
              /\ must' = "any"
              /\ UNCHANGED <<state, chan, parent, proc, scan, runtime_interval, timeslice>>
           \/ /\ zombies = {} /\ Children(p) # {} /\ ~killed[p]
              /\ state' = [state EXCEPT ![p] = "SLEEPING"]
              /\ chan' = [chan EXCEPT ![p] = p]
              /\ Leaves
              /\ UNCHANGED parent
        /\ UNCHANGED <<killed, priority, vruntime, np>>

\* Nobody kills init, whose exit is a panic.
Kill(p, q) ==
    /\ UserCalls(p)
    /\ q # initproc /\ state[q] \notin {"UNUSED", "ZOMBIE"}
    /\ killed' = [killed EXCEPT ![q] = TRUE]
    /\ state' = IF state[q] = "SLEEPING" THEN [state EXCEPT ![q] = "RUNNABLE"] ELSE state
    /\ chan' = IF chan[q] \in Chans THEN [chan EXCEPT ![q] = 0] ELSE chan
    /\ UNCHANGED <<parent, priority, vruntime, np, cpu>>

setnice(p, q, nice) ==
    /\ UserCalls(p)
    /\ q \in Alive \ {initproc}
    /\ priority' = [priority EXCEPT ![q] = nice]
    /\ UNCHANGED <<state, chan, parent, killed, vruntime, np, cpu>>

Next ==
    \/ Switch \/ Restart \/ Tick
    \/ \E c \in Chans \ {ticks} : Wakeup(c)
    \/ \E p \in Procs :
          \/ \E c \in Chans : Sleep(p, c)
          \/ allocproc(p) \/ Fork(p) \/ Exit(p) \/ Wait(p)
          \/ \E q \in Procs : Kill(p, q) \/ \E nice \in Nice : setnice(p, q, nice)

Spec == Init /\ [][Next]_vars

\* The scheduler and what runs with interrupts off go on; a timer interrupt
\* that is due is taken as soon as interrupts are on.
GoesOn == Switch \/ Restart \/ (must # "any" /\ \E p \in Procs : Exit(p) \/ Wait(p))
FairSpec == Spec /\ WF_vars(GoesOn) /\ SF_vars(Tick)

-----------------------------------------------------------------------------
\* Properties.

ASSUME SchedAssumption ==
    /\ {NPROC, NCHAN, TICK, UNIT, SLICE, SHIFT, MAXIMUM_INT} \subseteq Nat \ {0}
    /\ 0 \in Nice /\ Weight \in [Nice -> 1 .. UNIT]
    /\ \A nice \in Nice : SHIFT >= CeilDiv(UNIT, Weight[nice])
    /\ SHIFT <= MAXIMUM_INT - MINIMUM_INT

\* Ranges of the process table (proc.h:38-66), signed run times among them, and
\* one process on the CPU.
TypeOK ==
    /\ state \in [Procs -> States] /\ chan \in [Procs -> {0} \cup Procs \cup Chans]
    /\ parent \in [Procs -> {0} \cup Procs] /\ killed \in [Procs -> BOOLEAN]
    /\ priority \in [Procs -> Nice]
    /\ vruntime \in [Procs -> MINIMUM_INT .. MAXIMUM_INT]
    /\ np \in [Procs -> {0} \cup Procs] /\ proc \in {0} \cup Procs
    /\ must \in {"any", "wait", "exit"} /\ scan \in 0 .. NPROC
    /\ timeslice \in 0 .. CeilDiv(SLICE, 1) /\ runtime_interval \in Nat
    /\ \A p \in Procs : state[p] = "RUNNING" <=> proc = p

\* A process that sleeps in wait has a child that will wake it: none has
\* exited already, orphans handed to init included (proc.c:269-279, 327).
NoLostWakeup ==
    \A p \in Procs : state[p] = "SLEEPING" /\ chan[p] = p =>
        /\ Children(p) # {}
        /\ \A q \in Children(p) : state[q] # "ZOMBIE"

\* Processes change order only by running for a tick or by waking up; that run
\* times are moved to make room for a larger one (trap.c:63, proc.c:768) does
\* not reorder those that are ready, nor those that sleep and may be killed.
OrderKept ==
    [][\A p, q \in Procs :
        /\ p # proc /\ {p, q} \subseteq Alive /\ {p, q} \subseteq Alive'
        /\ \A r \in {p, q} : state[r] = "SLEEPING" => state'[r] = "SLEEPING" \/ killed'[r] # killed[r]
        /\ vruntime[p] <= vruntime[q]
        => vruntime'[p] <= vruntime'[q]]_vars

\* If from some time on no process is created or woken, every process that can
\* run does, whatever the weights, also after run times have saturated.
Joins == \E p \in Procs : state'[p] = "RUNNABLE" /\ state[p] \notin {"RUNNABLE", "RUNNING"}
EveryoneRuns ==
    <>[][~Joins]_vars => \A p \in Procs : state[p] = "RUNNABLE" ~> state[p] # "RUNNABLE"
================================================================================

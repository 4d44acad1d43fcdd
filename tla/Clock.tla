-------------------------------- MODULE Clock -------------------------------
(***************************************************************************)
(* Locks, timers, time of day and console of the kernel, on several CPUs   *)
(* whose clock interrupts run on top of what they interrupt.               *)
(*   src/kernel/Port/taslock.c    lock, ilock and their releases           *)
(*   src/kernel/Port/portclock.c  timeradd, timerdel, timerintr            *)
(*   src/kernel/Port/tod.c        todinit, todset, todget                  *)
(*   src/kernel/Bcm/clock.c       the timer of a CPU and its interrupt     *)
(*   src/kernel/Bcm/trap.c        irqenable and irq                        *)
(*   src/kernel/Port/swconsole.c, Libc/fmt/fmt.c  what print locks         *)
(* Each CPU has a stack of frames: what main and its callees do, and above *)
(* it the interrupt handler.  A frame is at a pc.  A step of the top frame *)
(* goes from one acquisition of a lock to the next; a section inside which *)
(* no other lock is taken, and that no interrupt can enter, is one step    *)
(* that needs the lock to be free.  There is no process yet (up is nil),   *)
(* so a lock does not count for the scheduler.                             *)
(***************************************************************************)
EXTENDS Integers, Sequences, SequencesExt, FiniteSets

CONSTANTS
  Cpus,       \* numbers, from 0
  Relative,   \* the timers programs arm; the periodic timer of CPU c is c
  None,
  Period,     \* of the HZ timers, in ticks of the fast clock
  Delay,      \* of the relative timers
  MaxTime,    \* bound on the fast clock
  MaxOps,     \* bound on the operations programs start
  Programs,   \* what programs may start on each CPU
  Times,      \* what todset sets the time to
  Slews,      \* <<delta, n>> of the calls todset(-1, delta, n)
  HZ,         \* Arch_HZ, ticks of CPU 0 in a second
  Half        \* 2^63: a vlong is in -Half..Half-1

ASSUME ClockConstants ==
  /\ Cpus \subseteq Nat /\ 0 \in Cpus
  /\ Relative \cap Cpus = {} /\ None \notin Relative \cup Cpus /\ None \notin Cpus \X Nat
  /\ Period \in Nat /\ Delay \in Nat /\ MaxTime \in Nat /\ MaxOps \in Nat
  /\ Programs \in [Cpus -> SUBSET {"timeradd", "timerdel", "todset", "slew", "todget", "print"}]
  /\ Half \in Nat \ {0} /\ HZ \in Nat \ {0} /\ Times \subseteq Nat /\ Slews \subseteq Int \X Int

VARIABLES
  now,      \* the fast clock, the same on every CPU
  hw,       \* the generic timer of each CPU: [cmp, on]
  spl,      \* "lo" when interrupts are enabled
  lk,       \* each lock: its holder <<cpu, frame>>, and ilock's saved sr
  stack,    \* frames of each CPU
  timer,    \* [tt, twhen] of each Timer
  head,     \* the list of each CPU's Timers
  tod,      \* struct TOD
  ticks,    \* cpu->ticks
  fmts,     \* format characters installed
  vctl,     \* CPUs whose clock interrupt is enabled
  ops,      \* operations started, for the bound
  seen,     \* the time of day last returned, since it was last set
  failed    \* an assert failed

vars == <<now, hw, spl, lk, stack, timer, head, tod, ticks, fmts, vctl, ops, seen, failed>>

Timer == Relative \cup Cpus
Periodic(t) == t \in Cpus
TimerLock(t) == <<"timer", t>>
TimersLock(c) == <<"timers", c>>
Screenlock == <<"screen", None>>
Fmtl == <<"fmt", None>>
Locks == {TimerLock(t) : t \in Timer} \cup {TimersLock(c) : c \in Cpus}
           \cup {Screenlock, Fmtl}

Frame(pc, t) == [pc |-> pc, t |-> t, tt |-> None, now |-> 0, hz |-> FALSE]

Init ==
  /\ now = 1
  /\ hw = [c \in Cpus |-> [cmp |-> 0, on |-> FALSE]]
  /\ spl = [c \in Cpus |-> "hi"]
  /\ lk = [l \in Locks |-> [by |-> None, sr |-> "hi"]]
  /\ stack = [c \in Cpus |-> <<Frame("boot", None)>>]
  /\ timer = [t \in Timer |-> [tt |-> None, twhen |-> 0]]
  /\ head = [c \in Cpus |-> <<>>]
  /\ tod = [init |-> FALSE, divider |-> 0, last |-> 0, off |-> 0, lasttime |-> 0,
            delta |-> 0, sstart |-> 0, send |-> 0]
  /\ ticks = 0
  /\ fmts = {} /\ vctl = {}
  /\ ops = 0
  /\ seen = 0
  /\ failed = FALSE

-----------------------------------------------------------------------------
(* Frames.  Top is what a CPU executes. *)
Top(c) == Last(stack[c])
At(c, pc) == Top(c).pc = pc
Goto(c, f) == stack' = [stack EXCEPT ![c] = Append(Front(@), f)]
Jump(c, pc) == Goto(c, [Top(c) EXCEPT !.pc = pc])
Call(c, pc, f) == stack' = [stack EXCEPT ![c] = Front(@) \o <<[Top(c) EXCEPT !.pc = pc], f>>]
Return(c) == stack' = [stack EXCEPT ![c] = Front(@)]
(* the end of a procedure that programs and other procedures call *)
Finish(c) == IF Len(stack[c]) = 1 THEN Jump(c, "idle") ELSE Return(c)

(***************************************************************************)
(* taslock.c.  A CPU that finds a lock held spins: it takes no step, and   *)
(* ilock lets interrupts in meanwhile if they were.                        *)
(***************************************************************************)
Held(l) == lk[l].by # None
Holder(c) == <<c, Len(stack[c])>>

lock(c, l) == ~Held(l) /\ lk' = [lk EXCEPT ![l].by = Holder(c)] /\ UNCHANGED spl
unlock(c, l) == lk' = [lk EXCEPT ![l].by = None] /\ UNCHANGED spl

(* Mutation of ilock: interrupts stay enabled, as in lock. *)
ilockLow(c, l) == ~Held(l) /\ lk' = [lk EXCEPT ![l] = [by |-> Holder(c), sr |-> spl[c]]] /\ UNCHANGED spl
ilock(c, l) ==
  /\ ~Held(l)
  /\ lk' = [lk EXCEPT ![l] = [by |-> Holder(c), sr |-> spl[c]]]
  /\ spl' = [spl EXCEPT ![c] = "hi"]
iunlock(c, l) ==
  /\ lk' = [lk EXCEPT ![l].by = None]
  /\ spl' = [spl EXCEPT ![c] = lk[l].sr]

-----------------------------------------------------------------------------
(***************************************************************************)
(* portclock.c, with the hardware timer of Bcm/clock.c.                    *)
(***************************************************************************)
arch_timerset(c, when) == [hw EXCEPT ![c] = [cmp |-> when, on |-> TRUE]]

ns2fastticks(ns) == ns * tod.divider
TickOf(t) == ns2fastticks(IF Periodic(t) THEN Period ELSE Delay)

(* tadd: when nt is due, and the list with nt before the first one due later *)
Due(c, nt) ==
  LET same == {t \in ToSet(head[c]) : Periodic(t)}
      from == IF ~Periodic(nt) THEN now
              ELSE IF timer[nt].twhen # 0 THEN timer[nt].twhen
              ELSE IF same # {} THEN timer[CHOOSE t \in same : TRUE].twhen ELSE now
  IN from + TickOf(nt)
Inserted(q, nt, when) ==
  LET later == {i \in 1..Len(q) : timer[q[i]].twhen > when}
  IN InsertAt(q, IF later = {} THEN Len(q) + 1 ELSE Min(later), nt)
tadd(c, nt) ==
  /\ failed' = (failed \/ timer[nt].tt # None)
  /\ timer' = [timer EXCEPT ![nt] = [tt |-> c, twhen |-> Due(c, nt)]]
  /\ head' = [head EXCEPT ![c] = Inserted(@, nt, Due(c, nt))]

(* tdel: dt may have left its list since its caller looked *)
tdel(dt) ==
  LET c == timer[dt].tt
  IN IF c = None \/ dt \notin ToSet(head[c]) THEN UNCHANGED <<timer, head>>
     ELSE /\ timer' = [timer EXCEPT ![dt].tt = None]
          /\ head' = [head EXCEPT ![c] = RemoveAt(@, Min({i \in 1..Len(@) : @[i] = dt}))]

(* Mutation of AddLock: a timer that is armed is not deleted first. *)
AddLockArmed(c) ==
  /\ At(c, "timeradd") /\ ilock(c, TimerLock(Top(c).t)) /\ Jump(c, "tadd")
  /\ UNCHANGED <<now, hw, timer, head, tod, ticks, fmts, vctl, ops, seen, failed>>
(* timeradd: nt->tt is read under nt's lock, before the list is locked *)
AddLock(c) ==
  /\ At(c, "timeradd") /\ ilock(c, TimerLock(Top(c).t))
  /\ Goto(c, [Top(c) EXCEPT !.tt = timer[Top(c).t].tt,
                            !.pc = IF timer[Top(c).t].tt = None THEN "tadd" ELSE "tdel"])
  /\ UNCHANGED <<now, hw, timer, head, tod, ticks, fmts, vctl, ops, seen, failed>>
AddDel(c) ==
  /\ At(c, "tdel") /\ ~Held(TimersLock(Top(c).tt)) /\ tdel(Top(c).t) /\ Jump(c, "tadd")
  /\ UNCHANGED <<now, hw, spl, lk, tod, ticks, fmts, vctl, ops, seen, failed>>
AddAddLock(c) ==
  /\ At(c, "tadd") /\ ilock(c, TimersLock(c)) /\ Jump(c, "tadd locked")
  /\ UNCHANGED <<now, hw, timer, head, tod, ticks, fmts, vctl, ops, seen, failed>>

(* Mutation of AddAdd: the hardware timer is set only for an empty list. *)
AddAddNoSet(c) ==
  /\ At(c, "tadd locked") /\ tadd(c, Top(c).t)
  /\ hw' = IF head[c] = <<>> THEN arch_timerset(c, timer'[Top(c).t].twhen) ELSE hw
  /\ iunlock(c, TimersLock(c)) /\ Jump(c, "timeradd end")
  /\ UNCHANGED <<now, tod, ticks, fmts, vctl, ops, seen>>
AddAdd(c) ==
  /\ At(c, "tadd locked") /\ tadd(c, Top(c).t)
  /\ hw' = IF Head(head'[c]) = Top(c).t THEN arch_timerset(c, timer'[Top(c).t].twhen) ELSE hw
  /\ iunlock(c, TimersLock(c)) /\ Jump(c, "timeradd end")
  /\ UNCHANGED <<now, tod, ticks, fmts, vctl, ops, seen>>
AddEnd(c) ==
  /\ At(c, "timeradd end") /\ iunlock(c, TimerLock(Top(c).t)) /\ Finish(c)
  /\ UNCHANGED <<now, hw, timer, head, tod, ticks, fmts, vctl, ops, seen, failed>>

(* timerdel *)
DelLock(c) ==
  /\ At(c, "timerdel") /\ ilock(c, TimerLock(Top(c).t))
  /\ Goto(c, [Top(c) EXCEPT !.tt = timer[Top(c).t].tt,
                            !.pc = IF timer[Top(c).t].tt = None THEN "timerdel end" ELSE "del"])
  /\ UNCHANGED <<now, hw, timer, head, tod, ticks, fmts, vctl, ops, seen, failed>>
DelDel(c) ==
  /\ At(c, "del") /\ ~Held(TimersLock(Top(c).tt)) /\ tdel(Top(c).t)
  /\ LET q == head[Top(c).tt]
     IN hw' = IF Top(c).tt = c /\ timer[Top(c).t].tt # None /\ Len(q) > 1 /\ q[1] = Top(c).t
              THEN arch_timerset(c, timer[q[2]].twhen) ELSE hw
  /\ Jump(c, "timerdel end")
  /\ UNCHANGED <<now, spl, lk, tod, ticks, fmts, vctl, ops, seen, failed>>
DelEnd(c) ==
  /\ At(c, "timerdel end") /\ iunlock(c, TimerLock(Top(c).t)) /\ Jump(c, "idle")
  /\ UNCHANGED <<now, hw, timer, head, tod, ticks, fmts, vctl, ops, seen, failed>>

(* The interrupt: trap, irq and localclockintr, which prints before it      *)
(* masks the hardware timer and calls timerintr.                            *)
Pending(c) == hw[c].on /\ now >= hw[c].cmp
(* Mutation of Interrupt: irqenable leaves v->cpu at 0. *)
InterruptCpu0(c) ==
  /\ Pending(c) /\ spl[c] = "lo" /\ c \in vctl \cap {0}
  /\ stack' = [stack EXCEPT ![c] = @ \o <<Frame("localclockintr", None), Frame("print", None)>>]
  /\ spl' = [spl EXCEPT ![c] = "hi"]
  /\ UNCHANGED <<now, hw, lk, timer, head, tod, ticks, fmts, vctl, ops, seen, failed>>
Interrupt(c) ==
  /\ Pending(c) /\ spl[c] = "lo" /\ c \in vctl
  /\ stack' = [stack EXCEPT ![c] = @ \o <<Frame("localclockintr", None), Frame("print", None)>>]
  /\ spl' = [spl EXCEPT ![c] = "hi"]
  /\ UNCHANGED <<now, hw, lk, timer, head, tod, ticks, fmts, vctl, ops, seen, failed>>
localclockintr(c) ==
  /\ At(c, "localclockintr")
  /\ hw' = [hw EXCEPT ![c].on = FALSE]
  /\ Goto(c, [Top(c) EXCEPT !.pc = "timerintr", !.now = now])
  /\ UNCHANGED <<now, spl, lk, timer, head, tod, ticks, fmts, vctl, ops, seen, failed>>

(* timerintr: the list is locked, then again after each timer's function *)
IntrLock(c) ==
  /\ At(c, "timerintr") /\ ilock(c, TimersLock(c)) /\ Jump(c, "while")
  /\ UNCHANGED <<now, hw, timer, head, tod, ticks, fmts, vctl, ops, seen, failed>>
(* the list is empty or its head is in the future: the handler returns, by *)
(* hzclock if the HZ timer was among the timers, to what it interrupted    *)
IntrEnd(c) ==
  /\ At(c, "while") /\ (head[c] = <<>> \/ timer[head[c][1]].twhen > Top(c).now)
  /\ hw' = IF head[c] = <<>> THEN hw ELSE arch_timerset(c, timer[head[c][1]].twhen)
  /\ ticks' = IF head[c] # <<>> /\ Top(c).hz /\ c = 0 THEN ticks + 1 ELSE ticks
  /\ lk' = [lk EXCEPT ![TimersLock(c)].by = None]
  /\ spl' = [spl EXCEPT ![c] = "lo"]
  /\ Return(c)
  /\ UNCHANGED <<now, timer, head, tod, fmts, vctl, ops, seen, failed>>
(* the head is taken off; the HZ timer has no function *)
IntrPop(c) ==
  /\ At(c, "while") /\ head[c] # <<>> /\ timer[head[c][1]].twhen <= Top(c).now
  /\ LET t == head[c][1] IN
       /\ failed' = (failed \/ timer[t].tt # c)
       /\ timer' = [timer EXCEPT ![t].tt = None]
       /\ head' = [head EXCEPT ![c] = Tail(@)]
       /\ Goto(c, [Top(c) EXCEPT !.t = t, !.hz = @ \/ Periodic(t),
                                 !.pc = IF Periodic(t) THEN "again" ELSE "tf"])
  /\ iunlock(c, TimersLock(c))
  /\ UNCHANGED <<now, hw, tod, ticks, fmts, vctl, ops, seen>>
(* a timer's function, which may arm its timer again *)
IntrTf(c) ==
  /\ At(c, "tf")
  /\ \/ Jump(c, "again") /\ UNCHANGED ops
     \/ /\ ops < MaxOps /\ ops' = ops + 1
        /\ Call(c, "again", Frame("timeradd", Top(c).t))
  /\ UNCHANGED <<now, hw, spl, lk, timer, head, tod, ticks, fmts, vctl, seen, failed>>
IntrReadd(c) ==
  /\ At(c, "again") /\ ilock(c, TimersLock(c)) /\ Jump(c, "while")
  /\ IF Periodic(Top(c).t) THEN tadd(c, Top(c).t) ELSE UNCHANGED <<timer, head, failed>>
  /\ UNCHANGED <<now, hw, tod, ticks, fmts, vctl, ops, seen>>

timerintr(c) == IntrLock(c) \/ IntrEnd(c) \/ IntrPop(c) \/ IntrTf(c) \/ IntrReadd(c)
timeradd(c) == AddLock(c) \/ AddDel(c) \/ AddAddLock(c) \/ AddAdd(c) \/ AddEnd(c)
timerdel(c) == DelLock(c) \/ DelDel(c) \/ DelEnd(c)

-----------------------------------------------------------------------------
(***************************************************************************)
(* main: clockinit, timersinit and arch_spllo; CPU 0 first.                *)
(***************************************************************************)
(* the handler of a local interrupt is for the CPU that enables it; an      *)
(* entry is complete when it is linked, so that irq needs no lock           *)
irqenable(c) == vctl' = vctl \cup {c}
(* clockinit masks the timer, then links the handler *)
clockinit(c) ==
  /\ At(c, "boot") /\ (c = 0 \/ At(0, "idle"))
  /\ hw' = [hw EXCEPT ![c].on = FALSE] /\ irqenable(c)
  /\ Jump(c, IF tod.init THEN "timersinit" ELSE "todinit")
  /\ UNCHANGED <<now, spl, lk, timer, head, tod, ticks, fmts, ops, seen, failed>>
(* the initial time is read under the lock, then the frequency is set *)
todinit(c) ==
  /\ At(c, "todinit") /\ tod' = [tod EXCEPT !.init = TRUE, !.last = now] /\ Jump(c, "todsetfreq")
  /\ UNCHANGED <<now, hw, spl, lk, timer, head, ticks, fmts, vctl, ops, seen, failed>>
todsetfreq(c) ==
  /\ At(c, "todsetfreq") /\ tod' = [tod EXCEPT !.divider = 1] /\ Jump(c, "timersinit")
  /\ UNCHANGED <<now, hw, spl, lk, timer, head, ticks, fmts, vctl, ops, seen, failed>>
timersinit(c) ==
  /\ At(c, "timersinit") /\ Call(c, "spllo", Frame("timeradd", c))
  /\ UNCHANGED <<now, hw, spl, lk, timer, head, tod, ticks, fmts, vctl, ops, seen, failed>>
arch_spllo(c) ==
  /\ At(c, "spllo") /\ spl' = [spl EXCEPT ![c] = "lo"] /\ Jump(c, "idle")
  /\ UNCHANGED <<now, hw, lk, timer, head, tod, ticks, fmts, vctl, ops, seen, failed>>
Boot(c) == clockinit(c) \/ todinit(c) \/ todsetfreq(c)
             \/ timersinit(c) \/ arch_spllo(c)

-----------------------------------------------------------------------------
(***************************************************************************)
(* tod.c: the frequencies of both clocks are the same here.                *)
(***************************************************************************)
(* vlong and uvlong: the low bits of n as one and as the other *)
Wide == 2 * Half
Unsigned(n) == n % Wide
Signed(n) == IF Unsigned(n) >= Half THEN Unsigned(n) - Wide ELSE Unsigned(n)

(* todset(t >= 0): the time becomes t *)
todset(c) ==
  /\ At(c, "todset")
  /\ \E t \in Times :
       tod' = [tod EXCEPT !.off = t, !.last = now, !.lasttime = 0, !.delta = 0, !.sstart = tod.send]
  /\ seen' = 0 /\ Jump(c, "idle")
  /\ UNCHANGED <<now, hw, spl, lk, timer, head, ticks, fmts, vctl, ops, failed>>
(* todset(-1, delta, n): delta is spread over n seconds, or over as many    *)
(* ticks of CPU 0 as it has nanoseconds (n * HZ is taken to fit an int, so  *)
(* that it is never 0)                                                      *)
Magnitude(delta) == IF delta < 0 THEN -delta ELSE delta
SlewTicks(delta, n) ==
  LET k == (IF n <= 0 THEN 1 ELSE n) * HZ
  IN IF delta # 0 /\ k > Magnitude(delta) THEN Magnitude(delta) ELSE k
PerTick(delta, k) == IF delta < 0 THEN -(Magnitude(delta) \div k) ELSE delta \div k
Slew(c) ==
  /\ At(c, "slew")
  /\ \E a \in Slews :
       LET k == SlewTicks(a[1], a[2])
       IN tod' = [tod EXCEPT !.delta = PerTick(a[1], k), !.sstart = ticks, !.send = ticks + k]
  /\ Jump(c, "idle")
  /\ UNCHANGED <<now, hw, spl, lk, timer, head, ticks, fmts, vctl, ops, seen, failed>>

Corrected ==
  LET t == IF ticks >= tod.send THEN tod.send ELSE ticks
  IN IF tod.sstart = tod.send THEN tod
     ELSE [tod EXCEPT !.off = Signed(@ + tod.delta * (t - tod.sstart)), !.sstart = t]
Elapsed == IF now < tod.last THEN 0 ELSE now - tod.last
(* x, an unsigned number that is compared with and assigned to a signed one *)
Epoch(s) == Unsigned(Elapsed + s.off)
(* Mutation of Todget: the last time is not kept. *)
TodgetNow(s) == [s EXCEPT !.lasttime = Signed(Epoch(s))]
Todget(s) == [s EXCEPT !.lasttime = IF Epoch(s) < Unsigned(@) THEN @ ELSE Signed(Epoch(s))]
todget(c) ==
  /\ At(c, "todget")
  /\ tod' = Todget(Corrected) /\ seen' = tod'.lasttime /\ Jump(c, "idle")
  /\ UNCHANGED <<now, hw, spl, lk, timer, head, ticks, fmts, vctl, ops, failed>>

-----------------------------------------------------------------------------
(***************************************************************************)
(* print: a format character used for the first time is installed, then    *)
(* the text is drawn.                                                      *)
(***************************************************************************)
fmtfmt(c) ==
  /\ At(c, "print")
  /\ IF "d" \in fmts THEN Jump(c, "screenputs") /\ UNCHANGED <<lk, spl>>
     ELSE lock(c, Fmtl) /\ Jump(c, "fmtinstall")
  /\ UNCHANGED <<now, hw, timer, head, tod, ticks, fmts, vctl, ops, seen, failed>>
fmtinstall(c) ==
  /\ At(c, "fmtinstall") /\ fmts' = fmts \cup {"d"} /\ unlock(c, Fmtl) /\ Jump(c, "screenputs")
  /\ UNCHANGED <<now, hw, timer, head, tod, ticks, vctl, ops, seen, failed>>
(* swconsole_screenputs: lock, or canlock when interrupts are disabled *)
screenputs(c) ==
  /\ At(c, "screenputs")
  /\ IF spl[c] = "hi" /\ Held(Screenlock) THEN Finish(c) /\ UNCHANGED <<lk, spl>>
     ELSE lock(c, Screenlock) /\ Jump(c, "putc")
  /\ UNCHANGED <<now, hw, timer, head, tod, ticks, fmts, vctl, ops, seen, failed>>
screenputc(c) ==
  /\ At(c, "putc") /\ unlock(c, Screenlock) /\ Finish(c)
  /\ UNCHANGED <<now, hw, timer, head, tod, ticks, fmts, vctl, ops, seen, failed>>
print(c) == fmtfmt(c) \/ fmtinstall(c) \/ screenputs(c) \/ screenputc(c)

-----------------------------------------------------------------------------
(* Every CPU has been started, in less than a tick. *)
Booted == \A c \in Cpus : stack[c][1].pc \notin {"boot", "todinit", "todsetfreq", "timersinit", "spllo"}

(* what programs do when nothing runs on a CPU *)
Start(c) ==
  /\ At(c, "idle") /\ Booted /\ ops < MaxOps /\ ops' = ops + 1
  /\ \E pc \in Programs[c] :
       \/ pc \in {"timeradd", "timerdel"} /\ \E t \in Relative : Goto(c, Frame(pc, t))
       \/ pc \notin {"timeradd", "timerdel"} /\ Goto(c, Frame(pc, None))
  /\ UNCHANGED <<now, hw, spl, lk, timer, head, tod, ticks, fmts, vctl, seen, failed>>

Tick ==
  /\ Booted /\ now < MaxTime /\ now' = now + 1
  /\ UNCHANGED <<hw, spl, lk, stack, timer, head, tod, ticks, fmts, vctl, ops, seen, failed>>

Step(c) == Boot(c) \/ timeradd(c) \/ timerdel(c) \/ localclockintr(c) \/ timerintr(c)
             \/ todset(c) \/ Slew(c) \/ todget(c) \/ print(c)

Next == Tick \/ \E c \in Cpus : Interrupt(c) \/ Step(c) \/ Start(c)

(* The clock advances, CPUs execute and the hardware interrupts: nothing    *)
(* makes a program start an operation.                                      *)
Fairness == WF_vars(Tick) /\ \A c \in Cpus : WF_vars(Step(c)) /\ WF_vars(Interrupt(c))
Spec == Init /\ [][Next]_vars
FairSpec == Spec /\ Fairness

-----------------------------------------------------------------------------
(* Each timer is on the list its tt names, once, and on no other; lists are *)
(* sorted by deadline; no assertion of tadd or timerintr fails              *)
(* (portclock.c:28, 202), whoever adds and deletes timers meanwhile.        *)
QueuesExact ==
  /\ ~failed
  /\ \A c \in Cpus :
       /\ \A i, j \in 1..Len(head[c]) : i < j =>
            timer[head[c][i]].twhen <= timer[head[c][j]].twhen /\ head[c][i] # head[c][j]
       /\ \A t \in Timer : (timer[t].tt = c) = (t \in ToSet(head[c]))

Handling(c) == \E k \in 1..Len(stack[c]) : stack[c][k].pc \in {"timerintr", "while", "tf", "again"}
(* A CPU whose list is not empty will be interrupted no later than its      *)
(* first deadline, unless its list is locked or its handler is running      *)
(* (timeradd, timerdel and timerintr of portclock.c all set the timer).     *)
HeadArmed ==
  \A c \in Cpus : head[c] # <<>> /\ ~Held(TimersLock(c)) /\ ~Handling(c)
                    => hw[c].on /\ hw[c].cmp <= timer[head[c][1]].twhen

Wants(c) ==
  CASE At(c, "timeradd") \/ At(c, "timerdel") -> {TimerLock(Top(c).t)}
    [] At(c, "tdel") \/ At(c, "del") -> {TimersLock(Top(c).tt)}
    [] At(c, "tadd") \/ At(c, "timerintr") \/ At(c, "again") -> {TimersLock(c)}
    [] At(c, "print") /\ "d" \notin fmts -> {Fmtl}
    [] At(c, "screenputs") /\ spl[c] = "lo" -> {Screenlock}
    [] OTHER -> {}
SelfDeadlock(c) == \E l \in Wants(c) : Held(l) /\ lk[l].by[1] = c
(* A handler never waits for a lock that the code it interrupted holds -    *)
(* except for the lock of the format table, which fmtfmt takes with lock    *)
(* (fmt.c:111) and localclockintr reaches through print.                    *)
NoSelfDeadlock == \A c \in Cpus : SelfDeadlock(c) => Wants(c) = {Fmtl}

(* The time of day never goes backwards on any CPU, set or slewed by any    *)
(* amount meanwhile, except when todset sets it and in one case of the      *)
(* unsigned comparison (tod.c:167): a reader whose corrected time has       *)
(* fallen below 0, or past the largest vlong, gets that one.                *)
Wraps == tod.lasttime >= 0 /\ Epoch(Corrected) >= Half
TimeForward == [][seen' >= seen \/ (\E c \in Cpus : todset(c)) \/ Wraps]_vars

Hung == \E c \in Cpus : SelfDeadlock(c)
(* Every armed relative timer goes off or is deleted, on whichever CPU it   *)
(* was armed (timerintr, portclock.c), unless a CPU hangs in fmtfmt.        *)
TimersFire == \A t \in Relative : timer[t].tt # None /\ timer[t].twhen <= MaxTime ~> (timer[t].tt = None \/ Hung)
=============================================================================

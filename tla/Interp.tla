------------------------------- MODULE Interp -------------------------------
(***************************************************************************)
(* The byte-code interpreter (src/kernel/Byterun/interp.c) with its stack  *)
(* (stacks.c), callbacks from C (callback.c), exceptions raised from C     *)
(* (fail.c) and signals (signals.c).  One step is one instruction or one   *)
(* step of the C code around the interpreter that a signal can separate.   *)
(*                                                                         *)
(* A value is [k, n]: an integer "int", a pointer "blk" to a block, a code *)
(* address "pc" or a stack address "sp".  The machine x is a record:       *)
(*   pc, sp, accu, env, extra   the registers of the running interprete    *)
(*   low, high, mem, trapsp, barrier   the stack, by absolute address      *)
(*   heap, base   the blocks [tag, f]; block i has the address base + i,   *)
(*                and a minor collection moves all of them                 *)
(*   global       the globals, and signal_handlers                         *)
(*   roots        local_roots, the innermost last                          *)
(*   cs           the C stack: activations of interprete, of primitives,   *)
(*                of enter_blocking_section and of handle_signal           *)
(*   ext, depth   external_raise (an index in cs), callback_depth          *)
(*   mode         what the running interprete is doing                     *)
(* An instruction is [op, push, n, m]; push marks the PUSH... variants,    *)
(* and the variants with a number in their name are the general ones.      *)
(***************************************************************************)
EXTENDS TaggedInts, Sequences, FiniteSets, SequencesExt

CONSTANTS
  Programs,     \* set of [code, expected, handler]
  Compute(_, _, _), \* what the instruction op computes on two tagged words
  StackSizes,   \* words in the initial stack
  MaxStack,     \* max_stack_size
  Threshold,    \* Stack_threshold, in words
  MaxSignals,   \* bound: signals that arrive
  MaxGcs        \* bound: minor collections

VARIABLES
  prog,    \* the program that runs, with its code
  x,       \* the machine
  sig,     \* [async, pending, todo, force] of signals.c, and temp, the number just read
  gcs,     \* minor collections so far
  count    \* history of the signals: [arrived, ran, merged, lost]

vars == <<prog, x, sig, gcs, count>>

Num(n) == [k |-> "int", n |-> n]
Ptr(a) == [k |-> "blk", n |-> a]
Pc(i) == [k |-> "pc", n |-> i]
Adr(a) == [k |-> "sp", n |-> a]
Junk == [k |-> "junk", n |-> 0]
Unit == Num(0)
Closure_tag == 250

(* callbackN_code, after the code of the program *)
Op(op, n) == [op |-> op, push |-> FALSE, n |-> n, m |-> 0]
callback_code(n) == <<Op("ACC", n), Op("APPLYK", n), Op("POP", 1), Op("STOP", 0)>>
Loaded(p) == [p EXCEPT !.code = @ \o callback_code(1) \o callback_code(2) \o callback_code(3)]
Code == prog.code

(* the external primitives, modelled below by what their callers see *)
Primitives == {"twice", "apply2", "fail", "urge", "read"}
ASSUME PrimitivesAssumption ==
  \A p \in Programs : \A i \in DOMAIN Loaded(p).code :
    Loaded(p).code[i].op \in {"C_CALL", "C_CALLN"} => Loaded(p).code[i].m \in Primitives
CallbackPc(n) == Len(Code) - 4 * (4 - n) + 1

Block(y, v) == IF v.k = "blk" /\ v.n - y.base \in DOMAIN y.heap THEN y.heap[v.n - y.base]
               ELSE [tag |-> 0, f |-> <<>>]
Field(y, v, i) == LET f == Block(y, v).f IN IF i + 1 \in DOMAIN f THEN f[i + 1] ELSE Junk
Code_val(y, v) == Field(y, v, 0).n
SetField(y, v, i, w) == [y EXCEPT !.heap[v.n - y.base].f[i + 1] = w]

Word(y, i) == IF y.sp + i \in DOMAIN y.mem THEN y.mem[y.sp + i] ELSE Junk      \* sp[i]
Words(y, n) == [i \in 1..n |-> Word(y, i - 1)]
(* sp -= Len(ws); sp[0] = ws[1]; ... *)
Push(y, ws) ==
  [y EXCEPT !.sp = @ - Len(ws),
            !.mem = [a \in DOMAIN @ |-> IF a \in (y.sp - Len(ws))..(y.sp - 1)
                                        THEN ws[a - (y.sp - Len(ws)) + 1] ELSE @[a]]]
Pop(y, n) == [y EXCEPT !.sp = @ + n]
Goto(y, pc) == [y EXCEPT !.pc = pc]
Acc(y, v) == [y EXCEPT !.accu = v]

Enter(y, closure, extra) ==
  [y EXCEPT !.pc = Code_val(y, closure), !.env = closure, !.extra = extra]
ReturnFrame(y, pc) == <<Pc(pc), y.env, Num(y.extra)>>
Leave(y) ==
  [Pop(y, 3) EXCEPT !.pc = Word(y, 0).n, !.env = Word(y, 1), !.extra = Word(y, 2).n]

(***************************************************************************)
(* Allocation.  A minor collection moves every block and updates the stack *)
(* from extern_sp, the local roots and the globals; the registers are      *)
(* saved on the stack around it.                                           *)
(***************************************************************************)
Setup_for_gc(y) == Push(y, <<y.accu, y.env>>)
Restore_after_gc(y) == [Pop(y, 2) EXCEPT !.accu = Word(y, 0), !.env = Word(y, 1)]

minor_collection(y) ==
  LET gap == Len(y.heap) + 1
      Move(v) == IF v.k = "blk" THEN [v EXCEPT !.n = @ + gap] ELSE v
  IN [y EXCEPT !.base = @ + gap,
        !.heap = [i \in DOMAIN @ |-> [@[i] EXCEPT !.f = [j \in DOMAIN @ |-> Move(@[j])]]],
        !.mem = [a \in DOMAIN @ |-> IF a >= y.sp THEN Move(@[a]) ELSE @[a]],
        !.global = [i \in DOMAIN @ |-> Move(@[i])],
        !.roots = [i \in DOMAIN @ |-> Move(@[i])]]

(* Mutation of Collected: the environment is not saved. *)
CollectedKeepEnv(y) ==
  LET z == minor_collection(Push(y, <<y.accu>>)) IN [Pop(z, 1) EXCEPT !.accu = Word(z, 0)]

Collected(y) == Restore_after_gc(minor_collection(Setup_for_gc(y)))

(* whether the allocation collects *)
Gcs == IF gcs < MaxGcs THEN {0, 1} ELSE {0}
AfterGc(y, g) == IF g = 1 THEN Collected(y) ELSE y

(* Alloc_small: a new block of tag t with the fields fs *)
NewBlock(y, t, fs) == [y EXCEPT !.heap = Append(@, [tag |-> t, f |-> fs])]
Newest(y) == Ptr(y.base + Len(y.heap))
WithNew(y, t, fs) == LET z == NewBlock(y, t, fs) IN Acc(z, Newest(z))

(***************************************************************************)
(* stacks.c                                                                *)
(***************************************************************************)
(* the links of the trap frames from tp up, shifted by d *)
ShiftLinks(mem, tp, high, d) ==
  LET Frames[t \in Int] == IF t >= high \/ t + 1 \notin DOMAIN mem THEN {}
                           ELSE {t} \cup Frames[mem[t + 1].n + d]
      links == {t + 1 : t \in Frames[tp]}
  IN [a \in DOMAIN mem |-> IF a \in links THEN [mem[a] EXCEPT !.n = @ + d] ELSE mem[a]]

(* Mutation of realloc_stack: only the innermost trap frame is updated. *)
realloc_stackFirstLink(y) ==
  LET size == 2 * (y.high - y.low)  low == y.high + 5  high == low + size  d == high - y.high
      copy == [a \in low..(high - 1) |-> IF a - d \in DOMAIN y.mem /\ a - d >= y.sp THEN y.mem[a - d] ELSE Junk]
  IN [y EXCEPT !.low = low, !.high = high, !.sp = @ + d, !.trapsp = @ + d, !.barrier = @ + d,
               !.mem = IF y.trapsp + d < high THEN [copy EXCEPT ![y.trapsp + d + 1].n = @ + d] ELSE copy]

realloc_stack(y) ==
  LET size == 2 * (y.high - y.low)  low == y.high + 5  high == low + size  d == high - y.high
      copy == [a \in low..(high - 1) |-> IF a - d \in DOMAIN y.mem /\ a - d >= y.sp THEN y.mem[a - d] ELSE Junk]
  IN [y EXCEPT !.low = low, !.high = high, !.sp = @ + d, !.trapsp = @ + d, !.barrier = @ + d,
               !.mem = ShiftLinks(copy, y.trapsp + d, high, d)]

(***************************************************************************)
(* Exceptions raised from C: mlraise jumps to the interprete of            *)
(* external_raise, which restores what it saved when it started and goes   *)
(* to raise_exception.                                                     *)
(***************************************************************************)
Raising(y, v) == [y EXCEPT !.accu = v, !.mode = "raise"]
mlraise(y, v) ==
  IF y.ext = 0 THEN [y EXCEPT !.cs = <<>>, !.accu = v, !.mode = "uncaught"]
  ELSE LET f == y.cs[y.ext]
       IN Raising([y EXCEPT !.cs = SubSeq(@, 1, y.ext), !.roots = SubSeq(@, 1, f.roots),
                            !.depth = f.depth], v)
(* raise_constant allocates the bucket *)
raise_constant(y, exn) == LET z == NewBlock(y, 0, <<Num(exn)>>) IN mlraise(z, Newest(z))
STACK_OVERFLOW_EXN == 1
ZERO_DIVIDE_EXN == 2
FAILURE_EXN == 3

(* check_stacks, at the end of every application, and CHECK_SIGNALS *)
CheckSignals(y) == IF sig.todo THEN [y EXCEPT !.mode = "signal"] ELSE y
check_stacks(y) ==
  IF y.sp >= y.low + Threshold THEN CheckSignals(y)
  ELSE IF y.high - y.low >= MaxStack THEN raise_constant(y, STACK_OVERFLOW_EXN)
  ELSE CheckSignals(realloc_stack(y))

(***************************************************************************)
(* The instructions.  Run(op, y): the machine is now y.                    *)
(***************************************************************************)
Interp(f) == f.k = "interp"
Running == x.cs # <<>> /\ Interp(Last(x.cs)) /\ x.mode = "run" /\ x.pc \in DOMAIN Code
I == Code[x.pc]
Is(ops) == Running /\ I.op \in ops
(* after the fetch, and after the push of a PUSH... variant *)
Fetched == LET y == [x EXCEPT !.pc = @ + 1] IN IF I.push THEN Push(y, <<x.accu>>) ELSE y
Now(y) == x' = y /\ UNCHANGED <<prog, sig, count>>
Step(y) == Now(y) /\ UNCHANGED gcs
(* y allocates a block of tag t with the fields Fs(_) *)
Alloc(y, Fs(_), t) ==
  \E g \in Gcs : /\ gcs' = gcs + g
                 /\ \E z \in {AfterGc(y, g)} : Now(WithNew(z, t, Fs(z)))

Basic ==
  /\ Is({"ACC", "PUSH", "POP", "ASSIGN", "ENVACC", "CONSTINT", "ATOM"})
  /\ Step(CASE I.op = "ACC" -> Acc(Fetched, Word(Fetched, I.n))
            [] I.op = "PUSH" -> Push(Fetched, <<x.accu>>)
            [] I.op = "POP" -> Pop(Fetched, I.n)
            [] I.op = "ASSIGN" -> [Fetched EXCEPT !.mem[x.sp + I.n] = x.accu, !.accu = Unit]
            [] I.op = "ENVACC" -> Acc(Fetched, Field(x, x.env, I.n))
            [] I.op = "CONSTINT" -> Acc(Fetched, Num(I.n))
            [] I.op = "ATOM" -> Acc(NewBlock(Fetched, I.n, <<>>), Ptr(x.base + Len(x.heap) + 1)))

PUSH_RETADDR == Is({"PUSH_RETADDR"}) /\ Step(Push(Fetched, ReturnFrame(x, I.n)))

APPLY == Is({"APPLY"}) /\ Step(check_stacks(Enter(x, x.accu, I.n - 1)))

(* APPLY1, APPLY2, APPLY3 make the return frame themselves *)
APPLYK ==
  /\ Is({"APPLYK"})
  /\ Step(check_stacks(Enter(Push(Pop(x, I.n), Words(x, I.n) \o ReturnFrame(x, x.pc + 1)), x.accu, I.n - 1)))

APPTERM ==
  /\ Is({"APPTERM"})
  /\ Step(check_stacks(Enter(Push(Pop(x, I.m), Words(x, I.n)), x.accu, x.extra + I.n - 1)))

RETURN ==
  /\ Is({"RETURN"})
  /\ Step(IF x.extra > 0 THEN Enter(Pop(x, I.n), x.accu, x.extra - 1) ELSE Leave(Pop(x, I.n)))

RESTART ==
  /\ Is({"RESTART"})
  /\ LET old == Block(x, x.env).f
     IN Step([Push(Fetched, SubSeq(old, 3, Len(old))) EXCEPT
                !.env = Field(x, x.env, 1), !.extra = @ + Len(old) - 2])

GRAB ==
  /\ Is({"GRAB"})
  /\ \/ x.extra >= I.n /\ Step([Fetched EXCEPT !.extra = @ - I.n])
     \/ x.extra < I.n /\ \E g \in Gcs :
          /\ gcs' = gcs + g
          /\ \E z \in {AfterGc(Fetched, g)} :
               Now(Leave(Pop(WithNew(z, Closure_tag, <<Pc(x.pc - 1), z.env>> \o Words(z, z.extra + 1)), z.extra + 1)))

(* CLOSURE n pc and CLOSUREREC n pc; the field 1 of a recursive closure is *)
(* the closure itself.                                                     *)
CLOSURE ==
  /\ Is({"CLOSURE", "CLOSUREREC"})
  /\ LET y == IF I.n > 0 THEN Push(Fetched, <<x.accu>>) ELSE Fetched
         Self(z) == IF I.op = "CLOSUREREC" THEN <<Ptr(z.base + Len(z.heap) + 1)>> ELSE <<>>
     IN \E g \in Gcs :
          /\ gcs' = gcs + g
          /\ \E z \in {AfterGc(y, g)} :
               Now(Pop(WithNew(z, Closure_tag, <<Pc(I.m)>> \o Self(z) \o Words(z, I.n)), I.n))

Globals ==
  /\ Is({"GETGLOBAL", "SETGLOBAL", "GETGLOBALFIELD"})
  /\ Step(CASE I.op = "GETGLOBAL" -> Acc(Fetched, x.global[I.n])
            [] I.op = "GETGLOBALFIELD" -> Acc(Fetched, Field(x, x.global[I.n], I.m))
            [] I.op = "SETGLOBAL" -> [Fetched EXCEPT !.global[I.n] = x.accu, !.accu = Unit])

MAKEBLOCK ==
  /\ Is({"MAKEBLOCK"})
  /\ \E g \in Gcs :
       /\ gcs' = gcs + g
       /\ \E z \in {AfterGc(Fetched, g)} :
            Now(Pop(WithNew(z, I.m, <<z.accu>> \o Words(z, I.n - 1)), I.n - 1))

DUMMY == Is({"DUMMY"}) /\ Alloc(Fetched, LAMBDA z : [i \in 1..I.n |-> Num(0)], 0)

Fields ==
  /\ Is({"GETFIELD", "SETFIELD", "UPDATE", "VECTLENGTH", "GETVECTITEM", "SETVECTITEM", "OFFSETREF"})
  /\ Step(CASE I.op = "GETFIELD" -> Acc(Fetched, Field(x, x.accu, I.n))
            [] I.op = "SETFIELD" -> Acc(SetField(Pop(Fetched, 1), x.accu, I.n, Word(x, 0)), Unit)
            [] I.op = "UPDATE" ->
                 Acc([Pop(Fetched, 1) EXCEPT !.heap[x.accu.n - x.base] = Block(x, Word(x, 0))], Unit)
            [] I.op = "VECTLENGTH" -> Acc(Fetched, Num(Len(Block(x, x.accu).f)))
            [] I.op = "GETVECTITEM" -> Acc(Pop(Fetched, 1), Field(x, x.accu, Word(x, 0).n))
            [] I.op = "SETVECTITEM" ->
                 Acc(SetField(Pop(Fetched, 2), x.accu, Word(x, 0).n, Word(x, 1)), Unit)
            [] I.op = "OFFSETREF" ->
                 Acc(SetField(Fetched, x.accu, 0, Num(Integer(Field(x, x.accu, 0).n + I.n))), Unit))

IsFalse(v) == v = Num(0)
(* SWITCH: m holds the targets of the integers and of the tags *)
Target ==
  CASE I.op = "BRANCH" -> I.n
    [] I.op = "BRANCHIF" -> IF IsFalse(x.accu) THEN x.pc + 1 ELSE I.n
    [] I.op = "BRANCHIFNOT" -> IF IsFalse(x.accu) THEN I.n ELSE x.pc + 1
    [] I.op = "SWITCH" ->
         IF x.accu.k = "blk" THEN I.m.tags[Block(x, x.accu).tag + 1]
         ELSE IF x.accu.n + 1 \in DOMAIN I.m.ints THEN I.m.ints[x.accu.n + 1] ELSE x.pc + 1
Branch == Is({"BRANCH", "BRANCHIF", "BRANCHIFNOT", "SWITCH"}) /\ Step(Goto(x, Target))

(* the tagged words of accu and *sp++ *)
Computed(b) == Num(Long_val(Compute(I.op, Val_long(x.accu.n), Val_long(b))))
Arithmetic ==
  /\ Is(Ops \cup {"BOOLNOT"})
  /\ Step(IF I.op = "BOOLNOT" THEN Acc(Fetched, Num(Long_val(Val_not(Val_long(x.accu.n)))))
          ELSE IF I.op = "NEGINT" THEN Acc(Fetched, Computed(0))
          ELSE IF I.op = "OFFSETINT" THEN Acc(Fetched, Computed(I.n))
          ELSE IF I.op \in {"DIVINT", "MODINT"} /\ Word(x, 0).n = 0
          THEN raise_constant(Push(Pop(Fetched, 1), <<x.env>>), ZERO_DIVIDE_EXN)
          ELSE Acc(Pop(Fetched, 1), Computed(Word(x, 0).n)))

PUSHTRAP ==
  /\ Is({"PUSHTRAP"})
  /\ LET y == Push(Fetched, <<Pc(I.n), Adr(x.trapsp), x.env, Num(x.extra)>>)
     IN Step([y EXCEPT !.trapsp = y.sp])

POPTRAP == Is({"POPTRAP"}) /\ Step([Pop(Fetched, 4) EXCEPT !.trapsp = Word(x, 1).n])

RAISE == Is({"RAISE"}) /\ Step(Raising(x, x.accu))

(* raise_exception: to the innermost trap frame; when that frame is above  *)
(* the stack this interprete started with, the exception leaves it.        *)
raise_exception ==
  /\ x.mode = "raise"
  /\ LET f == Last(x.cs)  y == [x EXCEPT !.sp = x.trapsp]
     IN Step(IF y.sp >= x.high - f.offset
             THEN mlraise([y EXCEPT !.ext = f.ext], x.accu)
             ELSE [Pop(y, 4) EXCEPT !.mode = "run", !.pc = Word(y, 0).n, !.trapsp = Word(y, 1).n,
                                    !.env = Word(y, 2), !.extra = Word(y, 3).n])

CHECK_SIGNALS == Is({"CHECK_SIGNALS"}) /\ Step(CheckSignals(Fetched))

(* Mutation of STOP: external_raise is not restored. *)
STOPKeepRaise ==
  /\ Is({"STOP"})
  /\ Step([x EXCEPT !.cs = Front(@), !.mode = IF Len(x.cs) = 1 THEN "stopped" ELSE "run"])

STOP ==
  /\ Is({"STOP"})
  /\ LET f == Last(x.cs)
     IN Step([x EXCEPT !.ext = f.ext, !.cs = Front(@), !.mode = IF Len(x.cs) = 1 THEN "stopped" ELSE "run"])

(***************************************************************************)
(* process_signal, in the steps that a signal can separate.                *)
(***************************************************************************)
(* Mutation of process_signal: the flag is cleared after the number.       *)
process_signalFlagLast ==
  /\ x.mode \in {"signal", "take", "reset"} /\ UNCHANGED prog
  /\ \/ /\ x.mode = "signal" /\ x' = [x EXCEPT !.mode = "take"] /\ UNCHANGED <<sig, gcs, count>>
     \/ /\ x.mode = "take" /\ x' = [x EXCEPT !.mode = "reset"]
        /\ sig' = [sig EXCEPT !.temp = sig.pending, !.pending = 0] /\ UNCHANGED <<gcs, count>>
     \/ /\ x.mode = "reset" /\ sig' = [sig EXCEPT !.todo = FALSE, !.temp = 0]
        /\ x' = [IF sig.temp = 0 THEN x
                 ELSE Enter(Push(x, <<Num(sig.temp)>> \o ReturnFrame(x, x.pc)), x.global[1], 0)
                 EXCEPT !.mode = "run"]
        /\ count' = [count EXCEPT !.ran = @ + sig.temp]
        /\ UNCHANGED gcs

process_signal ==
  /\ x.mode \in {"signal", "take", "reset"} /\ UNCHANGED prog
  /\ \/ /\ x.mode = "signal"
        /\ sig' = [sig EXCEPT !.todo = FALSE, !.force = FALSE]
        /\ gcs' = IF sig.force THEN gcs + 1 ELSE gcs
        /\ x' = [IF sig.force THEN Collected(x) ELSE x EXCEPT !.mode = "take"]
        /\ UNCHANGED count
     \/ /\ x.mode = "take" /\ x' = [x EXCEPT !.mode = "reset"]
        /\ sig' = [sig EXCEPT !.temp = sig.pending] /\ UNCHANGED <<gcs, count>>
     \/ /\ x.mode = "reset" /\ sig' = [sig EXCEPT !.pending = 0, !.temp = 0]
        /\ x' = [IF sig.temp = 0 THEN x
                 ELSE Enter(Push(x, <<Num(sig.temp)>> \o ReturnFrame(x, x.pc)), x.global[1], 0)
                 EXCEPT !.mode = "run"]
        /\ count' = [count EXCEPT !.ran = @ + sig.temp,
                                  !.lost = IF sig.temp = 0 THEN @ + sig.pending ELSE @]
        /\ UNCHANGED gcs

(***************************************************************************)
(* C code.  interprete starts with what it saves; callbackN pushes its     *)
(* arguments and the closure.                                              *)
(***************************************************************************)
interprete(y, pc) ==
  [y EXCEPT !.cs = Append(@, [k |-> "interp", at |-> 0, offset |-> y.high - y.sp, ext |-> y.ext,
                              roots |-> Len(y.roots), depth |-> y.depth, args |-> <<>>, pc |-> 0, extra |-> 0, pop |-> 0]),
            !.ext = Len(y.cs) + 1,
            !.pc = pc, !.extra = 0, !.env = Unit, !.accu = Num(0), !.mode = "run"]

callback(y, closure, args) ==
  interprete([Push(y, args \o <<closure>>) EXCEPT !.depth = @ + 1], CallbackPc(Len(args)))

CFrame(k, args) ==
  [k |-> k, at |-> 1, offset |-> 0, ext |-> 0, roots |-> 0, depth |-> 0, args |-> args, pc |-> 0, extra |-> 0, pop |-> 0]
(* the activation on top goes to its step at *)
At(y, at) == [y EXCEPT !.cs[Len(y.cs)].at = at]
InC(k, at) == x.cs # <<>> /\ Last(x.cs).k = k /\ Last(x.cs).at = at /\ x.mode = "run"

(* C_CALL1 to C_CALL5 and C_CALLN; the registers pc and extra_args stay in *)
(* the activation of interprete.                                           *)
C_CALL ==
  /\ Is({"C_CALL", "C_CALLN"})
  /\ LET y == Push(IF I.op = "C_CALLN" THEN Push(x, <<x.accu>>) ELSE x, <<x.env>>)
         args == <<x.accu>> \o Words(x, I.n - 1)
     IN Step([y EXCEPT !.cs = Append([@ EXCEPT ![Len(@)].pc = x.pc + 1, ![Len(@)].extra = x.extra,
                                               ![Len(@)].pop = IF I.op = "C_CALLN" THEN I.n ELSE I.n - 1],
                                     CFrame(I.m, args))])

(* the primitive returns v: Restore_after_c_call *)
CReturn(y, v) ==
  LET cs == Front(y.cs)  f == Last(cs)
  IN [Pop(y, 1 + f.pop) EXCEPT !.cs = cs, !.env = Word(y, 0), !.accu = v, !.pc = f.pc, !.extra = f.extra]

(* External primitives.  "twice" calls its argument on 1 and then on 2,    *)
(* keeping it in a local root; "fail" raises; "apply2" is callback2;       *)
(* "read" blocks in a system call.                                         *)
PrimTwice ==
  \/ InC("twice", 1) /\ Step(callback(At([x EXCEPT !.roots = Append(@, Last(x.cs).args[1])], 2), Last(x.cs).args[1], <<Num(1)>>))
  \/ InC("twice", 2) /\ Step(callback([At(x, 3) EXCEPT !.depth = @ - 1], Last(x.roots), <<Num(2)>>))
  \/ InC("twice", 3) /\ Step(CReturn([x EXCEPT !.depth = @ - 1, !.roots = Front(@)], x.accu))

PrimApply2 ==
  \/ InC("apply2", 1) /\ Step(callback(At(x, 2), Last(x.cs).args[1], Tail(Last(x.cs).args)))
  \/ InC("apply2", 2) /\ Step(CReturn([x EXCEPT !.depth = @ - 1], x.accu))

failwith ==
  /\ InC("fail", 1)
  /\ \E g \in Gcs : gcs' = gcs + g /\ Now(raise_constant(IF g = 1 THEN minor_collection(x) ELSE x, FAILURE_EXN))

(* urge_major_slice, from a primitive that allocates a lot *)
urge_major_slice ==
  /\ InC("urge", 1)
  /\ x' = CReturn(x, Unit) /\ sig' = [sig EXCEPT !.force = TRUE, !.todo = TRUE]
  /\ UNCHANGED <<prog, gcs, count>>

PrimRead ==
  \/ InC("read", 1) /\ Step([At(x, 2) EXCEPT !.cs = Append(@, CFrame("enter", <<>>))])
  \/ /\ InC("read", 2)                             \* leave_blocking_section
     /\ x' = CReturn(x, Num(5)) /\ sig' = [sig EXCEPT !.async = FALSE]
     /\ UNCHANGED <<prog, gcs, count>>

(* enter_blocking_section; execute_signal runs the handler as a callback *)
enter_blocking_section ==
  /\ \E at \in 1..5 : InC("enter", at)
  /\ UNCHANGED <<prog, gcs>>
  /\ \/ /\ InC("enter", 1) /\ x' = At(x, 2)
        /\ sig' = [sig EXCEPT !.temp = sig.pending] /\ UNCHANGED count
     \/ /\ InC("enter", 2) /\ sig' = [sig EXCEPT !.pending = 0, !.temp = 0]
        /\ x' = IF sig.temp # 0 THEN callback(At(x, 3), x.global[1], <<Num(sig.temp)>>) ELSE At(x, 4)
        /\ count' = [count EXCEPT !.ran = @ + sig.temp,
                                  !.lost = IF sig.temp = 0 THEN @ + sig.pending ELSE @]
     \/ InC("enter", 3) /\ x' = [At(x, 4) EXCEPT !.depth = @ - 1] /\ UNCHANGED <<sig, count>>
     \/ InC("enter", 4) /\ x' = At(x, 5) /\ sig' = [sig EXCEPT !.async = TRUE] /\ UNCHANGED count
     \/ /\ InC("enter", 5) /\ UNCHANGED count
        /\ sig' = [sig EXCEPT !.async = (sig.pending = 0)]
        /\ x' = IF sig.pending = 0 THEN [x EXCEPT !.cs = Front(@)] ELSE At(x, 1)

(* A signal arrives.  In a blocking section its handler runs at once. *)
handle_signal ==
  /\ count.arrived < MaxSignals /\ x.mode \notin {"stopped", "uncaught"}
  /\ UNCHANGED <<prog, gcs>>
  /\ IF sig.async
     THEN /\ sig' = [sig EXCEPT !.async = FALSE]
          /\ x' = callback([x EXCEPT !.cs = Append(@, CFrame("handle", <<>>))], x.global[1], <<Num(1)>>)
          /\ count' = [count EXCEPT !.arrived = @ + 1, !.ran = @ + 1]
     ELSE /\ sig' = [sig EXCEPT !.pending = 1, !.todo = TRUE]
          /\ UNCHANGED x
          /\ count' = [count EXCEPT !.arrived = @ + 1, !.merged = @ + sig.pending]

HandleEnd ==
  \/ InC("handle", 1) /\ Step([At(x, 2) EXCEPT !.depth = @ - 1, !.cs = Append(@, CFrame("enter", <<>>))])
  \/ InC("handle", 2) /\ Step([x EXCEPT !.cs = Front(@)])

(***************************************************************************)
(* The start: init_stack, then main calls interprete.  The globals are the *)
(* signal handler, a counter it increments, and one more.                  *)
(***************************************************************************)
init_stack(size) ==
  [low |-> 0, high |-> size, mem |-> [a \in 0..(size - 1) |-> Junk], sp |-> size,
   trapsp |-> size, barrier |-> size + 1, accu |-> Num(0), env |-> Unit, extra |-> 0, pc |-> 1,
   base |-> 0, heap |-> <<>>, global |-> <<>>, roots |-> <<>>, cs |-> <<>>, ext |-> 0, depth |-> 0,
   mode |-> "run"]

Init ==
  /\ \E p \in Programs : prog = Loaded(p)
  /\ \E size \in StackSizes :
       x = interprete([init_stack(size) EXCEPT
             !.heap = <<[tag |-> Closure_tag, f |-> <<Pc(prog.handler)>>], [tag |-> 0, f |-> <<Num(0)>>]>>,
             !.global = <<Ptr(1), Ptr(2), Num(0)>>], 1)
  /\ sig = [async |-> FALSE, pending |-> 0, todo |-> FALSE, force |-> FALSE, temp |-> 0]
  /\ gcs = 0
  /\ count = [arrived |-> 0, ran |-> 0, merged |-> 0, lost |-> 0]

Instruction ==
  \/ Basic \/ PUSH_RETADDR \/ APPLY \/ APPLYK \/ APPTERM \/ RETURN \/ RESTART \/ GRAB \/ CLOSURE
  \/ Globals \/ MAKEBLOCK \/ DUMMY \/ Fields \/ Branch \/ Arithmetic
  \/ PUSHTRAP \/ POPTRAP \/ RAISE \/ CHECK_SIGNALS \/ STOP \/ C_CALL
Machine ==
  \/ Instruction \/ raise_exception \/ process_signal
  \/ PrimTwice \/ PrimApply2 \/ failwith \/ urge_major_slice \/ PrimRead
  \/ enter_blocking_section \/ HandleEnd
Next == Machine \/ handle_signal

Spec == Init /\ [][Next]_vars

-----------------------------------------------------------------------------
(***************************************************************************)
(* Properties                                                              *)
(***************************************************************************)
Decode(y, v) ==
  LET D[w \in [k : {"int", "blk", "pc", "sp", "junk"}, n : Int]] ==
        IF w.k = "blk" THEN [tag |-> Block(y, w).tag, f |-> [i \in DOMAIN Block(y, w).f |-> D[Block(y, w).f[i]]]]
        ELSE w
  IN D[v]

(* Whenever signals arrive, wherever the stack is reallocated and whenever *)
(* the collector moves the heap, a program ends with its own result: the   *)
(* registers, partial applications, trap frames, local roots and callbacks *)
(* are saved and restored around all of them, and the stack is empty.      *)
(* What the handler counted is the number of handlers that ran.            *)
ResultExact ==
  /\ x.mode = "run" /\ Interp(Last(x.cs)) => x.pc \in DOMAIN Code
  /\ x.mode = "stopped" =>
       /\ Decode(x, x.accu) = prog.expected
       /\ x.sp = x.high /\ x.trapsp = x.high /\ x.depth = 0 /\ x.roots = <<>> /\ x.ext = 0
       /\ Field(x, x.global[2], 0) = Num(Integer(count.ran))
  /\ x.mode = "uncaught" => Decode(x, x.accu) = prog.expected

Traps ==
  LET From[tp \in Int] ==
        IF tp \notin x.low..(x.high - 1) THEN <<tp>>
        ELSE <<tp>> \o (IF x.mem[tp + 1].k # "sp" \/ x.mem[tp + 1].n <= tp THEN <<-1>> ELSE From[x.mem[tp + 1].n])
  IN From[x.trapsp]
(* The trap frames form a chain from trapsp up to the base of the stack,   *)
(* above sp, wherever the stack was moved; the stack pointer stays in the  *)
(* stack (the assertions of interp.c).                                     *)
TrapChain ==
  x.mode \notin {"stopped", "uncaught"} =>
    \E chain \in {Traps} :
      /\ Last(chain) = x.high /\ x.barrier = x.high + 1
      /\ x.low <= x.sp /\ x.sp <= x.trapsp
      /\ \A t \in ToSet(Front(chain)) : x.mem[t].k = "pc" /\ x.mem[t + 3].k = "int"

(* While a program runs, external_raise is the innermost activation of     *)
(* interprete on the C stack, whoever returned, raised or was interrupted  *)
(* by a handler: an exception raised from C never jumps into an activation *)
(* that has returned, nor past one that is still there.                    *)
ExternalRaise ==
  x.mode \notin {"stopped", "uncaught"} =>
    LET interps == {i \in DOMAIN x.cs : Interp(x.cs[i])}
    IN x.ext \in interps /\ \A i \in interps : i <= x.ext

Taken == IF sig.temp # 0 THEN 1 ELSE sig.pending
(* A signal that arrived has run its handler, is pending or was merged     *)
(* with one that was; only a signal that arrives just between the two      *)
(* instructions that read and reset pending_signal is lost (signals.c:72). *)
(* A pending signal is seen by the next check: something_to_do is set.     *)
SignalsKept ==
  /\ count.arrived = count.ran + count.merged + count.lost + Taken
  /\ sig.pending # 0 => sig.todo \/ x.mode \in {"take", "reset"}
  /\ sig.async => \E k \in {"read", "enter", "handle"} : Last(x.cs).k = k
=============================================================================

# TLA+ models of plan9-ocaml

This directory holds a verification project for *plan9-ocaml*, a collection of Plan 9 programs
rewritten in OCaml (`mk`, `rc`, `rio`, `git`, `5c`, `5l`, ...), with the C kernel, libraries and
byte-code run-time system they run on. TLA+ modules model the parts whose correctness depends on
order, concurrency, failure or delicate data structures; TLC checks them on small instances; TLAPS
proves some of the properties for every instance. `PROJECT.json` maps every definition to the
lines it models.

## 1. Inventory

| component | state it keeps | operations | interacts with | what is hard |
|---|---|---|---|---|
| **mk: graph** (`src/mk/graph.ml`, `percent.ml`, `rules.ml`, rule registration of `eval.ml`) | table of nodes, their arcs, flags `probable`, `is_virtual`, `visited` | `apply_rules`, `check_cycle`, `vacuous`, `check_ambiguous`, `propagate_attributes` | called once per target of the command line; later targets find the nodes of earlier ones | passes that modify a shared graph while they walk it; patterns against specific rules; rules with several targets |
| **mk: traversal** (`outofdate.ml`) | `state` and `time` of the nodes | `work`, `dorecipe` | hands jobs to the scheduler | decides from cached times, at every pass again |
| **mk: scheduler** (`scheduler.ml`, `job.ml`) | queue `jobs`, table `running`, counter `nrunning` | `run`, `sched`, `waitup` | forks shells, reaps them, `Graph.update` | bounded pool; children end in any order, fail, are killed |
| **mk: driver** (`main.ml`) | the target being built | `build_targets`, `build_target`, handler of `Failure` | all of the above | two loops that wait for children, a third after an error |
| **threads and events** (`src/lib_core/threads`, `src/kernel/Byterun/scheduler.c`) | circular list of threads, mutexes, conditions, queues of offers | `sync`, `poll`, `select`, `lock`, `unlock`, `wait`, `signal`, `sleep`, `wakeup` | everything that uses channels: rio, the input threads of lib_graphics | preemption, lost wake-ups, stale offers |
| **run-time system: collector** (`src/kernel/Byterun`: `memory.c`, `minor_gc.c`, `major_gc.c`, `freelist.c`, `compact.c`, `weak.c`) | two generations, colours, `ref_table`, `gray_vals`, the free list and its cursors, chunks | allocation, `Modify`, minor collection, slices of mark and sweep, `expand_heap`, compaction, `weak_get` | the interpreter and every primitive | the program changes the graph between two slices |
| **run-time system: interpreter** (`interp.c`, `stacks.c`, `signals.c`, `callback.c`, `fail.c`) | registers, stack, trap frames, local roots, pending signal | the instructions, `realloc_stack`, `callback`, `mlraise`, `handle_signal` | the collector moves its blocks, C primitives call it back | registers and links that must survive moves; signals between any two instructions |
| **run-time system: values** (`extern.c`, `intern.c`, `compare.c`, `hash.c`) | table of written objects, output block | `output_value`, `input_value`, `compare`, `hash_univ_param` | the heap | sharing, cycles, a table that outlives a failed call |
| **kernel: allocators** (`Libc/port/pool.c`, `Port/xalloc.c`, `Port/alloc.c`) | tree of free blocks, arenas, holes | `malloc`, `free`, `realloc`, `mallocalign`, `msize`, `xalloc`, `xfree`, `xspanalloc` | everything in the kernel | long sequences of splits and merges |
| **kernel: windows** (`Libmemlayer`) | order of layers, save areas, the screen | `memlalloc`, `memldelete`, `memlorigin`, `memltofront`, `memltorear`, `memldraw`, `memload`, `memunload` | the drawing library | a pixel is on the screen or in a save area, and moves |
| **kernel: drawing** (`Libmemdraw`, `Libgeometry`) | images | `memimagedraw`, polygons, ellipses, arcs, lines, load and unload | | fast paths that must agree; integer geometry |
| **kernel: clock** (`Port/portclock.c`, `tod.c`, `taslock.c`, `Bcm/clock.c`, `trap.c`) | one list of timers per CPU, hardware timer, time of day, locks | `timeradd`, `timerdel`, `timerintr`, `todget`, `todset`, `ilock`, `print` | interrupts on top of what they interrupt, several CPUs | lock order, interrupts, re-arming |
| **kernel: C library** (`Libc/arm/vlrt.c`, `Libc/port`, `Libc/fmt`) | print buffers | 64-bit arithmetic, UTF-8, `strtoul`, `qsort`, `print` | | carries, boundaries of buffers and runes |
| **rio** (`src/windows`) | windows, current window, fids, terminals | one thread per window, mouse, keyboard, one thread per 9P request | synchronous channels; several rendez-vous per request | chains of rendez-vous, threads that die, modes that change in the middle |
| **rc** (`src/shell`) | stack of threads, redirections, `$status` | opcodes, `waitfor` | fork, pipes, wait | a wait may reap another pipeline's child |
| **ocamlgit** (`src/version_control`) | objects, references, index | `commit_index`, `fetch`, `set_ref` ... | other git processes, through files | updates without lock or comparison, interrupted sequences of writes |
| **kernel in OCaml** (`src/kernel/**/*.ml`) | processes, locks, pages | `Qlock`, exit and await, `sched` | interrupts, other processors | sleep and wake-up races; much of it is a sketch |
| compiler, assembler, linker, macroprocessor, formats, lex, yacc, lib_parsing | syntax trees, object files | sequential translation | files | correctness inductive over programs |
| lib_graphics, lib_system, lib_core (other) | none of interest here | bindings, codecs, data structures | | |

What makes each modelled component correct:

* **mk** makes every node once, after what it depends on; runs only the recipes that are needed;
  never starts more than `$NPROC` shells nor forgets a queued one; ends; when it says success,
  everything is up to date and no recipe has failed; when it fails, no child is left running.
* **graph**: exactly the nodes and arcs the mkfile implies, minus the arcs of patterns that lead
  nowhere; cycles and ambiguities reported exactly when there are some.
* **events**: a communication is a rendez-vous of one send and one receive; no wake-up and no
  possible rendez-vous is missed; no exception escapes from the library.

* **collector**: nothing the program can reach is freed, moved without its pointers or cut; no gray
  block is forgotten; chunks are filled by blocks and the free list holds the free ones.
* **interpreter**: a program's result does not depend on when the stack or the heap moves or a signal
  arrives; a signal is handled, pending or merged; an exception raised from C reaches the innermost
  `interprete` that is still active.
* **allocators**: what a caller wrote stays there; no memory is given twice or lost.
* **windows**: the screen shows the front windows, and covered pixels are not lost.
* **clock**: lists sorted and consistent, hardware armed for the first deadline, timers go off, the
  time does not go back, and a CPU does not wait for a lock it holds.
* **libraries**: each function computes what its specification says, on the borders too.

The hazards, each at its line, are the list `hazards` of `PROJECT.json`.

## 2. Modules

| module | models |
|---|---|
| `MkBuild` | mk's driver, traversal and scheduler, and the recipes as concurrent actors |
| `TopoBuild` | abstract: a parallel topological build. `MkBuild` implements it |
| `MCMkBuild` | two mkfiles for TLC |
| `MkBuildProofs` | theorems about `MkBuild`, for every mkfile |
| `MkTopoProofs` | theorems about `MkBuild`, for every plain mkfile and command line: what is built, in which order, and what success means |
| `SeqLemmas` | lemmas about sequences that the proofs share: what is in a tail, a suffix, a concatenation, a sequence with an element inserted or removed; the least of a set |
| `MkGraph`, `MCMkGraph` | construction of the graph, and a pool of rules for TLC |
| `Event`, `MCEvent` | threads, mutex, condition, channels, and small programs for TLC |
| `Rendezvous` | abstract: synchronous channels. `Event` implements it |
| `EventProofs`, `RendezvousProofs` | theorems about `Event`: wake-ups; rendez-vous and the refinement |
| `Gc`, `FreeList`, `MCGc` | the collector beside a mutator; the free list it allocates from |
| `Interp`, `TaggedInts`, `Ints`, `MCInterp` | the byte-code interpreter; integers with a tag bit; the instructions on them; nineteen programs |
| `InterpProofs` | theorems about `Interp`: signals and `external_raise` |
| `Pool`, `Xalloc`, `MCPool` | the pool allocator, over the allocator of holes |
| `Layers`, `MCLayers` | overlapping windows |
| `Desktop` | abstract: the screen shows the front windows. `Layers` implements it |
| `Clock`, `MCClock` | locks, timers, time of day and console on several CPUs |
| `ClockExec`, `ClockProofs` | proofs about `Clock`: stacks, locks and interrupts; then timers, hardware and time of day, with the theorems |
| `Vlrt`, `Memdraw`, `Geometry`, `Raster`, `Marshal`, `Compare`, `Text`, `Fmt` | algorithms, as operators, with the laws they should obey |
| `Calls`, `ArithmeticCalls`, `DrawCalls`, `RasterCalls`, `ValueCalls`, `TextCalls`, `MCAlgorithms` | a machine that makes one call of an algorithm from each idle state |

Operators whose name extends that of a definition and whose comment starts with "Mutation of" are
wrong versions of that definition (a dropped guard, an off-by-one). They are not used by the
specifications; replacing the definition by one of them must make TLC find a given property
violated (`mutants` in `PROJECT.json`), which shows that the property depends on that code.

### MkBuild

mk is one thread; the concurrency comes from the shells it forks. `work` is recursive, so its
activations are an explicit `stack` of frames (`node`, the arc it looks at, `ready`, `ood`) and a
step is the code between two calls:

| code | action |
|---|---|
| `build_target`: `build_graph`, head of the loop, after a pass, second loop | `BuildGraph`, `StartPass`, `AfterPass`, `LeaveLoop`, `NextGoal` |
| `work`: node being made, leaf, node, recursion, return, arc without prerequisite, the three ends | `WorkBeingMade`, `WorkLeaf`, `WorkNode`, `WorkRecurse`, `WorkReturned`, `WorkNoDest`, `WorkNotReady`, `WorkUpToDate`, `NeedsRecipe` |
| `dorecipe`: virtual node, no recipe, recipe (`Scheduler.run` included) | `DorecipeVirtual`, `DorecipeMissing`, `Dorecipe` |
| `waitup`: success (with `Graph.update` and the `sched` that follows), error | `Waitup`, `WaitupError` |
| handler of `Failure` | `FailWait`, `FailExit` |
| a recipe ends (external) | `ChildEnd` |

Times are natural numbers; 0 is `None`, 1 is the time 1.0 of virtual targets. The graph is a
constant: what `MkGraph` computes. Nodes created for an earlier target keep their state, except
that virtual ones lose their time, as `propagate_attributes` does. `sched` and `run` are operators
over the record of globals `s` that their caller has already modified. Recipes write any subset of
their targets before they fail; `Tick` is how far the clock moves between two recipes, and 0
models a coarse clock. Abstracted away: the environment of a recipe, printing, `-e` explanations,
the set of prerequisites passed to the shell. A job's target nodes are a set: a mkfile that lists
a target twice in one rule is not covered. In dry mode nothing is forked and a recipe makes its targets
in the step that would start it, at the time of the clock (the code takes `Unix.time()`, in whole
seconds), so `OnlyStaleRebuilt`, which is about recipes that run, says nothing there.

### MkGraph

The recursive functions of `graph.ml` are recursive operators that thread the arcs they modify; one
step is one pass. A name is a stem and a suffix, a pattern is `%` and a suffix, so that `match_` and
`subst` keep their meaning without strings. Each pass is compared with a definition that does not
follow the code's recursion (smallest closed sets). Prerequisites of a pattern hold a `%`: the
exception `PercentNotFound` (`percent.ml:60`) is not modelled.

### Event

`curr` is the current thread; every action belongs to it, and `schedule_thread` picks the next
`RUNNABLE` one of the circular list. Preemption can happen between any two steps unless
`critical_section` is set; at this commit the signal handler is not installed
(`thread.ml:112`, "TODO put back"), so the runs cover both `preemptive` values. `calls[t]` holds
what each call of `basic_sync` or `basic_poll` allocates: the permutation of `scramble_array`,
`performed`, the `data` of each communication. The threads wait for each other only: the `select` of
the scheduler, for delays, processes and file descriptors, is left out, and the last thread to end is the
main one, whose end is the program's, so the refusal to kill the last thread (`scheduler.c:583`) does not
occur. Offers name a thread, a call and an event number, so
stale offers stay in the queues as in the code. `performed` counts from 1; 0 is the code's -1.

| code | action |
|---|---|
| `sync`, `poll`: allocation | `Begin` |
| `Mutex.lock` | `LockFree`, `LockBusy`, `LockSleep` |
| `poll_events`: `always`, `send`, `receive`, nothing | `PollAlways`, `PollSend`, `PollReceive`, `PollFails` |
| `Condition.signal` | `Signal` |
| `suspend` of every event | `Suspend` |
| `Condition.wait` | `Wait`, `Wake`, `WaitSleep`, then `LockFree` or `LockBusy` |
| `Mutex.unlock` | `Unlock`, `Wake` |
| `result` | `Result` |
| `Thread.exit` | `Exit` |
| `preempt` | `Preempt` |

### Gc and FreeList

A value is 0, the address of a major block, or `-k` for the k-th young block; a block has a colour, a
tag and fields. `Mutator` allocates, reads, writes (`Store`, the macro `Modify`), reads and writes weak
arrays; `MinorCollection` is `minor_collection` (`oldify` from the roots and `ref_table`) followed by
one iteration of the loop of `mark_slice` or `sweep_slice` - the code's slices are as long as their
budget, and a longer one is several collections in a row. `Compaction` is a full major
cycle and `compact_heap`; the chains of inverted pointers of `compact.c` are sets. `FreeList` keeps
the list as a sequence with `fl_prev`, `fl_merge` and `last_fragment`, and fragments of size 0.
`malloc` returns the chunks of `Spares`, in that order; `behind` is a ghost: a chunk was added below the
sweep at the end of the list. `compact_allocate` stops at the last chunk, where the code reads the header
of NULL (a hazard).
`gray_vals` cannot grow in the runs, so that it overflows.

### Interp and Ints

`x` is the whole machine: registers, stack by absolute address, heap, local roots, C stack. A step is
one instruction, or one part of the C code around it that a signal can separate (the two assignments
that take `pending_signal`, for instance). A minor collection moves every block; `realloc_stack`
moves the stack; both can happen wherever the code may call them, up to a bound. Instructions that
differ only by an operand in their name are one instruction; what an integer instruction computes is
the parameter `Compute`, which the run sets to `Arith` of `Ints`, so that the theorems do not depend on
it. `cs` is the C stack: `external_raise` is an index in it, and every activation of `interprete` saves
the previous one. Doubles, strings and the debugger are left out.

### Pool and Xalloc

Sizes count units of eight bytes. Every operation runs under the pool's lock, so it is one step. The
free tree (splay-like insertion and removal, lists of blocks of one size), the headers, the tails that
are not always valid, the skipped part of an aligned block and the arenas are explicit; memory maps
every unit to what was last written there, so that a header written over data shows.

### Layers

`s` is a record of the screen, the order and the layers; `want` is a ghost: what each owner drew. The
recursive `_memlayerop` over the layers in front, with its four rectangles around each obstacle, is
kept. Deleting, moving, raising, lowering, changing the refresh function and drawing are actions.
Draws have no mask, so the mask's point that `draw.c:136-141` moves with the rectangle is not there.

### Clock

Each CPU has a stack of frames: the code it runs, and above it its interrupt handler. A step goes from
one acquisition of a lock to the next. `now` is the fast clock; `hw[c]` the comparator of a CPU.
Programs start operations on an idle CPU, up to `MaxOps`. `todset` sets the time to any of `Times`, or
slews it by any of `Slews`, a pair of what is added and for how many seconds. The time of day has the
widths of the code: `tod.off` and `tod.lasttime` are signed (`Signed`, in `-Half..Half-1`), the sum `x` of
`todget` is unsigned (`Epoch`), and they are compared as C does, by their unsigned values. The clock runs
at one tick per nanosecond. `ClockConstants` says that CPU 0 exists and
that timers, CPUs and `None` are different things. `Spec` has no fairness, and is what the theorems are
about; `FairSpec` adds it, for `TimersFire`.

### Algorithms

`Vlrt` has words of `W` bits, so that all pairs of operands can be tried. `Memdraw` has bytes of
`Bits` bits and images of a few pixels; it follows the code's choice of a path, then its buffers
(`Param`, readers, converters, calculations). `readbyte` expands pixels into a flat buffer and says where
their bytes are looked for; for a source with alpha these are not where they were written (see the exceptions), and
beyond the line they are one arbitrary byte, `mem[drawbuf]`. `pixelbits` takes the remainder of `x` with the
sign of `x`, as C does, and the readers of `alphadraw.c` do not; the replicated images of the run start
at 0, where the two agree. Colour maps are left out. `Raster` describes a figure by the set of pixels it
paints. `Marshal` produces the bytes and reads them back into a new heap; `Compare` and the hash run on
the same heaps. `Fmt` keeps the state of a `Fmt`: flags, width, precision, buffer, flushes; a flush
always succeeds. `Raster`'s numbers do not overflow (`fillpoly.c:287`).

## 3. Runs

| run | states | question |
|---|---|---|
| `mk_yacc` | 238,396 | is the build a topological build, minimal, complete and terminating? |
| `mk_failures` | 551,324 | do the pool and the exits survive recipes that fail or are killed? |
| `mk_delete` | violation | does the attribute D leave no half-written target? |
| `mk_graph` | 108,376 | does each pass of `build_graph` compute what it should? |
| `event` | 59,885 | do locks, conditions and queues implement synchronous channels? |
| `gc` | 718,117 | do barrier, tables, marking, sweeping and compaction keep what is reachable? |
| `gc_sorted` | violation | is the free list always in the order of the addresses? |
| `pool` | 83,273 | do the allocators keep their structures and their callers' data? |
| `layers` | 25,452 | is the screen the composition of the windows, and is no pixel lost? |
| `clock` | 439,730 | do timers, interrupts, locks and the time of day work on two CPUs? |
| `interp` | 34,316 | does a program's result depend on when signals and moves happen? |
| `algorithms` | 52,715 | does each library function compute what it should? |

**Bounds.** `mk_yacc`: eight nodes with a virtual root, a diamond, a rule with two targets and a
chain of three recipes, missing, old and new files in every combination (except that `y.c` and `y.h`
start with equal times: see the hazard at `outofdate.ml:96`), one and two processes, dry
mode or not, one or two targets on the command line; with two processes the pool is full, a job
waits and a slot is freed in the same build. The clock may stand still between two recipes
(`Tick` is 0 or 1): mk does not take a recipe that wrote within one tick for one that wrote nothing
(`RewritesSeen`), because it compares times with `<` and so never runs a recipe whose target is already of
this tick. The one virtual node is the root and has no recipe. `mk_failures`: four independent recipes over a pool of
one or two, so that up to three jobs wait when another one fails; each may fail, be killed, or leave
a partial target, the clock may stand still; a leaf may be missing, and one goal needs a file that has
no recipe. `mk_graph`: ten rules chosen so
that their subsets hold patterns competing with specific rules, rules with several targets, chains of
patterns, cycles, virtual targets and useless rules; sixteen sets of files. `event`: three threads
and two channels, at most two calls each: a server with two clients, three threads that may all send
or receive, a poller, and a sender with stale offers in front of the live one. Every permutation of
each `select` is explored.
`gc`: one chunk of nine words and one that `malloc` may add, above or below it, a young
generation of four words, a `gray_vals` of two entries, three operations of the mutator between any number of
collections: enough for a store into a scanned block, an overflow of `gray_vals`, a sweep
suspended on the block that an allocation then takes, a chunk inserted in front of the free list, at its
end, below and above the sweep, and a compaction. `pool`: 64 units, three
objects of two sizes, two alignments, five operations: blocks are split, merged on both sides, grown
in place and moved, arenas are added and joined, and `xhole` runs out of slots. `layers`: two windows
(and the shadow that a move creates) on a screen of six pixels, in three overlapping places, one
partly off the screen, and four operations. `clock`: two CPUs with their periodic timers, one timer that both arm and
one deletes, three ticks and three operations, so that an interrupt finds each operation at each of
its locks; two slews, one that slows the clock and one that takes it below zero. `interp`: nineteen programs (all groupings of a curried call, tail calls, exceptions through
C and callbacks, closures that share a block, switches, signals during a blocking section), stacks of
16 and 40 words of which the first must grow, two signals, two collections. `algorithms`: the sets are
in the `...Calls` modules; they hold the borders of every case (word and byte limits, partial bytes,
empty figures, clipped ones, overlaps, cycles, shared and infix pointers, truncated buffers, bad UTF-8).

**Fairness.** `MkBuild`: weak fairness of mk itself (one thread that always runs unless it blocks in
`wait`) and of the end of each recipe (`Terminates` says nothing if a recipe hangs). `Event`: strong
fairness of each thread's steps. The timer's period is far longer than a step, so a thread that is
current makes progress before it is preempted, and the list is circular, so a thread that stays
runnable becomes current again and again. `Clock`: weak fairness of the fast clock (hardware), of each
CPU's steps and of the delivery of a pending interrupt; nothing makes a program start an operation.
A CPU that waits for itself in `fmtfmt` (see the hazards) is excepted. The other runs check
safety only.

**Deadlock** is checked in the runs of `mk`, its graph and the events, where `Exited`, `Finished` and
`Stopped` are the legitimate ends. The other models stop when their operations are used up, a program
has ended or the one call is made, so it is off there; a CPU that waits for ever is what
`NoSelfDeadlock` and `TimersFire` are about.

**Exceptions that the properties state**, each at its line in `hazards`: a signal between two given
instructions is lost (`signals.c:72`, as its comment says); `fmtfmt` may deadlock with the clock
interrupt; what is shared after an infix pointer is read back wrong, float arrays are not read
at all; NaN is outside the order and 0.0 equals -0.0 with another hash; `vlrt` wraps the quotient of
the most negative number by -1; the 1-bit path of `memoptdraw` ignores the operator; and three where the
code does not do what its comments say:

* `Wraps` in `TimeForward`: "time can't go backwards" (`tod.c:166`), but `x` is a `uvlong`; once slewing has
  taken it below zero it is taken for a later time, and the reader gets a negative one;
* `behind` in `FreeListExact`: the list may be out of order after a chunk was added below the sweep (a
  finding, below);
* `MisreadsAlpha` in `DrawExact`: a coloured source on a grey destination "is converted using the NTSC
  formula" (`alphadraw.c:221`), but `copyalpha` is the flag `Falpha`, 8, where one byte is meant
  (`alphadraw.c:1127`), so an expanded source with alpha (replicated, or on a grey image) is read from wrong
  places. Such a draw is only held to the bits it may change.

`RasterExact` allows half a pixel around the edges of a polygon.

### Findings

* `mk_delete`. The handler of `Failure` waits for the remaining children "otherwise could get
  corrupted incomplete object files" (`main.ml:288`), but ignores their status: a recipe with the
  attribute D that fails there keeps its partial target. The counterexample has two failing recipes.
* `gc_sorted`. "The free-list is kept sorted by increasing addresses" (`freelist.c:20`), but a chunk that is
  appended to the list below the sweep leaves `fl_merge` behind it (`freelist.c:251`), and the sweep, which
  goes on in a higher chunk, inserts the next free block in front of it.

## 4. Proofs

`tlapm` checks every theorem and lemma to the last leaf, for every value of the constants.

| module | theorem | statement |
|---|---|---|
| `MkBuildProofs` | `TypeCorrect` | `Spec => []TypeOK` |
| | `PoolIsExact` | `Spec => []PoolAccounting` |
| | `JobsAreNotLost` | `Spec => []NoLostJob` |
| | `ExitLeavesNoChild` | `Spec => []NoOrphans` |
| | `SuccessIsWhole` | `Spec => []SuccessMeansWhole` |
| `MkTopoProofs` | `BuildIsTopological` | `PlainMkfile /\ PlainGoals /\ Spec => ImplementsTopoBuild` |
| | `RecipesAreNeeded` | `PlainMkfile /\ PlainGoals /\ Spec => OnlyStaleRebuilt` |
| | `ExitMeansUpToDate` | `PlainMkfile /\ PlainGoals /\ Spec => []ExitUpToDate` |
| `EventProofs` | `TypeCorrect` | `Spec => []TypeOK` |
| | `WakeupsKept` | `Spec => []NoLostWakeup` |
| `RendezvousProofs` | `RendezvousFound` | `Spec => []NoMissedRendezvous` |
| | `ChannelsAreSynchronous` | `Spec => ImplementsRendezvous` |
| `ClockProofs` | `TypeCorrect` | `Spec => []TypeOK` |
| | `LocksExact` | `Spec => [](HeldInv /\ SplInv)` |
| | `HandlersNotStuck` | `Spec => []NoSelfDeadlock` |
| | `QueuesCorrect` | `Spec => []QueuesExact` |
| | `HardwareArmed` | `Spec => []HeadArmed` |
| | `TimeMonotonic` | `Spec => TimeForward` |
| `InterpProofs` | `InterpInvariant` | `Spec => []InterpInv` |
| | `SignalsNotLost` | `Spec => []SignalsKept` |
| | `ExternalRaiseExact` | `Spec => []ExternalRaise` |

The bounds that make the runs finite (`MaxOps`, `MaxTime`, the number of calls of a program) are
parameters of the theorems like the others: they hold for every bound. The inductive invariants were
first checked by TLC as invariants of the runs, then proved.

### MkBuild

Assumptions: `ConstantTypes` (the graph is a function from nodes to sequences of arcs, `$NPROC` is a
natural number, command lines are not empty ...) and `NoJobIsNotAJob`. For the theorems of
`MkBuildProofs` neither acyclicity nor finiteness of the graph is needed.

`TypeInv` is `TypeOK` and the fact that a child that is still alive has an entry in `running`:
without it `ChildEnd` could write anything. `PoolInv` adds to `TypeInv` that `kids` is finite and
counted by `nrunning`, the bound, `NoLostJob`, `NoOrphans`, and that dry mode forks nothing. The
parts need each other: a queued job implies a *full* pool only because `nrunning` is bounded; `run`
leaves nothing in the queue when it starts a job only because the queue was empty (`NoLostJob`
itself); `waitup` replaces the child it reaps only because it does not happen in dry mode, where
`sched` forks nothing; and `nrunning = 0` means no child only because the counter is exact.
`LeastElement` and `MasterRuleType` show that the rule chosen by `dorecipe` exists, `SchedEffect`
and `SchedCounts` state once what `sched` does, for both its callers.

`WholeInv` follows a half-written file: once there is one, mk is on its way to a failure or the child
that left it has ended and is not reaped yet (`FailedKid`). With `NoOrphans` no such child exists at
exit, which gives `SuccessMeansWhole`.

### MkBuild: the build as a whole (`MkTopoProofs`)

That the build is topological, minimal and complete is not true of every mkfile: the code relies on
conditions that it does not check. `PlainMkfile` and `PlainGoals` state them. Any graph, finite or not,
any number of recipes that fail, are killed or write some of their targets, and any clock are allowed.
Acyclicity keeps `work` from recursing for ever; for each other bullet below TLC found a build of at
most eight nodes that breaks one of the three properties when the condition is dropped:

* `$NPROC` is not 0. Otherwise `run` queues the recipe of a root, nothing ever starts it, and mk
  exits with status 0 (hazard at `scheduler.ml:25`).
* No file is newer than the clock when mk starts. Otherwise what a recipe has just written is out of
  date, and the recipe runs at the next pass again.
* No node depends on itself. `check_cycle` refuses such graphs before the build starts (`MkGraph`).
* The targets of a rule with a recipe have the same prerequisites, are all files or all virtual (V is
  an attribute of the rule), and are as old as each other when mk starts. `dorecipe` marks them all as being made when one of them
  is ready and out of date: with other times or prerequisites it takes a node that was already found
  up to date, or one whose own prerequisites are not made (hazard at `outofdate.ml:96`).
* A virtual target that has a recipe is a prerequisite of nothing. Otherwise it has the time 1.0 when
  it is made, is out of date at the next pass, and its recipe runs again (hazard at `graph.ml:378`).
* `PlainGoals`, for each rule with a recipe: either two targets of the command line that need some of its
  files need the same ones (`Together`), or it makes files, mk runs without `-n`, and its recipe does
  not succeed without writing. Otherwise the second target of the command line adds to the graph a file
  of a rule whose recipe has already run, with the old time that is still on disk.

`MCMkBuild` assumes, and TLC evaluates, that the mkfile of `mk_yacc` is plain; so are its command lines,
except for `mk -n y.o all`. `TopoInv` was checked by TLC on that run and on two other mkfiles
(rules with two targets, virtual nodes with and without recipe, failures, several targets) before it was
proved.

`TopoInv` is `PoolInv` and, until mk fails, three groups of facts. `DataInv` relates the graph to the
disk: made nodes have only made prerequisites, which are not newer (`MadeInv`); a node that is being made
has made prerequisites and a recipe that is queued or running (`BeingMadeInv`); what mk knows of a file
is what is on disk, unless its recipe is active (`SeenInv`); no two active recipes are for one rule, and
a job's nodes are exactly the targets of its rule that are in the graph (`JobsInv`); the files a child
wrote have one time, not older than their prerequisites (`Written`), which is what `update` needs;
and the targets of one rule have one time (`TwinsInv`), on disk until the recipe starts and,
in the table, always - so that when one of them is out of date none of the others has been found up to
date. `StackInv` says what the flags of each activation of `work` mean: `ready` that the arcs seen so far
lead to made nodes, `ood` that one of them is newer or the node is missing; that the activations follow
a path, so that a recipe started at the top touches no node below (`OuterNodes`, which needs acyclicity);
and that an activation on a node that is already made ends by finding it up to date. `LoopInv` says that
earlier targets of the command line are made, and that nothing is active between two targets. Each
activation, job and child is carried over a step by one lemma (`FrameKept`, `QueuedKept`, `KidKept`) whose
hypotheses say what the step must leave alone. `StateMoves` sums up what any step, the failing ones
included, does to the states of the nodes; the refinement and `OnlyStaleRebuilt` follow from it and from
`TopoInv`. At exit the made nodes are a closed set that contains the targets, hence everything they
reach (`ReachIsLeast`), which gives `ExitUpToDate`.

### Event

Assumption: `EventConstants` (the ring visits every thread once, programs are sequences of calls whose
events name channels, `NoData` is not a value and `NoOffer` not an offer). Any number of threads, any
programs, preemptive or not.

`CoreInv` has six parts, which need each other:
`TypeInv` (types; every offer in a queue names a call its thread really made and an event of it),
`LockInv` (`masterlock` has one holder, and a critical section is not preempted),
`SchedInv` and `WaitInv` (a suspended thread is in exactly one of three places: the list of the mutex,
the list of a thread in the middle of `Mutex.unlock`, its condition),
`QueueInv` (what an offer in a queue was made for), `CallInv` (a call that nobody has matched is its
thread's current one; a thread whose call was matched is about to be signalled by the thread that did)
and `DataInv` (a receive that was performed has its data). `NoLostWakeup` follows.

For the rendez-vous, `OfferInv` says that a thread that offers has all its offers in the queues and that
a thread that polls has found no live offer for the events it has tried. `MeetInv`, of which
`NoMissedRendezvous` is a consequence, is kept because the thread that publishes its offers has just
polled all its events under the mutex (`PolledAll`), and a stale offer hides no live one (`OfferTaken`).
The refinement maps the results of a thread to the calls that are over (`Outcomes`). `OnceInv` (a call
is performed once, by an event it has) makes them grow one at a time; `RefineStep` shows that each step
is a stutter, an `Always`, a `Nothing`, or a `Meeting` of two threads at the instant the polling thread
sets both calls.

### Clock

Assumption: `ClockConstants`. Any number of CPUs and timers, any programs, any bounds.

The proof has two layers, because what the code does to the lists is safe only in view of the locks it
holds, and which locks it holds follows from the stacks alone. `ExecInv` (`ClockExec`) does not mention
the lists: `StackInv` (the five shapes a stack can have, and which timer a frame works on - the periodic
timer of a CPU only at its boot and in its handler), `SplInv` (interrupts are enabled exactly while a
program runs outside `ilock`), `HeldInv` (a lock is held by exactly the frame that is between its
acquisition and release) and `SavedInv` (what `iunlock` will restore). `NoSelfDeadlock` follows
(`NotOwn`): under an interrupted CPU there is only code that runs with interrupts enabled, which holds
no lock of a timer or a list. The layer is closed except for one fact about the lists, `HeadOwn`: the
timer a handler takes off is relative or the CPU's own.

`QueueInv` (`ClockProofs`) provides it: `ListInv` (lists sorted, each timer on the list that its `tt`
names), `ArmInv` (what a frame that holds a timer's lock knows of its `tt` - it read it before it
locked the list), `OwnInv` (a periodic timer is on its own CPU's list or on none) and `ArmedInv`
(stronger than `HeadArmed`: it holds while the list is locked, too). `ArmInv` is where the race between
a deletion and the handler of another CPU shows: a frame in `tdel` knows that the timer is on the list
it read *or on none*, which is all that `tdel` needs, and only the frame that is about to add a timer
(`Alone`, by `HeldInv`) may put it on a list. `tadd`, `tdel` and the handler are described once, as
`Links` and `Unlinks`, from the lemmas on inserted and removed elements. `SeenInv` (what was last
returned is `tod.lasttime`, a signed number) gives `TimeForward`, with the lemmas on a number's unsigned and
signed representations (`Representation`, `OwnRepresentation`): for any times and slews, and any `Half`, a
reader's time is not earlier than the last one unless `todset` has set it or `Wraps` holds.

### Interp

Assumption: `PrimitivesAssumption` (a program calls only the primitives that are modelled). Any code,
even one that no compiler produces, any sizes of the stack, any number of signals and collections.

Both theorems only depend on the C stack, `external_raise`, the mode and the flags of `signals.c`;
`Alike` says once that stack, heap and registers may change freely, and each instruction is shown to be
alike, to check for signals (`CheckIs`) or to raise (`RaisedIn`). `MachineInv` describes the C stack:
each activation of `interprete` saved the index of the one that was innermost below it (`CsInv`), so
returning from it, or leaving it by an exception, restores the right one; the activations of
`enter_blocking_section` and of `handle_signal` are above code that is *ready* for a signal (`ReadyAt`:
a blocking primitive, a handler that has returned, or `enter_blocking_section` between setting
`async_signal_mode` and its second look at `pending_signal`). This is what makes leaving
`async_signal_mode` set correct when `enter_blocking_section` returns, and it is why a handler that
interrupts a blocking section can set it again. `SignalInv` counts: a number that was read is still
pending until it is reset, and a pending signal is announced by `something_to_do` except between the
steps of `process_signal`.

### Only model-checked

* Liveness under fairness: `Terminates`, `TimersFire`.
* That `mk -n y.o all` on the mkfile of `mk_yacc`, whose targets do not need the same files of the rule
  for `yacc`, is minimal and topological: `PlainGoals` leaves it out.
* `ResultExact` and `TrapChain` of `Interp`: the first is about what each program computes; the second
  holds only for code in which every `PUSHTRAP` meets its `POPTRAP`, a property of the compiler's output.
* `MkGraph`, `Pool`, `Layers`, `Gc`, `Marshal`, `Raster`, `Fmt` ...: their operators are
  recursive (the passes of the graph, the free tree, `_memlayerop`, `oldify` and marking, the encoders), or
  what they compute for every input is inductive over data, which the provers cannot instantiate.

## 5. Plan

Done: `MkBuild`, `MkGraph`, `Event`, `Gc`, `Interp`, `Pool`, `Layers`, `Clock`, the algorithms, their
abstract specifications, and the proofs above. In order:

1. **rio** (`Rio`): mouse, keyboard, window and file-server threads, the channels as atomic
   rendez-vous (justified by `Event` implementing `Rendezvous`), the protocols of `/dev/cons` and
   `/dev/mouse`, creation, deletion, hiding and resizing of windows. Properties: no reader gets
   another reader's bytes, every request is answered, the threads never wait for each other in a
   circle, no key is lost when raw mode changes. One or two runs.
2. **ocamlgit** (`GitRefs`): references and index under concurrent commands and crashes between
   writes. Properties: a commit that reported success is reachable; a reference never points to a
   missing object. One run, perhaps one violation.
3. **rc** (`RcPipe`): the interpreter's threads, fork, pipes, `waitfor`. Properties: each child is
   reaped once and its status reaches the right pipeline; the descriptors are closed, so readers see
   the end of file. One run.
4. **kernel** (`KernelLock`): Qlock hand-over, exit and await. One run.
5. `Event` with `delay`, `join` and `wait_pid` of the scheduler.
6. Proofs: `RememberedSet` of `Gc` and the invariants of `Xalloc`, for which their folds and recursive
   helpers must become functions first.

## 6. Not modelled

Translators (compiler, assembler, linker, macroprocessor, lex, yacc) and codecs are sequential
functions over unbounded data, whose correctness is inductive over that data. Graphics protocols,
system-call bindings and buffered I/O have no protocol of their own here. Of the C code: device
registers, page tables and traps other than the clock's (hardware), floating point (`floats.c`,
conversions of doubles other than `vlrt.c`'s), fonts and colour maps, the debugger, the parsing and
lexing engines, start-up code, and functions that only dump or check structures (the checks
are the properties). Directories that are empty at this commit (submodules) are listed in
`PROJECT.json`.

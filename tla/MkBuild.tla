------------------------------ MODULE MkBuild ------------------------------
(***************************************************************************)
(* The build loop of mk (src/mk): main.ml's build_targets and build_target *)
(* drive outofdate.ml's traversal of the dependency graph, which queues    *)
(* recipes in scheduler.ml; the scheduler forks at most $NPROC shells and  *)
(* waitup reaps them in whatever order they end.                           *)
(*                                                                         *)
(* mk is a single thread.  Its recursion `work' is an explicit stack of    *)
(* frames, so that one step of the model is one segment of the code        *)
(* between two calls.  The forked shells are the concurrent actors: each   *)
(* ends at any moment, with any exit status its rule allows, after having  *)
(* written some of its targets.                                            *)
(***************************************************************************)
EXTENDS Integers, Sequences, FiniteSets, Functions

CONSTANTS
  Node,           \* names of the targets and prerequisites
  NoNode,         \* the None of an arc without prerequisite
  Rule,           \* the rules (Rules.rule_exec) of the mkfile
  NoJob,          \* an empty entry of the table `running'
  Pid,            \* process identifiers
  NProcs,         \* the values $NPROC may have (2 when unset)
  Arcs,           \* node.arcs, the graph built by graph.ml
  AllTargets,     \* rule.all_targets
  HasRecipe,      \* the rules with a recipe
  DeleteOnError,  \* the rules with the attribute D
  IsVirtual,      \* the nodes that a rule with the attribute V makes
  GoalLists,      \* command lines: the targets in the order they are built
  DryModes,       \* whether mk -n is allowed, required or excluded
  Start,          \* the clock when mk starts
  InitTimes,      \* the times the files may have when mk starts
  Tick,           \* how far the clock may move between two recipes that write
  MayFail,        \* the rules whose recipe may exit with an error
  MayBeKilled,    \* the rules whose recipe may be killed by a signal
  MayNotWrite     \* the rules whose recipe may succeed without touching its targets

(* A file that does not exist has no time; a virtual node gets time 1.0.   *)
NoTime == 0
VirtualTime == 1

ASSUME ConstantTypes ==
  /\ NoNode \notin Node
  /\ NProcs \subseteq Nat
  /\ Arcs \in [Node -> Seq([dest : Node \cup {NoNode}, rule : Rule])]
  /\ AllTargets \in [Rule -> Seq(Node)]
  /\ HasRecipe \subseteq Rule /\ DeleteOnError \subseteq Rule
  /\ IsVirtual \subseteq Node
  /\ MayFail \subseteq Rule /\ MayBeKilled \subseteq Rule /\ MayNotWrite \subseteq Rule
  /\ GoalLists \subseteq Seq(Node) \ {<<>>}
  /\ DryModes \subseteq BOOLEAN
  /\ Start \in Nat
  /\ InitTimes \subseteq [Node -> Nat]
  /\ Tick \subseteq Nat

(* A job: the rule, the node that asked for it and the nodes it will make. *)
Job == [rule : Rule, main : Node, nodes : SUBSET Node]

ASSUME NoJobIsNotAJob == NoJob \notin Job

(* One activation of `work': where it stands, the arc it looks at, and the *)
(* references `ready' and `out_of_date'.                                   *)
Frame == [node : Node, at : {"enter", "arc", "back"}, arc : Nat \ {0},
          ready : BOOLEAN, ood : BOOLEAN]

BuildState == {"NotMade", "BeingMade", "Made"}
ExitStatus == {"alive", "exit0", "exitN", "killed"}
Control == {"graph", "loop", "work", "wait", "drain", "fail", "exit0", "exit1"}

VARIABLES
  pc,        \* where main.ml stands
  nproclimit, dry_mode, goals,  \* the options, fixed when mk starts
  g,         \* index in goals of the target being built
  hnodes,    \* Graph.hnodes: the nodes created so far
  state,     \* node.state
  time,      \* node.time
  stack,     \* the activations of `work', innermost last
  did,       \* something was scheduled during this pass
  everDid,   \* something was scheduled for this target
  jobs,      \* Scheduler.jobs, a FIFO queue
  running,   \* Scheduler.running
  nrunning,  \* Scheduler.nrunning
  kids,      \* children that were forked and not yet waited for
  status,    \* their exit status
  mtime,     \* the files' modification times on disk
  partial,   \* files holding what a recipe wrote before it failed
  clock      \* the file system's clock

graphVars == <<hnodes, state, time>>
schedVars == <<jobs, running, nrunning, kids, status>>
diskVars  == <<mtime, partial, clock>>
optVars   == <<nproclimit, dry_mode, goals>>
loopVars  == <<g, everDid, optVars>>
vars == <<pc, stack, did, graphVars, schedVars, diskVars, loopVars>>

Root == goals[g]

(***************************************************************************)
(* The graph.                                                              *)
(***************************************************************************)
Dest(n) == {Arcs[n][i].dest : i \in DOMAIN Arcs[n]} \ {NoNode}

Closed(S) == \A n \in S : Dest(n) \subseteq S

(* The nodes apply_rules creates or finds from a target. *)
Reach == [t \in Node |->
            {n \in Node : \A S \in SUBSET Node : t \in S /\ Closed(S) => n \in S}]

RecipeArcs(n) == {i \in DOMAIN Arcs[n] : Arcs[n][i].rule \in HasRecipe}

(* master_arc's rule: the rule of the first arc that has a recipe *)
MasterRule(n) ==
  Arcs[n][CHOOSE i \in RecipeArcs(n) : \A j \in RecipeArcs(n) : i <= j].rule

(* Mutations of OutOfDate: only a missing target is remade; equal times are *)
(* out of date (the comparison of the comment in outofdate.ml).             *)
OutOfDateMissing(n, m) == time[n] = NoTime
OutOfDateEqual(n, m) == time[m] = NoTime \/ time[n] <= time[m]

OutOfDate(n, m) == time[m] = NoTime \/ time[n] < time[m]

(***************************************************************************)
(* main.ml: start of mk, and build_graph for the next target.  Nodes that  *)
(* an earlier target created keep their state and time, except that        *)
(* propagate_attributes forgets the time of every virtual node again.      *)
(***************************************************************************)
Init ==
  /\ pc = "graph" /\ g = 1 /\ stack = <<>> /\ did = FALSE /\ everDid = FALSE
  /\ nproclimit \in NProcs /\ dry_mode \in DryModes /\ goals \in GoalLists
  /\ hnodes = {}
  /\ state = [n \in Node |-> "NotMade"]
  /\ time = [n \in Node |-> NoTime]
  /\ jobs = <<>> /\ running = [p \in Pid |-> NoJob] /\ nrunning = 0
  /\ kids = {} /\ status = [p \in Pid |-> "exit0"]
  /\ mtime \in InitTimes
  /\ partial = {}
  /\ clock = Start

(* Mutation of BuildGraph: the table of nodes is rebuilt for every target. *)
BuildGraphAfresh ==
  /\ pc = "graph"
  /\ hnodes' = Reach[Root]
  /\ time' = [n \in Node |-> IF n \in Reach[Root] \ IsVirtual THEN mtime[n] ELSE NoTime]
  /\ state' = [n \in Node |-> "NotMade"]
  /\ pc' = "loop" /\ everDid' = FALSE
  /\ UNCHANGED <<stack, did, g, schedVars, diskVars, optVars>>

BuildGraph ==
  /\ pc = "graph"
  /\ hnodes' = hnodes \cup Reach[Root]
  /\ time' = [n \in Node |->
                IF n \notin Reach[Root] THEN time[n]
                ELSE IF n \in IsVirtual THEN NoTime
                ELSE IF n \in hnodes THEN time[n] ELSE mtime[n]]
  /\ pc' = "loop" /\ everDid' = FALSE
  /\ UNCHANGED <<state, stack, did, g, schedVars, diskVars, optVars>>

(***************************************************************************)
(* outofdate.ml: work, one segment at a time.                              *)
(***************************************************************************)
Call(n) == [node |-> n, at |-> "enter", arc |-> 1, ready |-> TRUE, ood |-> FALSE]

Top == stack[Len(stack)]
Pop == SubSeq(stack, 1, Len(stack) - 1)
SetTop(f) == Append(Pop, f)

Working(at) == pc = "work" /\ stack # <<>> /\ Top.at = at

StartPass ==
  /\ pc = "loop" /\ state[Root] = "NotMade"
  /\ did' = FALSE /\ stack' = <<Call(Root)>> /\ pc' = "work"
  /\ UNCHANGED <<graphVars, schedVars, diskVars, loopVars>>

WorkBeingMade ==
  /\ Working("enter") /\ state[Top.node] = "BeingMade"
  /\ stack' = Pop
  /\ UNCHANGED <<pc, did, graphVars, schedVars, diskVars, loopVars>>

(* A leaf: a source file that must exist. *)
WorkLeaf ==
  /\ Working("enter") /\ state[Top.node] # "BeingMade" /\ Arcs[Top.node] = <<>>
  /\ \/ /\ time[Top.node] = NoTime
        /\ pc' = "fail" /\ UNCHANGED <<state, stack>>
     \/ /\ time[Top.node] # NoTime
        /\ state' = [state EXCEPT ![Top.node] = "Made"]
        /\ stack' = Pop /\ UNCHANGED pc
  /\ UNCHANGED <<did, hnodes, time, schedVars, diskVars, loopVars>>

WorkNode ==
  /\ Working("enter") /\ state[Top.node] # "BeingMade" /\ Arcs[Top.node] # <<>>
  /\ stack' = SetTop([Top EXCEPT !.at = "arc"])
  /\ UNCHANGED <<pc, did, graphVars, schedVars, diskVars, loopVars>>

TopArc == Arcs[Top.node][Top.arc]
AtArc == Working("arc") /\ Top.arc <= Len(Arcs[Top.node])

(* `work env node2 did': the recursion, whatever the state of node2. *)
WorkRecurse ==
  /\ AtArc /\ TopArc.dest # NoNode
  /\ stack' = Append(SetTop([Top EXCEPT !.at = "back"]), Call(TopArc.dest))
  /\ UNCHANGED <<pc, did, graphVars, schedVars, diskVars, loopVars>>

WorkReturned ==
  /\ Working("back")
  /\ LET m == TopArc.dest IN
     stack' = SetTop([Top EXCEPT !.at = "arc", !.arc = @ + 1,
                                 !.ready = @ /\ state[m] = "Made",
                                 !.ood = @ \/ OutOfDate(Top.node, m)])
  /\ UNCHANGED <<pc, did, graphVars, schedVars, diskVars, loopVars>>

(* An arc without prerequisite: out of date iff the target does not exist. *)
WorkNoDest ==
  /\ AtArc /\ TopArc.dest = NoNode
  /\ stack' = SetTop([Top EXCEPT !.arc = @ + 1,
                                 !.ood = @ \/ time[Top.node] = NoTime])
  /\ UNCHANGED <<pc, did, graphVars, schedVars, diskVars, loopVars>>

AllArcsSeen == Working("arc") /\ Top.arc > Len(Arcs[Top.node])

WorkNotReady ==
  /\ AllArcsSeen /\ ~Top.ready
  /\ stack' = Pop
  /\ UNCHANGED <<pc, did, graphVars, schedVars, diskVars, loopVars>>

WorkUpToDate ==
  /\ AllArcsSeen /\ Top.ready /\ ~Top.ood
  /\ state' = [state EXCEPT ![Top.node] = "Made"]
  /\ stack' = Pop
  /\ UNCHANGED <<pc, did, hnodes, time, schedVars, diskVars, loopVars>>

(***************************************************************************)
(* scheduler.ml: sched takes the first job of the queue q and forks a      *)
(* shell for it, or in dry mode marks its nodes as made.  Its callers have *)
(* already assigned other globals: s holds the values they left.           *)
(***************************************************************************)
MarkNodes(f, nodes, v) == [n \in Node |-> IF n \in nodes THEN v ELSE f[n]]

Globals == [state |-> state, time |-> time, running |-> running,
            nrunning |-> nrunning, kids |-> kids]

SetGlobals(s) ==
  /\ state' = s.state /\ time' = s.time
  /\ running' = s.running /\ nrunning' = s.nrunning /\ kids' = s.kids

sched(q, s) ==
  LET job == Head(q) IN
  /\ jobs' = Tail(q)
  /\ \/ /\ dry_mode
        /\ SetGlobals([s EXCEPT !.state = MarkNodes(@, job.nodes, "Made"),
                                !.time = MarkNodes(@, job.nodes, clock)])
        /\ UNCHANGED status
     \/ /\ ~dry_mode
        /\ \E p \in Pid \ s.kids :
             /\ SetGlobals([s EXCEPT !.running = [@ EXCEPT ![p] = job],
                                     !.nrunning = @ + 1,
                                     !.kids = @ \cup {p}])
             /\ status' = [status EXCEPT ![p] = "alive"]

(* run's guard is nrunning < nproclimit; waitup also asks for a queued job. *)
schedIf(guard, q, s) ==
  \/ guard /\ sched(q, s)
  \/ ~guard /\ jobs' = q /\ SetGlobals(s) /\ UNCHANGED status

(* Mutation of run: one process too many. *)
runOneMore(job, s) == schedIf(s.nrunning <= nproclimit, Append(jobs, job), s)

run(job, s) == schedIf(s.nrunning < nproclimit, Append(jobs, job), s)

(***************************************************************************)
(* outofdate.ml: dorecipe, for a node that is ready and out of date.       *)
(***************************************************************************)
NeedsRecipe == AllArcsSeen /\ Top.ready /\ Top.ood

DorecipeVirtual ==
  /\ NeedsRecipe /\ RecipeArcs(Top.node) = {} /\ Top.node \in IsVirtual
  /\ state' = [state EXCEPT ![Top.node] = "Made"]
  /\ time' = [time EXCEPT ![Top.node] = VirtualTime]
  /\ stack' = Pop
  /\ UNCHANGED <<pc, did, hnodes, schedVars, diskVars, loopVars>>

DorecipeMissing ==
  /\ NeedsRecipe /\ RecipeArcs(Top.node) = {} /\ Top.node \notin IsVirtual
  /\ pc' = "fail"
  /\ UNCHANGED <<stack, did, graphVars, schedVars, diskVars, loopVars>>

JobFor(n) ==
  [rule |-> MasterRule(n), main |-> n,
   nodes |-> Range(AllTargets[MasterRule(n)]) \cap hnodes]

Dorecipe ==
  /\ NeedsRecipe /\ RecipeArcs(Top.node) # {}
  /\ LET job == JobFor(Top.node)
     IN run(job, [Globals EXCEPT !.state = MarkNodes(@, job.nodes, "BeingMade")])
  /\ did' = TRUE /\ stack' = Pop
  /\ UNCHANGED <<pc, hnodes, diskVars, loopVars>>

(***************************************************************************)
(* main.ml: after a pass, wait for a child if nothing could be started;    *)
(* once the root is made or being made, wait for all of them.              *)
(***************************************************************************)
(* Mutation of AfterPass: mk starts another pass instead of waiting. *)
AfterPassNoWait ==
  /\ pc = "work" /\ stack = <<>>
  /\ everDid' = (everDid \/ did) /\ pc' = "loop"
  /\ UNCHANGED <<stack, did, g, graphVars, schedVars, diskVars, optVars>>

AfterPass ==
  /\ pc = "work" /\ stack = <<>>
  /\ everDid' = (everDid \/ did)
  /\ pc' = IF ~did /\ nrunning > 0 THEN "wait" ELSE "loop"
  /\ UNCHANGED <<stack, did, g, graphVars, schedVars, diskVars, optVars>>

LeaveLoop ==
  /\ pc = "loop" /\ state[Root] # "NotMade"
  /\ pc' = "drain"
  /\ UNCHANGED <<stack, did, graphVars, schedVars, diskVars, loopVars>>

NextGoal ==
  /\ pc = "drain" /\ nrunning = 0
  /\ \/ /\ g < Len(goals)
        /\ g' = g + 1 /\ pc' = "graph"
     \/ /\ g = Len(goals)
        /\ pc' = "exit0" /\ UNCHANGED g
  /\ UNCHANGED <<stack, did, everDid, graphVars, schedVars, diskVars, optVars>>

(***************************************************************************)
(* scheduler.ml: waitup reaps child p, and graph.ml: update re-reads the   *)
(* time of the nodes it made, in the order of all_targets, up to the first *)
(* one that the recipe did not touch.                                      *)
(***************************************************************************)
NotUpdated(n) == n \notin IsVirtual /\ (mtime[n] = time[n] \/ mtime[n] = NoTime)

UpdatedNodes(job) ==
  LET ts == AllTargets[job.rule]
  IN {n \in job.nodes : \A i, j \in DOMAIN ts :
        ts[i] = n /\ j < i /\ ts[j] \in job.nodes => ~NotUpdated(ts[j])}

TimeAfter(n) == IF n \in IsVirtual THEN VirtualTime ELSE mtime[n]

(* Mutation of refill: waitup frees the slot and does not use it. *)
refillNever(s) == schedIf(FALSE, jobs, s)

(* the end of waitup: the slot that was freed goes to the next job *)
refill(s) == schedIf(s.nrunning < nproclimit /\ jobs # <<>>, jobs, s)

Reap(p) ==
  /\ p \in kids /\ status[p] # "alive"
  /\ nrunning > 0

Waitup(p) ==
  /\ pc \in {"wait", "drain"} /\ Reap(p) /\ status[p] = "exit0"
  /\ LET job == running[p]
         upd == UpdatedNodes(job)
         s == [state |-> MarkNodes(state, upd, "Made"),
               time |-> [n \in Node |-> IF n \in upd THEN TimeAfter(n) ELSE time[n]],
               running |-> [running EXCEPT ![p] = NoJob],
               nrunning |-> nrunning - 1,
               kids |-> kids \ {p}]
     IN \/ /\ \E n \in job.nodes : NotUpdated(n)
           /\ pc' = "fail" /\ SetGlobals(s)
           /\ UNCHANGED <<jobs, status>>
        \/ /\ \A n \in job.nodes : ~NotUpdated(n)
           /\ pc' = IF pc = "wait" THEN "loop" ELSE "drain"
           /\ refill(s)
  /\ UNCHANGED <<stack, did, hnodes, diskVars, loopVars>>

(* Mutation of WaitupError: the build goes on after an error. *)
WaitupErrorIgnored(p) ==
  /\ pc \in {"wait", "drain"} /\ Reap(p) /\ status[p] # "exit0"
  /\ running' = [running EXCEPT ![p] = NoJob]
  /\ kids' = kids \ {p} /\ nrunning' = nrunning - 1
  /\ pc' = IF pc = "wait" THEN "loop" ELSE "drain"
  /\ UNCHANGED <<stack, did, graphVars, jobs, status, diskVars, loopVars>>

(* A recipe failed: with the attribute D its targets are removed (not when *)
(* it was killed by a signal), and mk gives up.                            *)
WaitupError(p) ==
  /\ pc \in {"wait", "drain"} /\ Reap(p) /\ status[p] # "exit0"
  /\ LET rule == running[p].rule
         gone == IF status[p] = "exitN" /\ rule \in DeleteOnError
                 THEN Range(AllTargets[rule]) ELSE {}
     IN /\ mtime' = MarkNodes(mtime, gone, NoTime)
        /\ partial' = partial \ gone
  /\ running' = [running EXCEPT ![p] = NoJob]
  /\ kids' = kids \ {p} /\ nrunning' = nrunning - 1
  /\ pc' = "fail"
  /\ UNCHANGED <<stack, did, graphVars, jobs, status, clock, loopVars>>

(***************************************************************************)
(* main.ml: the handler of Failure waits for the other children, then      *)
(* exits with status 1.                                                    *)
(***************************************************************************)
FailWait(p) ==
  /\ pc = "fail" /\ Reap(p)
  /\ kids' = kids \ {p} /\ nrunning' = nrunning - 1
  /\ UNCHANGED <<pc, stack, did, graphVars, jobs, running, status, diskVars, loopVars>>

(* Mutation of FailExit: mk exits at the first error. *)
FailExitNow ==
  /\ pc = "fail" /\ pc' = "exit1"
  /\ UNCHANGED <<stack, did, graphVars, schedVars, diskVars, loopVars>>

FailExit ==
  /\ pc = "fail" /\ nrunning = 0
  /\ pc' = "exit1"
  /\ UNCHANGED <<stack, did, graphVars, schedVars, diskVars, loopVars>>

(***************************************************************************)
(* The children (external): a recipe ends after having written the files W *)
(* among its targets.  A virtual target is not a file.                     *)
(***************************************************************************)
ChildEnd(p) ==
  /\ p \in kids /\ status[p] = "alive"
  /\ LET rule == running[p].rule
         files == Range(AllTargets[rule]) \ IsVirtual
     IN \E st \in ExitStatus \ {"alive"}, W \in SUBSET files, d \in Tick :
          /\ st = "exit0" => W = files \/ rule \in MayNotWrite
          /\ st = "exitN" => rule \in MayFail
          /\ st = "killed" => rule \in MayBeKilled
          /\ status' = [status EXCEPT ![p] = st]
          /\ clock' = IF W = {} THEN clock ELSE clock + d
          /\ mtime' = MarkNodes(mtime, W, clock')
          /\ partial' = IF st = "exit0" THEN partial \ W ELSE partial \cup W
  /\ UNCHANGED <<pc, stack, did, graphVars, jobs, running, nrunning, kids, loopVars>>

Exited == pc \in {"exit0", "exit1"} /\ UNCHANGED vars

WorkStep ==
  \/ WorkBeingMade \/ WorkLeaf \/ WorkNode \/ WorkRecurse \/ WorkReturned
  \/ WorkNoDest \/ WorkNotReady \/ WorkUpToDate
  \/ DorecipeVirtual \/ DorecipeMissing \/ Dorecipe

MkStep ==
  \/ BuildGraph \/ StartPass \/ WorkStep \/ AfterPass \/ LeaveLoop \/ NextGoal
  \/ \E p \in Pid : Waitup(p) \/ WaitupError(p) \/ FailWait(p)
  \/ FailExit

Next == MkStep \/ (\E p \in Pid : ChildEnd(p)) \/ Exited

(* mk keeps running, and every recipe ends. *)
Fairness == WF_vars(MkStep) /\ \A p \in Pid : WF_vars(ChildEnd(p))

Spec == Init /\ [][Next]_vars
FairSpec == Spec /\ Fairness

-----------------------------------------------------------------------------
(***************************************************************************)
(* Properties                                                              *)
(***************************************************************************)

(* Every variable holds a value of the type its OCaml counterpart has. *)
TypeOK ==
  /\ pc \in Control /\ did \in BOOLEAN /\ everDid \in BOOLEAN
  /\ nproclimit \in NProcs /\ dry_mode \in DryModes /\ goals \in GoalLists
  /\ g \in 1..Len(goals)
  /\ hnodes \subseteq Node
  /\ state \in [Node -> BuildState]
  /\ time \in [Node -> Nat]
  /\ stack \in Seq(Frame)
  /\ jobs \in Seq(Job)
  /\ running \in [Pid -> Job \cup {NoJob}]
  /\ nrunning \in Nat
  /\ kids \subseteq Pid
  /\ status \in [Pid -> ExitStatus]
  /\ mtime \in [Node -> Nat]
  /\ partial \subseteq Node
  /\ clock \in Nat

Failed == pc \in {"fail", "exit1"}

(* The counter nrunning is the number of children that are still to be     *)
(* waited for, on every path including the drain after an error, and never *)
(* exceeds $NPROC (scheduler.ml, run and waitup; main.ml's handler).       *)
PoolAccounting == nrunning = Cardinality(kids) /\ nrunning <= nproclimit

(* A job waits in the queue only while the pool is full: run and waitup    *)
(* are the only callers of sched, so a job left behind while a slot is     *)
(* free would never be started.                                            *)
NoLostJob == ~Failed /\ jobs # <<>> => nrunning = nproclimit

(* mk never exits while a recipe it started is still running or unreaped   *)
(* (main.ml: the drain loop and the loop of the Failure handler).          *)
NoOrphans == pc \in {"exit0", "exit1"} => kids = {}

(* mk exits with status 0 only when every file the targets depend on       *)
(* exists, is made and is not older on disk than the files it is made from.*)
ExitUpToDate ==
  pc = "exit0" /\ ~dry_mode =>
    \A t \in Range(goals) : \A n \in Reach[t] :
      /\ state[n] = "Made"
      /\ n \notin IsVirtual => mtime[n] # NoTime
      /\ \A m \in Dest(n) : {n, m} \cap IsVirtual = {} => mtime[m] <= mtime[n]

(* mk exits with status 0 only when no recipe has failed: no file left by  *)
(* an interrupted recipe survives a successful build.                      *)
SuccessMeansWhole == pc = "exit0" => partial = {}

Stale(n) == mtime[n] = NoTime \/ \E m \in Dest(n) : mtime[n] < mtime[m]

(* A recipe is queued only for a target that is missing or older on disk   *)
(* than one of its prerequisites, although mk decides from the times it    *)
(* read when the graph was built.  Virtual targets are always out of date. *)
OnlyStaleRebuilt ==
  [][\A n \in Node : state[n] # "BeingMade" /\ state'[n] = "BeingMade" =>
       \E m \in Range(AllTargets[MasterRule(n)]) : m \in IsVirtual \/ Stale(m)]_vars

Topo == INSTANCE TopoBuild

(* The build makes every node once, after everything it depends on, and    *)
(* nothing it depends on moves any more: re-examining a node at each pass  *)
(* (work recurses into nodes that are already made) never runs a recipe    *)
(* again.                                                                  *)
ImplementsTopoBuild == Topo!Spec

(* The build ends, whatever the order in which the recipes end. *)
Terminates == <>(pc \in {"exit0", "exit1"})

(* main.ml waits for the other children before exiting because `otherwise  *)
(* could get corrupted incomplete object files'; with the attribute D no   *)
(* target of a failed recipe should then be left behind.                   *)
NoIncompleteFiles ==
  pc = "exit1" => \A r \in DeleteOnError : Range(AllTargets[r]) \cap partial = {}

(* graph.ml, update: a recipe that did write its target is never taken for *)
(* one that did not, although recipes that follow each other may write     *)
(* within one tick of the clock: mk runs a recipe only when the time of    *)
(* its target must change (outofdate.ml compares with <, not <=).          *)
RewritesSeen ==
  LET sources == {n \in Node : Arcs[n] = <<>>}
  IN MayFail \cup MayBeKilled \cup MayNotWrite = {} /\ (\A n \in sources : mtime[n] # NoTime)
       => pc # "fail"

(***************************************************************************)
(* The mkfiles and command lines for which the build is correct as a       *)
(* whole.  Each condition is one that the code does not check (but the     *)
(* third, which graph.ml's check_cycle does) and that the traversal, the   *)
(* scheduler and `update' rely on.                                         *)
(***************************************************************************)
Below(n) == UNION {Reach[m] : m \in Dest(n)}

(* The targets that the recipe of n makes together with n. *)
Twins(n) == IF RecipeArcs(n) = {} THEN {n} ELSE Range(AllTargets[MasterRule(n)])

(* A rule with a recipe makes all its targets from the same prerequisites, *)
(* and they are as old as each other; a virtual target with a recipe is    *)
(* asked for only on the command line.                                     *)
PlainRule(n) ==
  /\ n \in Twins(n)
  /\ \A m \in Twins(n) :
       /\ RecipeArcs(m) # {} /\ MasterRule(m) = MasterRule(n)
       /\ Dest(m) = Dest(n)
       /\ m \in IsVirtual <=> n \in IsVirtual
       /\ \A ts \in InitTimes : ts[m] = ts[n]
  /\ n \in IsVirtual => \A m \in Node : n \notin Dest(m)

PlainMkfile ==
  /\ 0 \notin NProcs
  /\ Start > NoTime /\ \A ts \in InitTimes : \A n \in Node : ts[n] <= Start
  /\ \A n \in Node : n \notin Below(n)
  /\ \A n \in Node : RecipeArcs(n) # {} => PlainRule(n)

(* Every target of the command line that needs one of the files a recipe   *)
(* makes needs the same ones.                                              *)
Together(n) ==
  \A k, m \in Twins(n) : \A i, j \in DOMAIN goals :
    k \in Reach[goals[i]] /\ m \in Reach[goals[j]] => m \in Reach[goals[i]]

(* Otherwise a later target may add to the graph a file that an earlier    *)
(* one had made: the recipe must really have written it.                   *)
PlainGoals ==
  \A n \in Node : RecipeArcs(n) # {} =>
    \/ Together(n)
    \/ ~dry_mode /\ n \notin IsVirtual /\ MasterRule(n) \notin MayNotWrite
=============================================================================

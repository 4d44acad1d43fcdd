--------------------------- MODULE MkBuildProofs ---------------------------
(***************************************************************************)
(* Proofs about MkBuild, for every dependency graph, every set of rules,   *)
(* every $NPROC and every behaviour of the recipes.                        *)
(***************************************************************************)
EXTENDS MkBuild, SeqLemmas

(***************************************************************************)
(* Operators.                                                              *)
(***************************************************************************)

(* The rule that dorecipe runs for a node with a recipe is one of the rules *)
(* of the mkfile.                                                           *)
LEMMA MasterRuleType ==
  ASSUME NEW n \in Node, RecipeArcs(n) # {}
  PROVE  MasterRule(n) \in Rule
<1>1. Arcs[n] \in Seq([dest : Node \cup {NoNode}, rule : Rule])
  BY ConstantTypes
<1>2. DOMAIN Arcs[n] = 1..Len(Arcs[n]) /\ Len(Arcs[n]) \in Nat
  BY <1>1, LenProperties
<1>3. RecipeArcs(n) \in SUBSET Nat
  BY <1>2 DEF RecipeArcs
<1>4. \E i \in RecipeArcs(n) : \A j \in RecipeArcs(n) : i <= j
  BY <1>3, LeastElement
<1>5. PICK i \in RecipeArcs(n) : MasterRule(n) = Arcs[n][i].rule
  BY <1>4 DEF MasterRule
<1>6. i \in 1..Len(Arcs[n])
  BY <1>2, <1>5 DEF RecipeArcs
<1>7. Arcs[n][i] \in [dest : Node \cup {NoNode}, rule : Rule]
  BY <1>1, <1>6, ElementOfSeq
<1> QED
  BY <1>5, <1>7

(* A job never names anything but nodes of the graph. *)
LEMMA JobForType ==
  ASSUME NEW n \in Node, RecipeArcs(n) # {}, hnodes \subseteq Node
  PROVE  JobFor(n) \in Job
  BY MasterRuleType DEF JobFor, Job

(* The targets of a rule are nodes. *)
LEMMA TargetsAreNodes ==
  ASSUME NEW r \in Rule
  PROVE  Range(AllTargets[r]) \subseteq Node
<1>1. AllTargets[r] \in Seq(Node)
  BY ConstantTypes
<1>2. \A i \in DOMAIN AllTargets[r] : AllTargets[r][i] \in Node
  BY <1>1, LenProperties, ElementOfSeq
<1> QED
  BY <1>2 DEF Range

(* What the stack of activations of `work' becomes. *)
LEMMA StackOps ==
  ASSUME stack \in Seq(Frame), stack # <<>>
  PROVE  /\ Top \in Frame
         /\ Pop \in Seq(Frame)
         /\ \A f \in Frame : SetTop(f) \in Seq(Frame)
<1>1. Len(stack) \in Nat \ {0}
  BY EmptySeq
<1>2. Top \in Frame
  BY <1>1, ElementOfSeq DEF Top
<1>3. Pop \in Seq(Frame)
  <2>1. \A i \in 1..(Len(stack) - 1) : stack[i] \in Frame
    BY <1>1, ElementOfSeq
  <2> QED
    BY <1>1, <2>1, SubSeqProperties DEF Pop
<1>4. \A f \in Frame : SetTop(f) \in Seq(Frame)
  BY <1>3, AppendProperties DEF SetTop
<1> QED
  BY <1>2, <1>3, <1>4

(***************************************************************************)
(* The scheduler.  GlobalsType is the type of the globals that run and     *)
(* waitup hand over to sched; s ranges over it.                            *)
(***************************************************************************)
GlobalsType ==
  [state : [Node -> BuildState], time : [Node -> Nat],
   running : [Pid -> Job \cup {NoJob}], nrunning : Nat, kids : SUBSET Pid]

(* A child that is still running has an entry in the table `running'. *)
HasJobs(kidSet, st, run_) == \A p \in kidSet : st[p] = "alive" => run_[p] \in Job

(* sched either forks one child for the first job of the queue, or in dry  *)
(* mode only updates the nodes.                                            *)
LEMMA SchedEffect ==
  ASSUME NEW q, NEW s \in GlobalsType, sched(q, s)
  PROVE  /\ jobs' = Tail(q)
         /\ \/ /\ dry_mode
               /\ state' = MarkNodes(s.state, Head(q).nodes, "Made")
               /\ time' = MarkNodes(s.time, Head(q).nodes, clock)
               /\ running' = s.running /\ nrunning' = s.nrunning /\ kids' = s.kids
               /\ status' = status
            \/ /\ ~dry_mode
               /\ state' = s.state /\ time' = s.time
               /\ \E p \in Pid \ s.kids :
                    /\ running' = [s.running EXCEPT ![p] = Head(q)]
                    /\ nrunning' = s.nrunning + 1
                    /\ kids' = s.kids \cup {p}
                    /\ status' = [status EXCEPT ![p] = "alive"]
  BY DEF sched, SetGlobals, GlobalsType

LEMMA MarkNodesType ==
  ASSUME NEW T, NEW f \in [Node -> T], NEW S, NEW v \in T
  PROVE  MarkNodes(f, S, v) \in [Node -> T]
  BY DEF MarkNodes

(* sched preserves the types of the globals and gives the child a job. *)
LEMMA SchedType ==
  ASSUME TypeOK, NEW q \in Seq(Job), q # <<>>, NEW s \in GlobalsType,
         HasJobs(s.kids, status, s.running), sched(q, s)
  PROVE  /\ jobs' \in Seq(Job)
         /\ state' \in [Node -> BuildState] /\ time' \in [Node -> Nat]
         /\ running' \in [Pid -> Job \cup {NoJob}]
         /\ nrunning' \in Nat /\ kids' \subseteq Pid
         /\ status' \in [Pid -> ExitStatus]
         /\ HasJobs(kids', status', running')
<1>1. Head(q) \in Job /\ Tail(q) \in Seq(Job)
  BY HeadTailProperties
<1>2. /\ s.state \in [Node -> BuildState] /\ s.time \in [Node -> Nat]
      /\ s.running \in [Pid -> Job \cup {NoJob}]
      /\ s.nrunning \in Nat /\ s.kids \subseteq Pid
  BY DEF GlobalsType
<1>3. status \in [Pid -> ExitStatus] /\ clock \in Nat
  BY DEF TypeOK
<1>4. jobs' \in Seq(Job)
  BY <1>1, SchedEffect
<1>5. CASE dry_mode
  <2>1. /\ state' = MarkNodes(s.state, Head(q).nodes, "Made")
        /\ time' = MarkNodes(s.time, Head(q).nodes, clock)
        /\ running' = s.running /\ nrunning' = s.nrunning /\ kids' = s.kids
        /\ status' = status
    BY <1>5, SchedEffect
  <2>2. state' \in [Node -> BuildState]
    BY <1>2, <2>1, MarkNodesType DEF BuildState
  <2>3. time' \in [Node -> Nat]
    BY <1>2, <1>3, <2>1, MarkNodesType
  <2> QED
    BY <1>2, <1>3, <1>4, <2>1, <2>2, <2>3
<1>6. CASE ~dry_mode
  <2>1. state' = s.state /\ time' = s.time
    BY <1>6, SchedEffect
  <2>2. PICK p \in Pid \ s.kids :
          /\ running' = [s.running EXCEPT ![p] = Head(q)]
          /\ nrunning' = s.nrunning + 1
          /\ kids' = s.kids \cup {p}
          /\ status' = [status EXCEPT ![p] = "alive"]
    BY <1>6, SchedEffect
  <2>3. HasJobs(kids', status', running')
    BY <1>1, <1>2, <1>3, <2>2 DEF HasJobs
  <2>4. /\ running' \in [Pid -> Job \cup {NoJob}]
        /\ nrunning' \in Nat /\ kids' \subseteq Pid
        /\ status' \in [Pid -> ExitStatus]
    BY <1>1, <1>2, <1>3, <2>2 DEF ExitStatus
  <2> QED
    BY <1>2, <1>4, <2>1, <2>3, <2>4
<1> QED
  BY <1>5, <1>6

(* So does a conditional sched. *)
LEMMA SchedIfType ==
  ASSUME TypeOK, NEW q \in Seq(Job), NEW s \in GlobalsType, NEW guard \in BOOLEAN,
         guard => q # <<>>,
         HasJobs(s.kids, status, s.running), schedIf(guard, q, s)
  PROVE  /\ jobs' \in Seq(Job)
         /\ state' \in [Node -> BuildState] /\ time' \in [Node -> Nat]
         /\ running' \in [Pid -> Job \cup {NoJob}]
         /\ nrunning' \in Nat /\ kids' \subseteq Pid
         /\ status' \in [Pid -> ExitStatus]
         /\ HasJobs(kids', status', running')
<1>1. CASE guard /\ sched(q, s)
  BY <1>1, SchedType
<1>2. CASE ~guard /\ jobs' = q /\ SetGlobals(s) /\ UNCHANGED status
  BY <1>2 DEF SetGlobals, GlobalsType, TypeOK
<1> QED
  BY <1>1, <1>2 DEF schedIf

(***************************************************************************)
(* Type correctness.  ChildEnd writes the targets of the rule in the       *)
(* child's entry of `running': the invariant must say that there is one.   *)
(***************************************************************************)
TypeInv == TypeOK /\ HasJobs(kids, status, running)

LEMMA TypeInit == Init => TypeInv
<1> SUFFICES ASSUME Init PROVE TypeInv
  OBVIOUS
<1> USE ConstantTypes
<1>1. goals \in Seq(Node) /\ goals # <<>>
  BY DEF Init
<1>2. g \in 1..Len(goals)
  BY <1>1, EmptySeq DEF Init
<1>3. <<>> \in Seq(Frame) /\ <<>> \in Seq(Job)
  BY EmptySeq
<1> QED
  BY <1>2, <1>3 DEF Init, TypeInv, TypeOK, HasJobs, Control, BuildState, ExitStatus, NoTime

(* The target being built is a node. *)
LEMMA RootIsNode == TypeOK => Root \in Node
<1> SUFFICES ASSUME TypeOK PROVE Root \in Node
  OBVIOUS
<1>1. goals \in Seq(Node) /\ g \in 1..Len(goals)
  BY ConstantTypes DEF TypeOK
<1> QED
  BY <1>1, ElementOfSeq DEF Root

LEMMA ArcDestIsNode ==
  ASSUME TypeOK, AtArc, TopArc.dest # NoNode
  PROVE  TopArc.dest \in Node
<1>1. Top \in Frame
  BY StackOps DEF TypeOK, AtArc, Working
<1>2. Arcs[Top.node] \in Seq([dest : Node \cup {NoNode}, rule : Rule])
  BY <1>1, ConstantTypes DEF Frame
<1>3. Top.arc \in 1..Len(Arcs[Top.node])
  BY <1>1, <1>2, LenProperties DEF AtArc, Frame
<1>4. TopArc \in [dest : Node \cup {NoNode}, rule : Rule]
  BY <1>2, <1>3, ElementOfSeq DEF TopArc
<1> QED
  BY <1>4

(* The updates of an activation keep its type. *)
LEMMA FrameUpdate ==
  ASSUME NEW f \in Frame, NEW a \in {"enter", "arc", "back"}, NEW k \in Nat \ {0},
         NEW r \in BOOLEAN, NEW o \in BOOLEAN
  PROVE  /\ [f EXCEPT !.at = a, !.arc = k, !.ready = r, !.ood = o] \in Frame
         /\ [f EXCEPT !.arc = k, !.ood = o] \in Frame
  BY DEF Frame

(* Each action preserves the types. *)
LEMMA TypeStep == TypeInv /\ [Next]_vars => TypeInv'
<1> SUFFICES ASSUME TypeInv, [Next]_vars PROVE TypeInv'
  OBVIOUS
<1> USE DEF TypeInv
<1>1. CASE BuildGraph
  <2>1. hnodes' \subseteq Node
    BY <1>1, RootIsNode DEF BuildGraph, Reach, TypeOK
  <2>2. time' \in [Node -> Nat]
    BY <1>1 DEF BuildGraph, TypeOK, NoTime
  <2> QED
    BY <1>1, <2>1, <2>2
    DEF BuildGraph, TypeOK, HasJobs, Control, schedVars, diskVars, optVars
<1>2. CASE StartPass
  <2>1. Call(Root) \in Frame
    BY RootIsNode DEF Call, Frame
  <2>2. stack' \in Seq(Frame)
    BY <1>2, <2>1 DEF StartPass
  <2> QED
    BY <1>2, <2>2
    DEF StartPass, TypeOK, HasJobs, Control, graphVars, schedVars, diskVars, loopVars, optVars
<1>3. CASE WorkBeingMade \/ WorkNotReady
  <2>1. stack' \in Seq(Frame)
    BY <1>3, StackOps DEF WorkBeingMade, WorkNotReady, AllArcsSeen, Working, TypeOK
  <2> QED
    BY <1>3, <2>1
    DEF WorkBeingMade, WorkNotReady, TypeOK, HasJobs,
        graphVars, schedVars, diskVars, loopVars, optVars
<1>4. CASE WorkLeaf \/ WorkUpToDate
  <2>1. stack' \in Seq(Frame) /\ Top \in Frame
    BY <1>4, StackOps DEF WorkLeaf, WorkUpToDate, AllArcsSeen, Working, TypeOK
  <2>2. state' \in [Node -> BuildState]
    BY <1>4 DEF WorkLeaf, WorkUpToDate, TypeOK, BuildState
  <2> QED
    BY <1>4, <2>1, <2>2
    DEF WorkLeaf, WorkUpToDate, TypeOK, HasJobs, Control, schedVars, diskVars, loopVars, optVars
<1>5. CASE WorkNode
  <2>1. stack' \in Seq(Frame)
    <3>1. Top \in Frame /\ [Top EXCEPT !.at = "arc"] \in Frame
      BY <1>5, StackOps DEF WorkNode, Working, TypeOK, Frame
    <3> QED
      BY <1>5, <3>1, StackOps DEF WorkNode, Working, TypeOK
  <2> QED
    BY <1>5, <2>1
    DEF WorkNode, TypeOK, HasJobs, graphVars, schedVars, diskVars, loopVars, optVars
<1>6. CASE WorkRecurse
  <2>1. stack' \in Seq(Frame)
    <3>1. Top \in Frame /\ [Top EXCEPT !.at = "back"] \in Frame
      BY <1>6, StackOps DEF WorkRecurse, AtArc, Working, TypeOK, Frame
    <3>2. SetTop([Top EXCEPT !.at = "back"]) \in Seq(Frame)
      BY <1>6, <3>1, StackOps DEF WorkRecurse, AtArc, Working, TypeOK
    <3>3. Call(TopArc.dest) \in Frame
      BY <1>6, ArcDestIsNode DEF WorkRecurse, Call, Frame
    <3> QED
      BY <1>6, <3>2, <3>3, AppendProperties DEF WorkRecurse
  <2> QED
    BY <1>6, <2>1
    DEF WorkRecurse, TypeOK, HasJobs, graphVars, schedVars, diskVars, loopVars, optVars
<1>7. CASE WorkReturned
  <2>1. stack' \in Seq(Frame)
    <3> DEFINE f == [Top EXCEPT !.at = "arc", !.arc = @ + 1,
                                !.ready = @ /\ state[TopArc.dest] = "Made",
                                !.ood = @ \/ OutOfDate(Top.node, TopArc.dest)]
    <3>1. Top \in Frame
      BY <1>7, StackOps DEF WorkReturned, Working, TypeOK
    <3>2. OutOfDate(Top.node, TopArc.dest) \in BOOLEAN
      BY DEF OutOfDate
    <3>3. /\ Top.arc + 1 \in Nat \ {0}
          /\ (Top.ready /\ state[TopArc.dest] = "Made") \in BOOLEAN
          /\ (Top.ood \/ OutOfDate(Top.node, TopArc.dest)) \in BOOLEAN
      BY <3>1, <3>2 DEF Frame
    <3>4. f \in Frame
      BY <3>1, <3>3, FrameUpdate
    <3> QED
      BY <1>7, <3>4, StackOps DEF WorkReturned, Working, TypeOK
  <2> QED
    BY <1>7, <2>1
    DEF WorkReturned, TypeOK, HasJobs, graphVars, schedVars, diskVars, loopVars, optVars
<1>8. CASE WorkNoDest
  <2>1. stack' \in Seq(Frame)
    <3> DEFINE f == [Top EXCEPT !.arc = @ + 1, !.ood = @ \/ time[Top.node] = NoTime]
    <3>1. Top \in Frame
      BY <1>8, StackOps DEF WorkNoDest, AtArc, Working, TypeOK
    <3>2. /\ Top.arc + 1 \in Nat \ {0}
          /\ (Top.ood \/ time[Top.node] = NoTime) \in BOOLEAN
      BY <3>1 DEF Frame
    <3>3. f \in Frame
      BY <3>1, <3>2, FrameUpdate
    <3> QED
      BY <1>8, <3>3, StackOps DEF WorkNoDest, AtArc, Working, TypeOK
  <2> QED
    BY <1>8, <2>1
    DEF WorkNoDest, TypeOK, HasJobs, graphVars, schedVars, diskVars, loopVars, optVars
<1>9. CASE DorecipeVirtual
  <2>1. stack' \in Seq(Frame)
    BY <1>9, StackOps DEF DorecipeVirtual, NeedsRecipe, AllArcsSeen, Working, TypeOK
  <2>2. state' \in [Node -> BuildState] /\ time' \in [Node -> Nat]
    BY <1>9 DEF DorecipeVirtual, TypeOK, BuildState, VirtualTime
  <2> QED
    BY <1>9, <2>1, <2>2
    DEF DorecipeVirtual, TypeOK, HasJobs, schedVars, diskVars, loopVars, optVars
<1>10. CASE DorecipeMissing
  BY <1>10
  DEF DorecipeMissing, TypeOK, HasJobs, Control, graphVars, schedVars, diskVars, loopVars, optVars
<1>11. CASE Dorecipe
  <2> DEFINE job == JobFor(Top.node)
             s == [Globals EXCEPT !.state = MarkNodes(@, job.nodes, "BeingMade")]
             limit == s.nrunning < nproclimit
  <2>1. Top \in Frame /\ Pop \in Seq(Frame)
    BY <1>11, StackOps DEF Dorecipe, NeedsRecipe, AllArcsSeen, Working, TypeOK
  <2>2. job \in Job
    BY <1>11, <2>1, JobForType DEF Dorecipe, TypeOK, Frame
  <2>3. MarkNodes(state, job.nodes, "BeingMade") \in [Node -> BuildState]
    BY MarkNodesType DEF TypeOK, BuildState
  <2>4. s \in GlobalsType /\ s.kids = kids /\ s.running = running
    BY <2>3 DEF Globals, GlobalsType, TypeOK
  <2>5. Append(jobs, job) \in Seq(Job) /\ Append(jobs, job) # <<>>
    BY <2>2, AppendProperties DEF TypeOK
  <2>6. schedIf(limit, Append(jobs, job), s)
    BY <1>11 DEF Dorecipe, run
  <2>7. limit \in BOOLEAN
    OBVIOUS
  <2> HIDE DEF job, s, limit
  <2>8. /\ jobs' \in Seq(Job)
        /\ state' \in [Node -> BuildState] /\ time' \in [Node -> Nat]
        /\ running' \in [Pid -> Job \cup {NoJob}]
        /\ nrunning' \in Nat /\ kids' \subseteq Pid
        /\ status' \in [Pid -> ExitStatus]
        /\ HasJobs(kids', status', running')
    BY <2>4, <2>5, <2>6, <2>7, SchedIfType
  <2> QED
    BY <1>11, <2>1, <2>8 DEF Dorecipe, TypeOK, HasJobs, diskVars, loopVars, optVars
<1>12. CASE AfterPass \/ LeaveLoop \/ FailExit
  BY <1>12
  DEF AfterPass, LeaveLoop, FailExit, TypeOK, HasJobs, Control,
      graphVars, schedVars, diskVars, loopVars, optVars
<1>13. CASE NextGoal
  <2>1. Len(goals) \in Nat
    BY ConstantTypes, LenProperties DEF TypeOK
  <2> QED
    BY <1>13, <2>1
    DEF NextGoal, TypeOK, HasJobs, Control, graphVars, schedVars, diskVars, optVars
<1>14. ASSUME NEW p \in Pid, Waitup(p) PROVE TypeInv'
  <2> DEFINE job == running[p]
             upd == UpdatedNodes(job)
             s == [state |-> MarkNodes(state, upd, "Made"),
                   time |-> [n \in Node |-> IF n \in upd THEN TimeAfter(n) ELSE time[n]],
                   running |-> [running EXCEPT ![p] = NoJob],
                   nrunning |-> nrunning - 1,
                   kids |-> kids \ {p}]
             guard == s.nrunning < nproclimit /\ jobs # <<>>
  <2>1. MarkNodes(state, upd, "Made") \in [Node -> BuildState]
    BY MarkNodesType DEF TypeOK, BuildState
  <2>2. [n \in Node |-> IF n \in upd THEN TimeAfter(n) ELSE time[n]] \in [Node -> Nat]
    BY DEF TypeOK, TimeAfter, VirtualTime
  <2>3. nrunning - 1 \in Nat
    BY <1>14 DEF Waitup, Reap, TypeOK
  <2> HIDE DEF upd
  <2>4. s \in GlobalsType
    BY <2>1, <2>2, <2>3 DEF GlobalsType, TypeOK
  <2>5. HasJobs(s.kids, status, s.running)
    BY DEF HasJobs, TypeOK
  <2>6. \/ pc' = "fail" /\ SetGlobals(s) /\ UNCHANGED <<jobs, status>>
        \/ pc' = (IF pc = "wait" THEN "loop" ELSE "drain") /\ schedIf(guard, jobs, s)
    BY <1>14 DEF Waitup, refill, upd
  <2> HIDE DEF s
  <2>7. /\ jobs' \in Seq(Job)
        /\ state' \in [Node -> BuildState] /\ time' \in [Node -> Nat]
        /\ running' \in [Pid -> Job \cup {NoJob}]
        /\ nrunning' \in Nat /\ kids' \subseteq Pid
        /\ status' \in [Pid -> ExitStatus]
        /\ HasJobs(kids', status', running')
    <3>1. CASE SetGlobals(s) /\ UNCHANGED <<jobs, status>>
      BY <2>4, <2>5, <3>1 DEF SetGlobals, GlobalsType, TypeOK
    <3>2. CASE schedIf(guard, jobs, s)
      <4>1. guard \in BOOLEAN /\ (guard => jobs # <<>>) /\ jobs \in Seq(Job)
        BY DEF TypeOK
      <4> HIDE DEF guard
      <4> QED
        BY <2>4, <2>5, <3>2, <4>1, SchedIfType
    <3> QED
      BY <2>6, <3>1, <3>2
  <2>8. pc' \in Control
    BY <2>6 DEF Control
  <2> QED
    BY <1>14, <2>7, <2>8 DEF Waitup, TypeOK, HasJobs, diskVars, loopVars, optVars
<1>15. ASSUME NEW p \in Pid, WaitupError(p) PROVE TypeInv'
  <2>1. mtime' \in [Node -> Nat]
    BY <1>15, MarkNodesType DEF WaitupError, TypeOK, NoTime
  <2>2. partial' \subseteq Node
    BY <1>15 DEF WaitupError, TypeOK
  <2>3. nrunning' \in Nat
    BY <1>15 DEF WaitupError, Reap, TypeOK
  <2>4. /\ running' \in [Pid -> Job \cup {NoJob}] /\ kids' \subseteq Pid
        /\ HasJobs(kids', status', running')
    BY <1>15 DEF WaitupError, TypeOK, HasJobs
  <2> QED
    BY <1>15, <2>1, <2>2, <2>3, <2>4
    DEF WaitupError, TypeOK, Control, graphVars, loopVars, optVars
<1>16. ASSUME NEW p \in Pid, FailWait(p) PROVE TypeInv'
  BY <1>16 DEF FailWait, Reap, TypeOK, HasJobs, graphVars, diskVars, loopVars, optVars
<1>17. ASSUME NEW p \in Pid, ChildEnd(p) PROVE TypeInv'
  <2>1. running[p] \in Job
    BY <1>17 DEF ChildEnd, HasJobs
  <2>2. Range(AllTargets[running[p].rule]) \subseteq Node
    BY <2>1, TargetsAreNodes DEF Job
  <2>3. PICK st \in ExitStatus \ {"alive"},
             W \in SUBSET (Range(AllTargets[running[p].rule]) \ IsVirtual), d \in Tick :
          /\ status' = [status EXCEPT ![p] = st]
          /\ clock' = IF W = {} THEN clock ELSE clock + d
          /\ mtime' = MarkNodes(mtime, W, clock')
          /\ partial' = IF st = "exit0" THEN partial \ W ELSE partial \cup W
    BY <1>17 DEF ChildEnd
  <2>4. clock' \in Nat
    BY <2>3, ConstantTypes DEF TypeOK
  <2>5. mtime' \in [Node -> Nat]
    BY <2>3, <2>4, MarkNodesType DEF TypeOK
  <2>6. partial' \subseteq Node
    BY <2>2, <2>3 DEF TypeOK
  <2>7. status' \in [Pid -> ExitStatus] /\ HasJobs(kids', status', running')
    BY <1>17, <2>1, <2>3 DEF ChildEnd, TypeOK, HasJobs, ExitStatus
  <2> QED
    BY <1>17, <2>4, <2>5, <2>6, <2>7 DEF ChildEnd, TypeOK, graphVars, loopVars, optVars
<1>18. CASE UNCHANGED vars
  BY <1>18
  DEF vars, TypeOK, HasJobs, graphVars, schedVars, diskVars, loopVars, optVars
<1> QED
  BY <1>1, <1>2, <1>3, <1>4, <1>5, <1>6, <1>7, <1>8, <1>9, <1>10, <1>11, <1>12, <1>13,
     <1>14, <1>15, <1>16, <1>17, <1>18
  DEF Next, MkStep, WorkStep, Exited

(* TypeOK is an invariant of mk, for every mkfile: in particular a job     *)
(* names only nodes of the graph, and nrunning never goes below zero on    *)
(* any of the three paths that reap a child.                               *)
THEOREM TypeCorrect == Spec => []TypeOK
<1>1. Spec => []TypeInv
  BY TypeInit, TypeStep, PTL DEF Spec
<1>2. TypeInv => TypeOK
  BY DEF TypeInv
<1> QED
  BY <1>1, <1>2, PTL

(***************************************************************************)
(* The pool of processes.  Neither NoLostJob nor NoOrphans is inductive:   *)
(* that a full pool means nrunning = nproclimit needs the bound on         *)
(* nrunning, that an exit leaves no child needs the counter to be exact,   *)
(* and that waitup's sched fills the slot it freed needs that in dry mode  *)
(* there is nothing to wait for.                                           *)
(***************************************************************************)
DryForksNothing == dry_mode => kids = {}

PoolInv ==
  /\ TypeInv /\ IsFiniteSet(kids) /\ PoolAccounting
  /\ NoLostJob /\ DryForksNothing /\ NoOrphans

LEMMA PoolInit == Init => PoolInv
<1> SUFFICES ASSUME Init PROVE PoolInv
  OBVIOUS
<1>1. nproclimit \in Nat
  BY ConstantTypes DEF Init
<1> QED
  BY <1>1, TypeInit, FS_EmptySet
  DEF Init, PoolInv, PoolAccounting, NoLostJob, DryForksNothing, NoOrphans

(* Reaping one child keeps the counter exact. *)
LEMMA ReapCounts ==
  ASSUME PoolInv, NEW p, Reap(p), kids' = kids \ {p}, nrunning' = nrunning - 1,
         nproclimit' = nproclimit, dry_mode' = dry_mode
  PROVE  IsFiniteSet(kids') /\ PoolAccounting' /\ DryForksNothing'
<1>1. IsFiniteSet(kids') /\ Cardinality(kids') = Cardinality(kids) - 1
  BY FS_RemoveElement DEF PoolInv, Reap
<1>2. nproclimit \in Nat /\ nrunning \in Nat
  BY ConstantTypes DEF PoolInv, TypeInv, TypeOK
<1> QED
  BY <1>1, <1>2 DEF PoolInv, PoolAccounting, DryForksNothing

(* sched, called by run or by waitup while s.nrunning < nproclimit, keeps  *)
(* the counter exact and within its bound.                                 *)
LEMMA SchedCounts ==
  ASSUME NEW q, NEW s \in GlobalsType, sched(q, s), TypeOK,
         IsFiniteSet(s.kids), s.nrunning = Cardinality(s.kids),
         s.nrunning < nproclimit, dry_mode => s.kids = {},
         nproclimit' = nproclimit, dry_mode' = dry_mode
  PROVE  IsFiniteSet(kids') /\ PoolAccounting' /\ DryForksNothing'
<1>1. nproclimit \in Nat /\ s.nrunning \in Nat
  BY ConstantTypes DEF TypeOK, GlobalsType
<1>2. CASE dry_mode
  BY <1>1, <1>2, SchedEffect DEF PoolAccounting, DryForksNothing
<1>3. CASE ~dry_mode
  <2>1. PICK p \in Pid \ s.kids : nrunning' = s.nrunning + 1 /\ kids' = s.kids \cup {p}
    BY <1>3, SchedEffect
  <2>2. IsFiniteSet(kids') /\ Cardinality(kids') = Cardinality(s.kids) + 1
    BY <2>1, FS_AddElement
  <2> QED
    BY <1>1, <1>3, <2>1, <2>2 DEF PoolAccounting, DryForksNothing
<1> QED
  BY <1>2, <1>3

LEMMA PoolStep == PoolInv /\ [Next]_vars => PoolInv'
<1> SUFFICES ASSUME PoolInv, [Next]_vars PROVE PoolInv'
  OBVIOUS
<1>1. TypeInv'
  BY TypeStep DEF PoolInv
<1>2. nproclimit \in Nat /\ nrunning \in Nat /\ jobs \in Seq(Job)
  BY ConstantTypes DEF PoolInv, TypeInv, TypeOK
<1>3. nrunning = 0 => kids = {}
  BY FS_EmptySet DEF PoolInv, PoolAccounting
<1>4. CASE /\ UNCHANGED <<jobs, nrunning, kids, nproclimit, dry_mode>>
           /\ Failed => pc' \in {"fail", "exit1"}
           /\ pc' \in {"exit0", "exit1"} => nrunning = 0 \/ pc' = pc
  BY <1>1, <1>3, <1>4
  DEF PoolInv, PoolAccounting, NoLostJob, Failed, DryForksNothing, NoOrphans
<1>5. CASE Dorecipe
  <2> DEFINE job == JobFor(Top.node)
             s == [Globals EXCEPT !.state = MarkNodes(@, job.nodes, "BeingMade")]
             q == Append(jobs, job)
  <2>1. /\ nproclimit' = nproclimit /\ dry_mode' = dry_mode
        /\ pc = "work" /\ pc' = "work"
    BY <1>5 DEF Dorecipe, NeedsRecipe, AllArcsSeen, Working, loopVars, optVars
  <2>2. /\ s \in GlobalsType
        /\ s.kids = kids /\ s.nrunning = nrunning
    <3>1. MarkNodes(state, job.nodes, "BeingMade") \in [Node -> BuildState]
      BY MarkNodesType DEF PoolInv, TypeInv, TypeOK, BuildState
    <3> QED
      BY <3>1 DEF Globals, GlobalsType, PoolInv, TypeInv, TypeOK
  <2>3. job \in Job
    <3>1. Top \in Frame
      BY <1>5, StackOps
      DEF Dorecipe, NeedsRecipe, AllArcsSeen, Working, PoolInv, TypeInv, TypeOK
    <3> QED
      BY <1>5, <3>1, JobForType DEF Dorecipe, Frame, PoolInv, TypeInv, TypeOK
  <2>4. schedIf(s.nrunning < nproclimit, q, s)
    BY <1>5 DEF Dorecipe, run
  <2> HIDE DEF s, job
  <2>5. CASE nrunning < nproclimit /\ sched(q, s)
    <3>1. IsFiniteSet(kids') /\ PoolAccounting' /\ DryForksNothing'
      BY <2>1, <2>2, <2>5, SchedCounts
      DEF PoolInv, TypeInv, PoolAccounting, DryForksNothing
    <3>2. jobs = <<>>
      BY <1>2, <2>1, <2>5 DEF PoolInv, NoLostJob, Failed
    <3>3. jobs' = <<>>
      <4>1. jobs' = Tail(Append(<<>>, job))
        BY <2>2, <2>5, <3>2, SchedEffect
      <4> QED
        BY <2>3, <4>1
    <3> QED
      BY <1>1, <2>1, <3>1, <3>3 DEF PoolInv, NoLostJob, NoOrphans
  <2>6. CASE ~(nrunning < nproclimit) /\ SetGlobals(s) /\ jobs' = q
    BY <1>1, <1>2, <2>1, <2>2, <2>6
    DEF SetGlobals, PoolInv, PoolAccounting, NoLostJob, DryForksNothing, NoOrphans
  <2> QED
    BY <2>2, <2>4, <2>5, <2>6 DEF schedIf
<1>6. ASSUME NEW p \in Pid, Waitup(p) PROVE PoolInv'
  <2> DEFINE upd == UpdatedNodes(running[p])
             s == [state |-> MarkNodes(state, upd, "Made"),
                   time |-> [n \in Node |-> IF n \in upd THEN TimeAfter(n) ELSE time[n]],
                   running |-> [running EXCEPT ![p] = NoJob],
                   nrunning |-> nrunning - 1,
                   kids |-> kids \ {p}]
  <2>1. /\ nproclimit' = nproclimit /\ dry_mode' = dry_mode
        /\ pc \in {"wait", "drain"} /\ pc' \in {"fail", "loop", "drain"}
        /\ Reap(p)
    BY <1>6 DEF Waitup, loopVars, optVars
  <2>2. s \in GlobalsType /\ s.kids = kids \ {p} /\ s.nrunning = nrunning - 1
    <3>1. MarkNodes(state, upd, "Made") \in [Node -> BuildState]
      BY MarkNodesType DEF PoolInv, TypeInv, TypeOK, BuildState
    <3>2. [n \in Node |-> IF n \in upd THEN TimeAfter(n) ELSE time[n]] \in [Node -> Nat]
      BY DEF PoolInv, TypeInv, TypeOK, TimeAfter, VirtualTime
    <3> HIDE DEF upd
    <3> QED
      BY <1>2, <2>1, <3>1, <3>2 DEF Reap, GlobalsType, PoolInv, TypeInv, TypeOK
  <2>3. \/ pc' = "fail" /\ SetGlobals(s) /\ jobs' = jobs
        \/ refill(s)
    BY <1>6 DEF Waitup
  <2> HIDE DEF s
  <2>4. ~dry_mode
    BY <2>1 DEF PoolInv, DryForksNothing, Reap
  <2>5. /\ IsFiniteSet(s.kids) /\ s.nrunning = Cardinality(s.kids)
        /\ s.nrunning < nproclimit
    BY <1>2, <2>1, <2>2, FS_RemoveElement DEF Reap, PoolInv, PoolAccounting
  <2>6. CASE SetGlobals(s) /\ jobs' = jobs /\ (pc' = "fail" \/ jobs = <<>>)
    <3>1. IsFiniteSet(kids') /\ PoolAccounting' /\ DryForksNothing'
      BY <2>1, <2>2, <2>6, ReapCounts DEF SetGlobals
    <3> QED
      BY <1>1, <2>1, <2>6, <3>1 DEF PoolInv, NoLostJob, NoOrphans, Failed
  <2>7. CASE jobs # <<>> /\ sched(jobs, s)
    <3>1. IsFiniteSet(kids') /\ PoolAccounting' /\ DryForksNothing'
      BY <2>1, <2>2, <2>4, <2>5, <2>7, SchedCounts DEF PoolInv, TypeInv
    <3>2. nrunning' = nrunning /\ nrunning = nproclimit
      BY <1>2, <2>1, <2>2, <2>4, <2>7, SchedEffect DEF PoolInv, NoLostJob, Failed
    <3> QED
      BY <1>1, <2>1, <3>1, <3>2 DEF PoolInv, NoLostJob, NoOrphans
  <2> QED
    BY <2>3, <2>5, <2>6, <2>7 DEF refill, schedIf
<1>7. ASSUME NEW p \in Pid, WaitupError(p) \/ FailWait(p) PROVE PoolInv'
  <2>1. /\ nproclimit' = nproclimit /\ dry_mode' = dry_mode
        /\ pc' = "fail" /\ Reap(p)
        /\ kids' = kids \ {p} /\ nrunning' = nrunning - 1
    BY <1>7 DEF WaitupError, FailWait, loopVars, optVars
  <2>2. IsFiniteSet(kids') /\ PoolAccounting' /\ DryForksNothing'
    BY <2>1, ReapCounts
  <2> QED
    BY <1>1, <2>1, <2>2 DEF PoolInv, NoLostJob, NoOrphans, Failed
<1>8. CASE BuildGraph \/ StartPass \/ AfterPass \/ LeaveLoop \/ NextGoal \/ FailExit
  BY <1>4, <1>8
  DEF BuildGraph, StartPass, AfterPass, LeaveLoop, NextGoal, FailExit, Failed,
      schedVars, loopVars, optVars
<1>9. CASE \/ WorkBeingMade \/ WorkLeaf \/ WorkNode \/ WorkRecurse \/ WorkReturned
           \/ WorkNoDest \/ WorkNotReady \/ WorkUpToDate
           \/ DorecipeVirtual \/ DorecipeMissing
  BY <1>4, <1>9
  DEF WorkBeingMade, WorkLeaf, WorkNode, WorkRecurse, WorkReturned, WorkNoDest,
      WorkNotReady, WorkUpToDate, DorecipeVirtual, DorecipeMissing, NeedsRecipe,
      AllArcsSeen, AtArc, Working, Failed, schedVars, loopVars, optVars
<1>10. ASSUME NEW p \in Pid, ChildEnd(p) PROVE PoolInv'
  BY <1>4, <1>10 DEF ChildEnd, Failed, loopVars, optVars
<1>11. CASE UNCHANGED vars
  BY <1>4, <1>11 DEF vars, Failed, schedVars, loopVars, optVars
<1> QED
  BY <1>5, <1>6, <1>7, <1>8, <1>9, <1>10, <1>11 DEF Next, MkStep, WorkStep, Exited

(* The counter nrunning is exact and bounded by $NPROC on every path. *)
THEOREM PoolIsExact == Spec => []PoolAccounting
<1>1. PoolInv => PoolAccounting
  BY DEF PoolInv
<1> QED
  BY <1>1, PoolInit, PoolStep, PTL DEF Spec

(* No queued recipe is forgotten: as long as mk has not failed, a job      *)
(* waits only while $NPROC recipes are running, so that waitup, which is   *)
(* called for each of them, will start it.                                 *)
THEOREM JobsAreNotLost == Spec => []NoLostJob
<1>1. PoolInv => NoLostJob
  BY DEF PoolInv
<1> QED
  BY <1>1, PoolInit, PoolStep, PTL DEF Spec

(* mk never exits, with success or failure, before all its children have   *)
(* been reaped.                                                            *)
THEOREM ExitLeavesNoChild == Spec => []NoOrphans
<1>1. PoolInv => NoOrphans
  BY DEF PoolInv
<1> QED
  BY <1>1, PoolInit, PoolStep, PTL DEF Spec

(***************************************************************************)
(* What failed recipes leave behind.  A file that a failed recipe wrote    *)
(* is there only while mk has still to reap that recipe, or has failed.    *)
(***************************************************************************)
FailedKid(p) == p \in kids /\ status[p] \in {"exitN", "killed"}
WholeInv == PoolInv /\ (partial # {} => Failed \/ \E p \in Pid : FailedKid(p))

LEMMA WholeInit == Init => WholeInv
BY PoolInit DEF Init, WholeInv

(* sched takes a process identifier that no child has. *)
LEMMA SchedKeepsFailed ==
  ASSUME TypeOK, NEW q, NEW s \in GlobalsType, sched(q, s), NEW p \in s.kids,
         status[p] \in {"exitN", "killed"}
  PROVE  p \in kids' /\ status'[p] \in {"exitN", "killed"}
<1>1. CASE dry_mode
  BY <1>1, SchedEffect
<1>2. CASE ~dry_mode
  <2>1. PICK u \in Pid \ s.kids : /\ kids' = s.kids \cup {u}
                                  /\ status' = [status EXCEPT ![u] = "alive"]
    BY <1>2, SchedEffect
  <2> QED
    BY <2>1 DEF TypeOK
<1> QED
  BY <1>1, <1>2

(* Only waitup reaps a child while mk has not failed, and a child that it  *)
(* reaps without giving up has succeeded.                                  *)
LEMMA FailedKidKept ==
  ASSUME PoolInv, Next, ~Failed', NEW p \in Pid, FailedKid(p)
  PROVE  ~Failed /\ FailedKid(p)'
<1>1. TypeOK /\ jobs \in Seq(Job)
  BY DEF PoolInv, TypeInv, TypeOK
<1>2. CASE UNCHANGED <<kids, status>> /\ (Failed => Failed')
  BY <1>2 DEF FailedKid
<1>3. CASE Dorecipe
  <2> DEFINE job == JobFor(Top.node)
             s == [Globals EXCEPT !.state = MarkNodes(@, job.nodes, "BeingMade")]
             q == Append(jobs, job)
  <2>1. pc = "work" /\ s \in GlobalsType /\ s.kids = kids
    <3>1. MarkNodes(state, job.nodes, "BeingMade") \in [Node -> BuildState]
      BY <1>1, MarkNodesType DEF TypeOK, BuildState
    <3> QED
      BY <1>1, <1>3, <3>1 DEF Globals, GlobalsType, TypeOK, Dorecipe, NeedsRecipe, AllArcsSeen,
                             Working
  <2>2. schedIf(s.nrunning < nproclimit, q, s)
    BY <1>3 DEF Dorecipe, run
  <2> HIDE DEF s, q
  <2>3. sched(q, s) \/ (SetGlobals(s) /\ status' = status)
    BY <2>2 DEF schedIf
  <2>4. p \in kids' /\ status'[p] \in {"exitN", "killed"}
    BY <1>1, <2>1, <2>3, SchedKeepsFailed DEF FailedKid, SetGlobals
  <2> QED
    BY <2>1, <2>4 DEF FailedKid, Failed
<1>4. ASSUME NEW u \in Pid, Waitup(u) PROVE ~Failed /\ FailedKid(p)'
  <2> DEFINE upd == UpdatedNodes(running[u])
             s == [state |-> MarkNodes(state, upd, "Made"),
                   time |-> [n \in Node |-> IF n \in upd THEN TimeAfter(n) ELSE time[n]],
                   running |-> [running EXCEPT ![u] = NoJob],
                   nrunning |-> nrunning - 1,
                   kids |-> kids \ {u}]
  <2>1. pc \in {"wait", "drain"} /\ nrunning > 0 /\ u # p
    BY <1>4 DEF Waitup, Reap, FailedKid
  <2>2. s \in GlobalsType /\ s.kids = kids \ {u}
    <3>1. MarkNodes(state, upd, "Made") \in [Node -> BuildState]
      BY <1>1, MarkNodesType DEF TypeOK, BuildState
    <3>2. [n \in Node |-> IF n \in upd THEN TimeAfter(n) ELSE time[n]] \in [Node -> Nat]
      BY <1>1 DEF TypeOK, TimeAfter, VirtualTime
    <3> HIDE DEF upd
    <3> QED
      BY <1>1, <2>1, <3>1, <3>2 DEF GlobalsType, TypeOK
  <2>3. (SetGlobals(s) /\ status' = status) \/ refill(s)
    BY <1>4 DEF Waitup
  <2> HIDE DEF s
  <2>4. sched(jobs, s) \/ (SetGlobals(s) /\ status' = status)
    BY <2>3 DEF refill, schedIf
  <2>5. p \in kids' /\ status'[p] \in {"exitN", "killed"}
    BY <1>1, <2>1, <2>2, <2>4, SchedKeepsFailed DEF FailedKid, SetGlobals
  <2> QED
    BY <2>1, <2>5 DEF FailedKid, Failed
<1>5. ASSUME NEW u \in Pid, WaitupError(u) \/ FailWait(u) PROVE FALSE
  BY <1>5 DEF WaitupError, FailWait, Failed
<1>6. ASSUME NEW u \in Pid, ChildEnd(u) PROVE ~Failed /\ FailedKid(p)'
  <2>1. u # p /\ kids' = kids /\ pc' = pc
    BY <1>6 DEF ChildEnd, FailedKid
  <2>2. status'[p] = status[p]
    BY <1>1, <1>6, <2>1 DEF ChildEnd, TypeOK
  <2> QED
    BY <2>1, <2>2 DEF FailedKid, Failed
<1>7. CASE BuildGraph \/ StartPass \/ AfterPass \/ LeaveLoop \/ NextGoal \/ FailExit
  BY <1>2, <1>7
  DEF BuildGraph, StartPass, AfterPass, LeaveLoop, NextGoal, FailExit, Failed, schedVars
<1>8. CASE \/ WorkBeingMade \/ WorkLeaf \/ WorkNode \/ WorkRecurse \/ WorkReturned
           \/ WorkNoDest \/ WorkNotReady \/ WorkUpToDate
           \/ DorecipeVirtual \/ DorecipeMissing
  BY <1>2, <1>8
  DEF WorkBeingMade, WorkLeaf, WorkNode, WorkRecurse, WorkReturned, WorkNoDest,
      WorkNotReady, WorkUpToDate, DorecipeVirtual, DorecipeMissing, NeedsRecipe,
      AllArcsSeen, AtArc, Working, Failed, schedVars
<1>9. CASE Exited
  BY <1>2, <1>9 DEF Exited, vars, schedVars, Failed
<1> QED
  BY <1>3, <1>4, <1>5, <1>6, <1>7, <1>8, <1>9 DEF Next, MkStep, WorkStep

(* Only a recipe that fails adds to the files that are partly written. *)
LEMMA PartialGrows ==
  ASSUME PoolInv, Next, ~Failed', partial' # {}
  PROVE  partial # {} \/ \E p \in Pid : FailedKid(p)'
<1>1. CASE partial' = partial
  BY <1>1
<1>2. ASSUME NEW u \in Pid, ChildEnd(u) PROVE partial # {} \/ FailedKid(u)'
  <2>1. PICK st \in ExitStatus \ {"alive"} : \E W :
          /\ status' = [status EXCEPT ![u] = st]
          /\ partial' = IF st = "exit0" THEN partial \ W ELSE partial \cup W
    BY <1>2 DEF ChildEnd
  <2>2. CASE st = "exit0"
    BY <2>1, <2>2
  <2>3. CASE st # "exit0"
    <3>1. u \in kids' /\ status'[u] = st
      BY <1>2, <2>1 DEF ChildEnd, PoolInv, TypeInv, TypeOK
    <3> QED
      BY <2>1, <2>3, <3>1 DEF FailedKid, ExitStatus
  <2> QED
    BY <2>2, <2>3
<1>3. ASSUME NEW u \in Pid, WaitupError(u) PROVE FALSE
  BY <1>3 DEF WaitupError, Failed
<1>4. \/ partial' = partial
      \/ \E u \in Pid : ChildEnd(u) \/ WaitupError(u)
  BY DEF Next, MkStep, WorkStep, Exited, vars, diskVars, BuildGraph, StartPass, AfterPass,
         LeaveLoop, NextGoal, FailExit, Waitup, FailWait, WorkBeingMade, WorkLeaf, WorkNode,
         WorkRecurse, WorkReturned, WorkNoDest, WorkNotReady, WorkUpToDate, DorecipeVirtual,
         DorecipeMissing, Dorecipe
<1> QED
  BY <1>1, <1>2, <1>3, <1>4

LEMMA WholeStep == WholeInv /\ [Next]_vars => WholeInv'
<1> SUFFICES ASSUME WholeInv, [Next]_vars PROVE WholeInv'
  OBVIOUS
<1>1. PoolInv /\ PoolInv'
  BY PoolStep DEF WholeInv
<1>2. CASE UNCHANGED vars
  BY <1>1, <1>2 DEF WholeInv, vars, schedVars, diskVars, Failed, FailedKid
<1>3. CASE Next
  <2> SUFFICES ASSUME partial' # {}, ~Failed' PROVE \E p \in Pid : FailedKid(p)'
    BY <1>1 DEF WholeInv
  <2>1. CASE \E p \in Pid : FailedKid(p)
    BY <1>1, <1>3, <2>1, FailedKidKept
  <2>2. CASE partial # {} /\ Failed
    <3>1. Failed => Failed'
      BY <1>3
      DEF Next, MkStep, WorkStep, Exited, vars, BuildGraph, StartPass, AfterPass, ChildEnd,
          LeaveLoop, NextGoal, FailExit, Waitup, WaitupError, FailWait, WorkBeingMade, WorkLeaf,
          WorkNode, WorkRecurse, WorkReturned, WorkNoDest, WorkNotReady, WorkUpToDate,
          DorecipeVirtual, DorecipeMissing, Dorecipe, NeedsRecipe, AllArcsSeen, AtArc, Working,
          Failed
    <3> QED
      BY <2>2, <3>1
  <2> QED
    BY <1>1, <1>3, <2>1, <2>2, PartialGrows DEF WholeInv
<1> QED
  BY <1>2, <1>3

(* No file that a failed or killed recipe left half written survives a     *)
(* build that mk reports as successful, whatever recipes fail, in whatever *)
(* order they end: waitup gives up at the first failure it reaps, and mk   *)
(* does not exit before it has reaped them all.                            *)
THEOREM SuccessIsWhole == Spec => []SuccessMeansWhole
<1>1. WholeInv => SuccessMeansWhole
  BY DEF WholeInv, PoolInv, NoOrphans, Failed, FailedKid, SuccessMeansWhole
<1> QED
  BY <1>1, WholeInit, WholeStep, PTL DEF Spec
=============================================================================

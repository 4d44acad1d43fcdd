---------------------------- MODULE MkTopoProofs ----------------------------
(***************************************************************************)
(* Proofs that the build loop makes every node once, in an order that the  *)
(* dependency graph allows, runs only the recipes it has to, and leaves    *)
(* everything up to date, for every mkfile and command line that are plain *)
(* (MkBuild, PlainMkfile and PlainGoals).                                  *)
(***************************************************************************)
EXTENDS MkBuildProofs

(***************************************************************************)
(* The graph.                                                              *)
(***************************************************************************)

LEMMA ArcType ==
  ASSUME NEW n \in Node
  PROVE  /\ Len(Arcs[n]) \in Nat /\ DOMAIN Arcs[n] = 1..Len(Arcs[n])
         /\ \A i \in 1..Len(Arcs[n]) : Arcs[n][i].dest \in Node \cup {NoNode}
<1>1. Arcs[n] \in Seq([dest : Node \cup {NoNode}, rule : Rule])
  BY ConstantTypes
<1>2. \A i \in 1..Len(Arcs[n]) : Arcs[n][i] \in [dest : Node \cup {NoNode}, rule : Rule]
  BY <1>1, ElementOfSeq
<1> QED
  BY <1>1, <1>2, LenProperties

LEMMA DestType ==
  ASSUME NEW n \in Node
  PROVE  /\ Dest(n) \subseteq Node
         /\ \A m \in Dest(n) : \E i \in 1..Len(Arcs[n]) : Arcs[n][i].dest = m
         /\ \A i \in 1..Len(Arcs[n]) : Arcs[n][i].dest # NoNode => Arcs[n][i].dest \in Dest(n)
  BY ArcType DEF Dest

(* What a target reaches is the least set of nodes that contains it and    *)
(* the prerequisites of its elements.                                      *)
LEMMA ReachIsLeast ==
  ASSUME NEW t \in Node
  PROVE  /\ t \in Reach[t] /\ Reach[t] \subseteq Node /\ Closed(Reach[t])
         /\ \A S \in SUBSET Node : t \in S /\ Closed(S) => Reach[t] \subseteq S
<1>1. Reach[t] = {n \in Node : \A S \in SUBSET Node : t \in S /\ Closed(S) => n \in S}
  BY DEF Reach
<1>2. t \in Reach[t] /\ Reach[t] \subseteq Node
  BY <1>1
<1>3. \A S \in SUBSET Node : t \in S /\ Closed(S) => Reach[t] \subseteq S
  BY <1>1
<1>4. ASSUME NEW n \in Reach[t], NEW m \in Dest(n) PROVE m \in Reach[t]
  <2>1. n \in Node /\ m \in Node
    BY <1>2, DestType
  <2>2. ASSUME NEW S \in SUBSET Node, t \in S, Closed(S) PROVE m \in S
    BY <1>3, <2>2 DEF Closed
  <2> QED
    BY <1>1, <2>1, <2>2
<1> QED
  BY <1>2, <1>3, <1>4 DEF Closed

LEMMA BelowDest ==
  ASSUME NEW n \in Node
  PROVE  /\ \A m \in Dest(n) : m \in Below(n)
         /\ \A a \in Below(n) : a \in Node /\ \A b \in Dest(a) : b \in Below(n)
<1>1. \A m \in Dest(n) : m \in Node
  BY DestType
<1>2. ASSUME NEW a \in Below(n) PROVE a \in Node /\ \A b \in Dest(a) : b \in Below(n)
  <2>1. PICK m \in Dest(n) : a \in Reach[m]
    BY DEF Below
  <2>2. a \in Node /\ \A b \in Dest(a) : b \in Reach[m]
    BY <1>1, <2>1, ReachIsLeast DEF Closed
  <2> QED
    BY <2>1, <2>2 DEF Below
<1>3. ASSUME NEW m \in Dest(n) PROVE m \in Below(n)
  BY <1>1, ReachIsLeast DEF Below
<1> QED
  BY <1>2, <1>3

(* A node that nothing is made from is reached only from itself. *)
LEMMA ReachedFromItself ==
  ASSUME NEW n \in Node, \A m \in Node : n \notin Dest(m), NEW t \in Node, n \in Reach[t]
  PROVE  n = t
<1> SUFFICES ASSUME n # t PROVE FALSE
  OBVIOUS
<1> DEFINE S == Reach[t] \ {n}
<1>1. S \in SUBSET Node /\ t \in S
  BY ReachIsLeast
<1>2. Closed(S)
  BY ReachIsLeast DEF Closed
<1> QED
  BY <1>1, <1>2, ReachIsLeast

(* The targets of one recipe, in a plain mkfile. *)
LEMMA TwinsAlike ==
  ASSUME PlainMkfile, NEW n \in Node, NEW m \in Twins(n)
  PROVE  /\ m \in Node /\ n \in Twins(n) /\ Twins(m) = Twins(n)
         /\ Dest(m) = Dest(n) /\ Below(m) = Below(n)
         /\ m \in IsVirtual <=> n \in IsVirtual
         /\ RecipeArcs(m) = {} <=> RecipeArcs(n) = {}
         /\ RecipeArcs(n) # {} => MasterRule(m) = MasterRule(n)
         /\ \A ts \in InitTimes : ts[m] = ts[n]
<1>1. CASE RecipeArcs(n) = {}
  BY <1>1 DEF Twins
<1>2. CASE RecipeArcs(n) # {}
  <2>1. PlainRule(n)
    BY <1>2 DEF PlainMkfile
  <2>2. m \in Node
    BY <1>2, MasterRuleType, TargetsAreNodes DEF Twins
  <2> QED
    BY <1>2, <2>1, <2>2 DEF PlainRule, Twins, Below
<1> QED
  BY <1>1, <1>2

LEMMA OneRecipe ==
  ASSUME PlainMkfile, NEW n \in Node, RecipeArcs(n) # {}
  PROVE  /\ MasterRule(n) \in Rule /\ Twins(n) = Range(AllTargets[MasterRule(n)])
         /\ n \in Twins(n)
         /\ n \in IsVirtual => \A m \in Node : n \notin Dest(m)
  BY MasterRuleType DEF Twins, PlainMkfile, PlainRule

(***************************************************************************)
(* The inductive invariant.  Its parts take the variables they speak of as *)
(* arguments where the proofs compare them before and after a step.        *)
(***************************************************************************)

(* The table of nodes holds what the targets seen so far reach. *)
KnownInv ==
  /\ hnodes = UNION {Reach[goals[i]] : i \in 1..(IF pc = "graph" THEN g - 1 ELSE g)}
  /\ \A n \in Node \ hnodes : state[n] = "NotMade"

(* No time is in the future. *)
ClockInv ==
  /\ clock > 0
  /\ \A n \in Node : mtime[n] <= clock /\ time[n] <= clock
  /\ \A n \in IsVirtual : RecipeArcs(n) = {} => time[n] <= VirtualTime

(* A file m that is newer than n. *)
Late(n, m, tm) == m \notin IsVirtual /\ tm[n] < tm[m]

(* A node that is made has all it needs, and is up to date. *)
MadeInv ==
  \A n \in Node : state[n] = "Made" =>
    /\ \A m \in Dest(n) : state[m] = "Made"
    /\ n \notin IsVirtual => time[n] # NoTime /\ \A m \in Dest(n) : ~Late(n, m, time)

(* The rules whose recipe is queued or running. *)
ActiveRules(q, run_, ks) == {q[i].rule : i \in 1..Len(q)} \cup {run_[p].rule : p \in ks}

(* A node that is being made waits for such a recipe, and for nothing else. *)
BeingMadeInv ==
  \A n \in Node : state[n] = "BeingMade" =>
    /\ ~dry_mode /\ RecipeArcs(n) # {}
    /\ MasterRule(n) \in ActiveRules(jobs, running, kids)
    /\ \A m \in Dest(n) : state[m] = "Made"

(* What mk knows of a file is what is on disk, unless a recipe is writing it. *)
SeenInv ==
  ~dry_mode => \A n \in hnodes \ IsVirtual : state[n] # "BeingMade" => time[n] = mtime[n]

(* The targets of one recipe are as old as each other, for mk and, until   *)
(* the recipe runs, on disk.                                               *)
TwinsInv ==
  \A n \in Node \ IsVirtual :
    /\ \A m \in Twins(n) : n \in hnodes /\ m \in hnodes => time[m] = time[n]
    /\ \/ Twins(n) \cap hnodes = {}
       \/ ~Together(n) /\ \A m \in Twins(n) : state[m] # "BeingMade"
       => \A m \in Twins(n) : mtime[m] = mtime[n]

(* No two recipes that are queued or running are for the same rule. *)
Slots(q, run_, ks) ==
  /\ \A i, j \in 1..Len(q) : q[i].rule = q[j].rule => i = j
  /\ \A p, u \in ks : run_[p].rule = run_[u].rule => p = u
  /\ \A i \in 1..Len(q), p \in ks : q[i].rule # run_[p].rule

(* A job makes the targets of its rule that are in the graph, and they     *)
(* wait for it.                                                            *)
GoodJob(job, st, hn) ==
  /\ job.nodes = Range(AllTargets[job.rule]) \cap hn
  /\ job.nodes # {}
  /\ \A n \in job.nodes : /\ RecipeArcs(n) # {} /\ MasterRule(n) = job.rule
                          /\ st[n] = "BeingMade"

(* Its targets are on disk as mk knows them until it ends; then the ones   *)
(* it wrote have one time, at which what they are made from existed.       *)
Fresh(job, mt, tm) == \A n \in job.nodes \ IsVirtual : mt[n] = tm[n]
WrittenAt(job, mt, tm, c) ==
  \A n \in job.nodes \ IsVirtual :
    \/ mt[n] = tm[n]
    \/ mt[n] = c /\ \A m \in Dest(n) \ IsVirtual : tm[m] <= c
Written(job, mt, tm, cl) == \E c \in Nat : c <= cl /\ WrittenAt(job, mt, tm, c)
AllWritten(job, mt) ==
  \A n, m \in Range(AllTargets[job.rule]) \ IsVirtual : mt[m] = mt[n]

QueueInv(q, st, hn, mt, tm) ==
  \A i \in 1..Len(q) : GoodJob(q[i], st, hn) /\ Fresh(q[i], mt, tm)

KidInv(job, stat, st, hn, mt, tm, cl) ==
  /\ GoodJob(job, st, hn)
  /\ stat = "alive" => Fresh(job, mt, tm)
  /\ Written(job, mt, tm, cl)
  /\ stat = "exit0" /\ job.rule \notin MayNotWrite => AllWritten(job, mt)

JobsInv ==
  /\ Slots(jobs, running, kids)
  /\ QueueInv(jobs, state, hnodes, mtime, time)
  /\ \A p \in kids : KidInv(running[p], status[p], state, hnodes, mtime, time, clock)

DataInv == KnownInv /\ ClockInv /\ MadeInv /\ BeingMadeInv /\ SeenInv /\ TwinsInv /\ JobsInv

(* One activation of `work': what its flags mean, for the arcs it has seen. *)
ArcOf(f, i) == Arcs[f.node][i].dest
SeenArcs(f) == {i \in 1..(f.arc - 1) : ArcOf(f, i) # NoNode}

FrameShape(f, st, hn) ==
  /\ f.node \in hn
  /\ f.arc <= Len(Arcs[f.node]) + 1
  /\ f.at = "enter" => f.arc = 1 /\ f.ready /\ ~f.ood
  /\ f.at # "enter" => st[f.node] # "BeingMade" /\ Arcs[f.node] # <<>>
  /\ f.at = "back" => f.arc <= Len(Arcs[f.node]) /\ ArcOf(f, f.arc) # NoNode
  /\ f.node \in IsVirtual /\ RecipeArcs(f.node) # {} => st[f.node] = "NotMade"

FrameReady(f, st) ==
  /\ f.ready => \A i \in SeenArcs(f) : st[ArcOf(f, i)] = "Made"
  /\ st[f.node] = "Made" => f.ready /\ (f.node \notin IsVirtual => ~f.ood)

FrameOod(f, st, tm) ==
  /\ f.ready /\ f.ood => \/ tm[f.node] = NoTime
                         \/ \E m \in Dest(f.node) : st[m] = "Made" /\ Late(f.node, m, tm)
  /\ f.ready /\ ~f.ood => /\ f.arc > 1 => tm[f.node] # NoTime
                          /\ \A i \in SeenArcs(f) : ~Late(f.node, ArcOf(f, i), tm)

FrameInv(f, st, tm, hn) == FrameShape(f, st, hn) /\ FrameReady(f, st) /\ FrameOod(f, st, tm)

(* The activations follow a path of the graph. *)
ChainInv(s) ==
  /\ \A i, j \in 1..Len(s) : i < j => s[j].node \in Below(s[i].node)
  /\ \A i \in 1..(Len(s) - 1) : s[i].at = "back" /\ s[i + 1].node = ArcOf(s[i], s[i].arc)

(* A prerequisite that `work' returns from as made has a time. *)
ReturnInv(s, st, tm) ==
  s # <<>> =>
    LET f == s[Len(s)]
        m == ArcOf(f, f.arc)
    IN f.at = "back" /\ st[m] = "Made" => tm[m] # NoTime

StackInv ==
  /\ \A i \in 1..Len(stack) : FrameInv(stack[i], state, time, hnodes)
  /\ ChainInv(stack)
  /\ ReturnInv(stack, state, time)

(* The targets of the command line are built one after the other. *)
LoopInv ==
  /\ pc # "work" => stack = <<>>
  /\ pc \in {"graph", "exit0"} => kids = {} /\ jobs = <<>>
  /\ pc \in {"drain", "exit0"} => state[Root] # "NotMade"
  /\ pc = "exit0" => g = Len(goals)
  /\ \A i \in 1..(g - 1) : state[goals[i]] = "Made"

TopoInv == /\ PoolInv /\ PlainMkfile /\ PlainGoals
           /\ ~Failed => DataInv /\ StackInv /\ LoopInv

(***************************************************************************)
(* The stack of activations.                                               *)
(***************************************************************************)

LEMMA PopIs ==
  ASSUME stack \in Seq(Frame), stack # <<>>
  PROVE  /\ Len(stack) \in Nat \ {0} /\ Pop \in Seq(Frame) /\ Len(Pop) = Len(stack) - 1
         /\ \A i \in 1..(Len(stack) - 1) : Pop[i] = stack[i]
<1>1. Len(stack) \in Nat \ {0}
  BY EmptySeq
<1>2. \A i \in 1..(Len(stack) - 1) : stack[i] \in Frame
  BY <1>1, ElementOfSeq
<1>3. /\ Pop \in Seq(Frame)
      /\ Len(Pop) = IF 1 <= Len(stack) - 1 THEN Len(stack) - 1 - 1 + 1 ELSE 0
      /\ \A i \in 1..(Len(stack) - 1 - 1 + 1) : Pop[i] = stack[1 + i - 1]
  BY <1>1, <1>2, SubSeqProperties DEF Pop
<1>4. Len(Pop) = Len(stack) - 1
  <2>1. CASE 1 <= Len(stack) - 1
    BY <1>1, <1>3, <2>1
  <2>2. CASE ~(1 <= Len(stack) - 1)
    <3>1. Len(stack) - 1 = 0
      <4>1. PICK k : k = Len(stack)
        OBVIOUS
      <4>2. k \in Nat /\ k # 0 /\ ~(1 <= k - 1)
        BY <1>1, <2>2, <4>1
      <4>3. k - 1 = 0
        BY <4>2
      <4> QED
        BY <4>1, <4>3
    <3>2. Len(Pop) = 0
      BY <1>3, <2>2
    <3> QED
      BY <3>1, <3>2
  <2> QED
    BY <2>1, <2>2
<1>5. ASSUME NEW i \in 1..(Len(stack) - 1) PROVE Pop[i] = stack[i]
  <2>1. i \in 1..(Len(stack) - 1 - 1 + 1) /\ 1 + i - 1 = i
    BY <1>1
  <2> QED
    BY <1>3, <2>1
<1> QED
  BY <1>1, <1>3, <1>4, <1>5

LEMMA SetTopIs ==
  ASSUME stack \in Seq(Frame), stack # <<>>, NEW f \in Frame
  PROVE  /\ SetTop(f) \in Seq(Frame) /\ Len(SetTop(f)) = Len(stack)
         /\ \A i \in 1..(Len(stack) - 1) : SetTop(f)[i] = stack[i]
         /\ SetTop(f)[Len(stack)] = f
<1>1. /\ Len(stack) \in Nat \ {0} /\ Pop \in Seq(Frame) /\ Len(Pop) = Len(stack) - 1
      /\ \A i \in 1..(Len(stack) - 1) : Pop[i] = stack[i]
  BY PopIs
<1>2. /\ SetTop(f) \in Seq(Frame) /\ Len(SetTop(f)) = Len(Pop) + 1
      /\ \A i \in 1..Len(Pop) : SetTop(f)[i] = Pop[i]
      /\ SetTop(f)[Len(Pop) + 1] = f
  BY <1>1, AppendProperties DEF SetTop
<1>3. Len(Pop) + 1 = Len(stack)
  BY <1>1
<1> QED
  BY <1>1, <1>2, <1>3

LEMMA FrameTypes ==
  ASSUME NEW f \in Frame
  PROVE  /\ f.node \in Node /\ f.arc \in Nat \ {0}
         /\ f.ready \in BOOLEAN /\ f.ood \in BOOLEAN /\ f.at \in {"enter", "arc", "back"}
  BY DEF Frame

(* The nodes that an activation has seen. *)
LEMMA SeenArcsAre ==
  ASSUME NEW f \in Frame, f.arc <= Len(Arcs[f.node]) + 1
  PROVE  \A i \in SeenArcs(f) : i \in 1..Len(Arcs[f.node]) /\ ArcOf(f, i) \in Dest(f.node)
<1> SUFFICES ASSUME NEW i \in SeenArcs(f)
             PROVE  i \in 1..Len(Arcs[f.node]) /\ ArcOf(f, i) \in Dest(f.node)
  OBVIOUS
<1>1. f.node \in Node /\ f.arc \in Nat \ {0} /\ Len(Arcs[f.node]) \in Nat
  BY FrameTypes, ArcType
<1>2. i \in 1..Len(Arcs[f.node]) /\ ArcOf(f, i) # NoNode
  BY <1>1 DEF SeenArcs
<1> QED
  BY <1>1, <1>2, DestType DEF ArcOf

(* Activations other than the innermost one do not notice what a step does *)
(* to nodes that are not theirs and not made.                              *)
KeepsMade(st, st2, tm, tm2) ==
  \A m \in Node : st[m] = "Made" => st2[m] = "Made" /\ (m \notin IsVirtual => tm2[m] = tm[m])

LEMMA FrameKept ==
  ASSUME NEW f \in Frame, NEW st, NEW st2, NEW tm, NEW tm2, NEW hn,
         FrameInv(f, st, tm, hn), KeepsMade(st, st2, tm, tm2),
         st2[f.node] = st[f.node], tm2[f.node] = tm[f.node]
  PROVE  FrameInv(f, st2, tm2, hn)
<1>1. f.node \in Node /\ f.arc <= Len(Arcs[f.node]) + 1
  BY FrameTypes DEF FrameInv, FrameShape
<1>2. \A i \in SeenArcs(f) : ArcOf(f, i) \in Node
  BY <1>1, SeenArcsAre, DestType
<1>3. FrameShape(f, st2, hn)
  BY DEF FrameInv, FrameShape
<1>4. FrameReady(f, st2)
  BY <1>2 DEF FrameInv, FrameReady, KeepsMade
<1>5. ASSUME f.ready, f.ood PROVE \/ tm2[f.node] = NoTime
                                  \/ \E m \in Dest(f.node) : st2[m] = "Made" /\ Late(f.node, m, tm2)
  <2>1. CASE tm[f.node] = NoTime
    BY <2>1
  <2>2. ASSUME NEW m \in Dest(f.node), st[m] = "Made", Late(f.node, m, tm)
        PROVE  st2[m] = "Made" /\ Late(f.node, m, tm2)
    BY <1>1, <2>2, DestType DEF KeepsMade, Late
  <2> QED
    BY <1>5, <2>1, <2>2 DEF FrameInv, FrameOod
<1>6. ASSUME f.ready, ~f.ood PROVE /\ f.arc > 1 => tm2[f.node] # NoTime
                                   /\ \A i \in SeenArcs(f) : ~Late(f.node, ArcOf(f, i), tm2)
  <2>1. \A i \in SeenArcs(f) : st[ArcOf(f, i)] = "Made" /\ ~Late(f.node, ArcOf(f, i), tm)
    BY <1>6 DEF FrameInv, FrameReady, FrameOod
  <2> QED
    BY <1>2, <1>6, <2>1 DEF FrameInv, FrameOod, KeepsMade, Late
<1> QED
  BY <1>3, <1>4, <1>5, <1>6 DEF FrameInv, FrameOod

(* The node of an outer activation is not made by the recipe of the        *)
(* innermost one.                                                          *)
LEMMA OuterNodes ==
  ASSUME PlainMkfile, TypeOK, StackInv, stack # <<>>, NEW i \in 1..(Len(stack) - 1)
  PROVE  stack[i].node \notin Twins(Top.node) /\ stack[i].node # Top.node
<1>1. Len(stack) \in Nat \ {0} /\ i \in 1..Len(stack) /\ Len(stack) \in 1..Len(stack) /\ i < Len(stack)
  BY PopIs DEF TypeOK
<1>2. Top \in Frame /\ Top = stack[Len(stack)]
  BY StackOps DEF TypeOK, Top
<1>3. Top.node \in Node /\ stack[i].node \in Node
  BY <1>1, <1>2, FrameTypes, ElementOfSeq DEF TypeOK
<1>4. Top.node \in Below(stack[i].node)
  BY <1>1, <1>2 DEF StackInv, ChainInv
<1>5. Top.node \notin Below(Top.node)
  BY <1>3 DEF PlainMkfile
<1>6. stack[i].node # Top.node
  BY <1>4, <1>5
<1>7. stack[i].node \notin Twins(Top.node)
  <2> SUFFICES ASSUME stack[i].node \in Twins(Top.node) PROVE FALSE
    OBVIOUS
  <2>1. Below(stack[i].node) = Below(Top.node)
    BY <1>3, TwinsAlike
  <2> QED
    BY <1>4, <1>5, <2>1
<1> QED
  BY <1>6, <1>7

(* Returning from `work'. *)
LEMMA PopStack ==
  ASSUME TypeOK, StackInv, stack # <<>>, stack' = Pop, hnodes' = hnodes,
         KeepsMade(state, state', time, time'),
         \A i \in 1..(Len(stack) - 1) : /\ state'[stack[i].node] = state[stack[i].node]
                                        /\ time'[stack[i].node] = time[stack[i].node],
         state'[Top.node] = "Made" => time'[Top.node] # NoTime
  PROVE  StackInv'
<1>1. /\ Len(stack) \in Nat \ {0} /\ Len(stack') = Len(stack) - 1
      /\ \A i \in 1..(Len(stack) - 1) : stack'[i] = stack[i]
      /\ stack \in Seq(Frame) /\ stack' \in Seq(Frame)
  BY PopIs DEF TypeOK
<1>2. ASSUME NEW i \in 1..Len(stack') PROVE FrameInv(stack'[i], state', time', hnodes')
  <2>1. i \in 1..(Len(stack) - 1) /\ i \in 1..Len(stack) /\ stack'[i] = stack[i]
    BY <1>1
  <2>2. stack[i] \in Frame /\ FrameInv(stack[i], state, time, hnodes)
    BY <1>1, <2>1, ElementOfSeq DEF StackInv
  <2>3. FrameInv(stack[i], state', time', hnodes)
    BY <2>1, <2>2, FrameKept
  <2> QED
    BY <2>1, <2>3
<1>3. ChainInv(stack')
  <2>1. ASSUME NEW i \in 1..Len(stack'), NEW j \in 1..Len(stack'), i < j
        PROVE  stack'[j].node \in Below(stack'[i].node)
    <3>1. /\ i \in 1..(Len(stack) - 1) /\ j \in 1..(Len(stack) - 1)
          /\ i \in 1..Len(stack) /\ j \in 1..Len(stack)
      BY <1>1
    <3>2. stack[j].node \in Below(stack[i].node)
      BY <2>1, <3>1 DEF StackInv, ChainInv
    <3> QED
      BY <1>1, <3>1, <3>2
  <2>2. ASSUME NEW i \in 1..(Len(stack') - 1)
        PROVE  stack'[i].at = "back" /\ stack'[i + 1].node = ArcOf(stack'[i], stack'[i].arc)
    <3>1. i \in 1..(Len(stack) - 1) /\ i + 1 \in 1..(Len(stack) - 1)
      BY <1>1
    <3>2. stack[i].at = "back" /\ stack[i + 1].node = ArcOf(stack[i], stack[i].arc)
      BY <3>1 DEF StackInv, ChainInv
    <3> QED
      BY <1>1, <3>1, <3>2
  <2> QED
    BY <2>1, <2>2 DEF ChainInv
<1>4. ReturnInv(stack', state', time')
  <2> SUFFICES ASSUME stack' # <<>>,
                      NEW f, f = stack'[Len(stack')], NEW m, m = ArcOf(f, f.arc),
                      f.at = "back", state'[m] = "Made"
               PROVE  time'[m] # NoTime
    BY DEF ReturnInv
  <2>1. Len(stack') # 0
    BY <1>1, EmptySeq
  <2>2. PICK k : k = Len(stack) - 1
    OBVIOUS
  <2>3. k = Len(stack') /\ k \in 1..(Len(stack) - 1) /\ k + 1 = Len(stack)
    BY <1>1, <2>1, <2>2
  <2>4. f = stack[k]
    BY <1>1, <2>3
  <2>5. stack[k + 1].node = ArcOf(stack[k], stack[k].arc)
    BY <2>3 DEF StackInv, ChainInv
  <2>6. m = Top.node
    BY <2>3, <2>4, <2>5 DEF Top
  <2> QED
    BY <2>6
<1> QED
  BY <1>2, <1>3, <1>4 DEF StackInv

(* Looking at the next arc. *)
LEMMA SetTopStack ==
  ASSUME TypeOK, StackInv, stack # <<>>, NEW f \in Frame, f.node = Top.node, f.at # "back",
         FrameInv(f, state, time, hnodes), stack' = SetTop(f), UNCHANGED graphVars
  PROVE  StackInv'
<1>1. /\ Len(stack) \in Nat \ {0} /\ Len(stack') = Len(stack) /\ stack \in Seq(Frame)
      /\ \A i \in 1..(Len(stack) - 1) : stack'[i] = stack[i]
      /\ stack'[Len(stack)] = f
  BY PopIs, SetTopIs DEF TypeOK
<1>2. UNCHANGED <<state, time, hnodes>>
  BY DEF graphVars
<1>3. \A i \in 1..Len(stack) : i \in 1..(Len(stack) - 1) \/ i = Len(stack)
  BY <1>1
<1>4. \A i \in 1..Len(stack) : stack'[i].node = stack[i].node
  BY <1>1, <1>3 DEF Top
<1>5. \A i \in 1..Len(stack') : FrameInv(stack'[i], state', time', hnodes')
  BY <1>1, <1>2, <1>3 DEF StackInv
<1>6. ChainInv(stack')
  <2>1. \A i, j \in 1..Len(stack') : i < j => stack'[j].node \in Below(stack'[i].node)
    BY <1>1, <1>4 DEF StackInv, ChainInv
  <2>2. ASSUME NEW i \in 1..(Len(stack') - 1)
        PROVE  stack'[i].at = "back" /\ stack'[i + 1].node = ArcOf(stack'[i], stack'[i].arc)
    <3>1. i \in 1..(Len(stack) - 1) /\ i + 1 \in 1..Len(stack)
      BY <1>1
    <3>2. stack[i].at = "back" /\ stack[i + 1].node = ArcOf(stack[i], stack[i].arc)
      BY <3>1 DEF StackInv, ChainInv
    <3> QED
      BY <1>1, <1>4, <3>1, <3>2
  <2> QED
    BY <2>1, <2>2 DEF ChainInv
<1>7. ReturnInv(stack', state', time')
  BY <1>1 DEF ReturnInv
<1> QED
  BY <1>5, <1>6, <1>7 DEF StackInv

(* Calling `work' for a prerequisite. *)
LEMMA PushStack ==
  ASSUME TypeOK, StackInv, stack # <<>>, NEW f \in Frame, f.node = Top.node, f.at = "back",
         FrameInv(f, state, time, hnodes), NEW c \in Frame, c.at # "back",
         FrameInv(c, state, time, hnodes), c.node = ArcOf(f, f.arc), c.node \in Dest(f.node),
         stack' = Append(SetTop(f), c), UNCHANGED graphVars
  PROVE  StackInv'
<1>1. PICK n : n = Len(stack)
  OBVIOUS
<1>2. /\ n \in Nat \ {0} /\ SetTop(f) \in Seq(Frame) /\ Len(SetTop(f)) = n
      /\ \A i \in 1..(n - 1) : SetTop(f)[i] = stack[i]
      /\ SetTop(f)[n] = f
  BY <1>1, PopIs, SetTopIs DEF TypeOK
<1>3. /\ Len(stack') = n + 1 /\ stack'[n + 1] = c
      /\ \A i \in 1..n : stack'[i] = SetTop(f)[i]
  BY <1>2, AppendProperties
<1>4. UNCHANGED <<state, time, hnodes>>
  BY DEF graphVars
<1>5. \A i \in 1..(n + 1) : i \in 1..(n - 1) \/ i = n \/ i = n + 1
  BY <1>2
<1>6. \A i \in 1..(n - 1) : i \in 1..n /\ stack'[i] = stack[i]
  BY <1>2, <1>3
<1>7. stack'[n] = f /\ n \in 1..n
  BY <1>2, <1>3
<1>8. \A i \in 1..Len(stack') : FrameInv(stack'[i], state', time', hnodes')
  BY <1>1, <1>3, <1>4, <1>5, <1>6, <1>7 DEF StackInv
<1>9. ChainInv(stack')
  <2>1. \A i \in 1..n : stack'[i].node = stack[i].node
    <3>1. stack[n].node = f.node
      BY <1>1 DEF Top
    <3>2. \A i \in 1..n : i \in 1..(n - 1) \/ i = n
      BY <1>2
    <3> QED
      BY <1>6, <1>7, <3>1, <3>2
  <2>2. \A i \in 1..n : stack[i].node \in Node
    BY <1>1, FrameTypes, ElementOfSeq DEF TypeOK
  <2>3. ASSUME NEW i \in 1..Len(stack'), NEW j \in 1..Len(stack'), i < j
        PROVE  stack'[j].node \in Below(stack'[i].node)
    <3>1. i \in 1..n
      BY <1>2, <1>3, <2>3
    <3>2. CASE j \in 1..n
      BY <1>1, <2>1, <2>3, <3>1, <3>2 DEF StackInv, ChainInv
    <3>3. CASE j = n + 1
      <4>1. stack[n].node = f.node
        BY <1>1 DEF Top
      <4>2. CASE i = n
        BY <1>3, <2>1, <2>2, <3>1, <3>3, <4>1, <4>2, BelowDest
      <4>3. CASE i # n
        <5>1. i < n
          BY <1>2, <3>1, <4>3
        <5>2. f.node \in Below(stack[i].node)
          BY <1>1, <1>7, <3>1, <4>1, <5>1 DEF StackInv, ChainInv
        <5> QED
          BY <1>3, <2>1, <2>2, <3>1, <3>3, <5>2, BelowDest
      <4> QED
        BY <4>2, <4>3
    <3> QED
      BY <1>2, <1>3, <3>2, <3>3
  <2>4. ASSUME NEW i \in 1..(Len(stack') - 1)
        PROVE  stack'[i].at = "back" /\ stack'[i + 1].node = ArcOf(stack'[i], stack'[i].arc)
    <3>1. i \in 1..n
      BY <1>2, <1>3
    <3>2. CASE i = n
      BY <1>3, <1>7, <3>2
    <3>3. CASE i # n
      <4>1. i \in 1..(n - 1) /\ i + 1 \in 1..n
        BY <1>2, <3>1, <3>3
      <4>2. stack[i].at = "back" /\ stack[i + 1].node = ArcOf(stack[i], stack[i].arc)
        BY <1>1, <4>1 DEF StackInv, ChainInv
      <4> QED
        BY <1>6, <2>1, <4>1, <4>2
    <3> QED
      BY <3>2, <3>3
  <2> QED
    BY <2>3, <2>4 DEF ChainInv
<1>10. ReturnInv(stack', state', time')
  BY <1>3 DEF ReturnInv
<1> QED
  BY <1>8, <1>9, <1>10 DEF StackInv

(***************************************************************************)
(* The steps of `work' that only move its activations.                     *)
(***************************************************************************)

(* The targets of the command line are nodes, and so is all they reach. *)
LEMMA KnownClosed ==
  ASSUME TypeOK, KnownInv
  PROVE  /\ \A i \in 1..Len(goals) : goals[i] \in Node
         /\ Len(goals) \in Nat /\ g \in 1..Len(goals)
         /\ Closed(hnodes)
         /\ pc # "graph" => Root \in hnodes
<1>1. goals \in Seq(Node) /\ g \in 1..Len(goals)
  BY ConstantTypes DEF TypeOK
<1>2. \A i \in 1..Len(goals) : goals[i] \in Node
  BY <1>1, ElementOfSeq
<1>3. Len(goals) \in Nat
  BY <1>1, LenProperties
<1>4. PICK k : k = IF pc = "graph" THEN g - 1 ELSE g
  OBVIOUS
<1>5. k \in 0..Len(goals) /\ hnodes = UNION {Reach[goals[i]] : i \in 1..k}
  BY <1>1, <1>3, <1>4 DEF KnownInv
<1>6. \A i \in 1..k : goals[i] \in Node /\ Closed(Reach[goals[i]])
  BY <1>2, <1>3, <1>5, ReachIsLeast
<1>7. Closed(hnodes)
  <2> SUFFICES ASSUME NEW n \in hnodes, NEW m \in Dest(n) PROVE m \in hnodes
    BY DEF Closed
  <2>1. PICK i \in 1..k : n \in Reach[goals[i]]
    BY <1>5
  <2>2. m \in Reach[goals[i]]
    BY <1>6, <2>1 DEF Closed
  <2> QED
    BY <1>5, <2>2
<1>8. ASSUME pc # "graph" PROVE Root \in hnodes
  <2>1. g \in 1..k /\ Root \in Reach[goals[g]]
    BY <1>1, <1>2, <1>3, <1>4, <1>8, ReachIsLeast DEF Root
  <2> QED
    BY <1>5, <2>1
<1> QED
  BY <1>1, <1>2, <1>3, <1>7, <1>8

(* The innermost activation. *)
LEMMA TopInv ==
  ASSUME TypeOK, StackInv, stack # <<>>
  PROVE  /\ Top \in Frame /\ Top.node \in Node /\ Top.arc \in Nat \ {0}
         /\ FrameInv(Top, state, time, hnodes)
         /\ Top.at = "back" /\ state[ArcOf(Top, Top.arc)] = "Made"
              => time[ArcOf(Top, Top.arc)] # NoTime
<1>1. Len(stack) \in Nat \ {0} /\ Top = stack[Len(stack)] /\ Top \in Frame
  BY PopIs, StackOps DEF TypeOK, Top
<1>2. Len(stack) \in 1..Len(stack)
  BY <1>1
<1>3. FrameInv(Top, state, time, hnodes) /\ ReturnInv(stack, state, time)
  BY <1>1, <1>2 DEF StackInv
<1> QED
  BY <1>1, <1>3, FrameTypes DEF ReturnInv

(* A made prerequisite is newer than n when n is out of date with it; one  *)
(* that is virtual has the time 1.0.                                       *)
LEMMA MadeDest ==
  ASSUME TypeOK, PlainMkfile, ClockInv, NEW n \in Node, NEW m \in Dest(n), time[m] # NoTime
  PROVE  /\ OutOfDate(n, m) <=> time[n] < time[m]
         /\ m \in IsVirtual /\ time[n] < time[m] => time[n] = NoTime
<1>1. m \in Node /\ time[m] \in Nat /\ time[n] \in Nat
  BY DestType DEF TypeOK
<1>2. ASSUME m \in IsVirtual, time[n] < time[m] PROVE time[n] = NoTime
  <2>1. RecipeArcs(m) = {}
    BY <1>1, <1>2, OneRecipe
  <2>2. time[m] <= 1
    BY <1>2, <2>1 DEF ClockInv, VirtualTime
  <2> QED
    BY <1>1, <1>2, <2>2 DEF NoTime
<1> QED
  BY <1>2 DEF OutOfDate

LEMMA ReturnedFrame ==
  ASSUME TypeOK, PlainMkfile, ClockInv, MadeInv, StackInv, stack # <<>>, Top.at = "back",
         NEW f \in Frame, f.node = Top.node, f.at = "arc", f.arc = Top.arc + 1,
         NEW m, m = ArcOf(Top, Top.arc),
         f.ready <=> Top.ready /\ state[m] = "Made",
         f.ood <=> Top.ood \/ OutOfDate(Top.node, m)
  PROVE  FrameInv(f, state, time, hnodes)
<1>1. PICK t : t = Top
  OBVIOUS
<1>2. PICK n : n = t.node
  OBVIOUS
<1>3. /\ t \in Frame /\ n \in Node /\ t.arc \in Nat \ {0} /\ FrameInv(t, state, time, hnodes)
      /\ state[m] = "Made" => time[m] # NoTime
      /\ t.at = "back" /\ f.node = n /\ f.arc = t.arc + 1 /\ m = ArcOf(t, t.arc)
      /\ f.ready <=> t.ready /\ state[m] = "Made"
      /\ f.ood <=> t.ood \/ OutOfDate(n, m)
  BY <1>1, <1>2, TopInv
<1>4. /\ t.arc <= Len(Arcs[n]) /\ m # NoNode /\ Len(Arcs[n]) \in Nat /\ n \in hnodes
      /\ state[n] # "BeingMade" /\ Arcs[n] # <<>>
      /\ n \in IsVirtual /\ RecipeArcs(n) # {} => state[n] = "NotMade"
  BY <1>2, <1>3, ArcType DEF FrameInv, FrameShape
<1>5. m \in Dest(n) /\ m \in Node
  <2>1. t.arc \in 1..Len(Arcs[n])
    BY <1>3, <1>4
  <2>2. Arcs[n][t.arc].dest = m
    BY <1>2, <1>3 DEF ArcOf
  <2>3. /\ Dest(n) \subseteq Node
        /\ \A i \in 1..Len(Arcs[n]) : Arcs[n][i].dest # NoNode => Arcs[n][i].dest \in Dest(n)
    BY <1>3, DestType
  <2> QED
    BY <1>4, <2>1, <2>2, <2>3
<1>6. \A i : ArcOf(f, i) = ArcOf(t, i)
  BY <1>2, <1>3 DEF ArcOf
<1>7. \A i \in SeenArcs(f) : i \in SeenArcs(t) \/ ArcOf(f, i) = m
  <2> SUFFICES ASSUME NEW i \in SeenArcs(f) PROVE i \in SeenArcs(t) \/ i = t.arc
    BY <1>3, <1>6
  <2>1. i \in 1..(f.arc - 1) /\ ArcOf(t, i) # NoNode
    BY <1>6 DEF SeenArcs
  <2>2. i \in 1..(t.arc - 1) \/ i = t.arc
    BY <1>3, <2>1
  <2> QED
    BY <2>1, <2>2 DEF SeenArcs
<1>8. time[m] \in Nat /\ time[n] \in Nat
  BY <1>3, <1>5 DEF TypeOK
<1>9. state[m] = "Made" => /\ OutOfDate(n, m) <=> time[n] < time[m]
                           /\ m \in IsVirtual /\ time[n] < time[m] => time[n] = NoTime
  BY <1>3, <1>5, MadeDest
<1>10. FrameShape(f, state, hnodes)
  BY <1>3, <1>4 DEF FrameShape
<1>11. FrameReady(f, state)
  <2>1. f.ready => \A i \in SeenArcs(f) : state[ArcOf(f, i)] = "Made"
    BY <1>3, <1>6, <1>7 DEF FrameInv, FrameReady
  <2>2. ASSUME state[n] = "Made" PROVE f.ready /\ (n \notin IsVirtual => ~f.ood)
    <3>1. t.ready /\ (n \notin IsVirtual => ~t.ood)
      BY <1>2, <1>3, <2>2 DEF FrameInv, FrameReady
    <3>2. state[m] = "Made"
      BY <1>3, <1>5, <2>2 DEF MadeInv
    <3>3. n \notin IsVirtual => time[n] # NoTime /\ ~Late(n, m, time)
      BY <1>3, <1>5, <2>2 DEF MadeInv
    <3>4. n \notin IsVirtual => ~(time[n] < time[m])
      BY <1>9, <3>2, <3>3 DEF Late
    <3> QED
      BY <1>3, <1>9, <3>1, <3>2, <3>4
  <2> QED
    BY <1>3, <2>1, <2>2 DEF FrameReady
<1>12. FrameOod(f, state, time)
  <2>1. ASSUME f.ready, f.ood
        PROVE \/ time[n] = NoTime
              \/ \E u \in Dest(n) : state[u] = "Made" /\ Late(n, u, time)
    <3>1. CASE t.ood
      BY <1>2, <1>3, <2>1, <3>1 DEF FrameInv, FrameOod
    <3>2. CASE OutOfDate(n, m)
      <4>1. state[m] = "Made" /\ time[n] < time[m]
        BY <1>3, <1>9, <2>1, <3>2
      <4>2. m \notin IsVirtual => Late(n, m, time)
        BY <4>1 DEF Late
      <4> QED
        BY <1>5, <1>9, <4>1, <4>2
    <3> QED
      BY <1>3, <2>1, <3>1, <3>2
  <2>2. ASSUME f.ready, ~f.ood
        PROVE  time[n] # NoTime /\ \A i \in SeenArcs(f) : ~Late(n, ArcOf(f, i), time)
    <3>1. t.ready /\ ~t.ood /\ state[m] = "Made" /\ time[m] # NoTime /\ ~(time[n] < time[m])
      BY <1>3, <1>9, <2>2
    <3>2. time[n] # NoTime
      BY <1>8, <3>1 DEF NoTime
    <3>3. ~Late(n, m, time)
      BY <3>1 DEF Late
    <3>4. \A i \in SeenArcs(t) : ~Late(n, ArcOf(t, i), time)
      BY <1>2, <1>3, <3>1 DEF FrameInv, FrameOod
    <3> QED
      BY <1>6, <1>7, <3>2, <3>3, <3>4
  <2> QED
    BY <1>3, <2>1, <2>2 DEF FrameOod
<1> QED
  BY <1>10, <1>11, <1>12 DEF FrameInv

LEMMA NoDestFrame ==
  ASSUME TypeOK, MadeInv, StackInv, stack # <<>>, Top.at = "arc",
         Top.arc <= Len(Arcs[Top.node]), ArcOf(Top, Top.arc) = NoNode,
         NEW f \in Frame, f.node = Top.node, f.at = "arc", f.arc = Top.arc + 1,
         f.ready <=> Top.ready, f.ood <=> Top.ood \/ time[Top.node] = NoTime
  PROVE  FrameInv(f, state, time, hnodes)
<1>1. PICK t : t = Top
  OBVIOUS
<1>2. PICK n : n = t.node
  OBVIOUS
<1>3. /\ t \in Frame /\ n \in Node /\ t.arc \in Nat \ {0} /\ FrameInv(t, state, time, hnodes)
      /\ t.at = "arc" /\ f.node = n /\ f.arc = t.arc + 1 /\ ArcOf(t, t.arc) = NoNode
      /\ t.arc <= Len(Arcs[n])
      /\ f.ready <=> t.ready
      /\ f.ood <=> t.ood \/ time[n] = NoTime
  BY <1>1, <1>2, TopInv
<1>4. /\ Len(Arcs[n]) \in Nat /\ n \in hnodes /\ state[n] # "BeingMade" /\ Arcs[n] # <<>>
      /\ n \in IsVirtual /\ RecipeArcs(n) # {} => state[n] = "NotMade"
  BY <1>2, <1>3, ArcType DEF FrameInv, FrameShape
<1>5. \A i : ArcOf(f, i) = ArcOf(t, i)
  BY <1>2, <1>3 DEF ArcOf
<1>6. \A i \in SeenArcs(f) : i \in SeenArcs(t)
  <2> SUFFICES ASSUME NEW i \in SeenArcs(f) PROVE i \in SeenArcs(t)
    OBVIOUS
  <2>1. i \in 1..(f.arc - 1) /\ ArcOf(t, i) # NoNode
    BY <1>5 DEF SeenArcs
  <2>2. i \in 1..(t.arc - 1)
    BY <1>3, <2>1
  <2> QED
    BY <2>1, <2>2 DEF SeenArcs
<1>7. FrameShape(f, state, hnodes)
  BY <1>3, <1>4 DEF FrameShape
<1>8. FrameReady(f, state)
  <2>1. f.ready => \A i \in SeenArcs(f) : state[ArcOf(f, i)] = "Made"
    BY <1>3, <1>5, <1>6 DEF FrameInv, FrameReady
  <2>2. state[n] = "Made" => f.ready /\ (n \notin IsVirtual => ~f.ood)
    BY <1>2, <1>3 DEF FrameInv, FrameReady, MadeInv
  <2> QED
    BY <1>3, <2>1, <2>2 DEF FrameReady
<1>9. FrameOod(f, state, time)
  <2>1. f.ready /\ f.ood => \/ time[n] = NoTime
                            \/ \E u \in Dest(n) : state[u] = "Made" /\ Late(n, u, time)
    BY <1>2, <1>3 DEF FrameInv, FrameOod
  <2>2. f.ready /\ ~f.ood =>
          time[n] # NoTime /\ \A i \in SeenArcs(f) : ~Late(n, ArcOf(f, i), time)
    BY <1>2, <1>3, <1>5, <1>6 DEF FrameInv, FrameOod
  <2> QED
    BY <1>3, <2>1, <2>2 DEF FrameOod
<1> QED
  BY <1>7, <1>8, <1>9 DEF FrameInv

(* A new activation. *)
LEMMA CalledFrame ==
  ASSUME NEW n \in Node, n \in hnodes,
         n \in IsVirtual /\ RecipeArcs(n) # {} => state[n] = "NotMade"
  PROVE  Call(n) \in Frame /\ FrameInv(Call(n), state, time, hnodes)
<1>1. PICK f : f = Call(n)
  OBVIOUS
<1>2. f \in Frame /\ f.node = n /\ f.at = "enter" /\ f.arc = 1 /\ f.ready /\ ~f.ood
  BY <1>1 DEF Call, Frame
<1>3. SeenArcs(f) = {}
  BY <1>2 DEF SeenArcs
<1>4. Len(Arcs[n]) \in Nat
  BY ArcType
<1> QED
  BY <1>1, <1>2, <1>3, <1>4 DEF FrameInv, FrameShape, FrameReady, FrameOod

LEMMA MovesKeepStack ==
  ASSUME TypeOK, PlainMkfile, KnownInv, ClockInv, MadeInv, StackInv,
         WorkNode \/ WorkRecurse \/ WorkReturned \/ WorkNoDest
  PROVE  StackInv'
<1>1. stack # <<>> /\ UNCHANGED graphVars
  BY DEF WorkNode, WorkRecurse, WorkReturned, WorkNoDest, AtArc, Working
<1>2. /\ Top \in Frame /\ Top.node \in Node /\ Top.arc \in Nat \ {0}
      /\ FrameInv(Top, state, time, hnodes)
      /\ Top.ready \in BOOLEAN /\ Top.ood \in BOOLEAN
  BY <1>1, TopInv, FrameTypes
<1>3. CASE WorkNode
  <2>1. PICK f : f = [Top EXCEPT !.at = "arc"]
    OBVIOUS
  <2>2. /\ f \in Frame /\ f.node = Top.node /\ f.at = "arc" /\ f.arc = Top.arc
        /\ f.ready = Top.ready /\ f.ood = Top.ood
    BY <1>2, <2>1 DEF Frame
  <2>3. /\ Top.at = "enter" /\ state[Top.node] # "BeingMade" /\ stack' = SetTop(f)
        /\ Arcs[Top.node] # <<>>
    BY <1>3, <2>1 DEF WorkNode, Working
  <2>4. Top.arc = 1 /\ Top.ready /\ ~Top.ood
    BY <1>2, <2>3 DEF FrameInv, FrameShape
  <2>5. SeenArcs(f) = {}
    BY <2>2, <2>4 DEF SeenArcs
  <2>6. FrameInv(f, state, time, hnodes)
    BY <1>2, <2>2, <2>3, <2>4, <2>5 DEF FrameInv, FrameShape, FrameReady, FrameOod
  <2> QED
    BY <1>1, <2>2, <2>3, <2>6, SetTopStack
<1>4. CASE WorkRecurse
  <2>1. PICK f : f = [Top EXCEPT !.at = "back"]
    OBVIOUS
  <2>2. /\ f \in Frame /\ f.node = Top.node /\ f.at = "back" /\ f.arc = Top.arc
        /\ f.ready = Top.ready /\ f.ood = Top.ood
    BY <1>2, <2>1 DEF Frame
  <2>3. /\ Top.at = "arc" /\ Top.arc <= Len(Arcs[Top.node])
        /\ TopArc.dest = ArcOf(f, f.arc) /\ ArcOf(f, f.arc) # NoNode
        /\ stack' = Append(SetTop(f), Call(ArcOf(f, f.arc)))
    BY <1>4, <2>1, <2>2 DEF WorkRecurse, AtArc, Working, TopArc, ArcOf
  <2>4. \A i : ArcOf(f, i) = ArcOf(Top, i)
    BY <2>2 DEF ArcOf
  <2>5. SeenArcs(f) = SeenArcs(Top)
    BY <2>2, <2>4 DEF SeenArcs
  <2>6. FrameInv(f, state, time, hnodes)
    <3>1. FrameShape(f, state, hnodes)
      BY <1>2, <2>2, <2>3 DEF FrameInv, FrameShape
    <3>2. FrameReady(f, state) /\ FrameOod(f, state, time)
      BY <1>2, <2>2, <2>4, <2>5 DEF FrameInv, FrameReady, FrameOod
    <3> QED
      BY <3>1, <3>2 DEF FrameInv
  <2>7. PICK m : m = ArcOf(f, f.arc)
    OBVIOUS
  <2>8. m \in Dest(Top.node) /\ m \in Node /\ m \in hnodes
    <3>1. f.arc \in 1..Len(Arcs[Top.node])
      BY <1>2, <2>2, <2>3, ArcType
    <3>2. m \in Dest(Top.node)
      BY <1>2, <2>2, <2>3, <2>7, <3>1, DestType DEF ArcOf
    <3>3. Top.node \in hnodes
      BY <1>2 DEF FrameInv, FrameShape
    <3> QED
      BY <1>2, <3>2, <3>3, DestType, KnownClosed DEF Closed
  <2>9. m \in IsVirtual => RecipeArcs(m) = {}
    BY <1>2, <2>8, OneRecipe
  <2>10. /\ Call(m) \in Frame /\ FrameInv(Call(m), state, time, hnodes)
         /\ Call(m).at # "back" /\ Call(m).node = m
    BY <2>8, <2>9, CalledFrame DEF Call
  <2> HIDE DEF StackInv
  <2> QED
    BY <1>1, <2>2, <2>3, <2>6, <2>7, <2>8, <2>10, PushStack
<1>5. CASE WorkReturned
  <2>1. PICK m : m = ArcOf(Top, Top.arc)
    OBVIOUS
  <2>2. m = TopArc.dest
    BY <2>1 DEF ArcOf, TopArc
  <2>3. PICK r \in BOOLEAN : r <=> Top.ready /\ state[m] = "Made"
    OBVIOUS
  <2>4. PICK o \in BOOLEAN : o <=> Top.ood \/ OutOfDate(Top.node, m)
    OBVIOUS
  <2>5. /\ r = (Top.ready /\ state[m] = "Made")
        /\ o = (Top.ood \/ OutOfDate(Top.node, m))
    BY <1>2, <2>3, <2>4 DEF OutOfDate
  <2>6. PICK f : f = [Top EXCEPT !.at = "arc", !.arc = Top.arc + 1, !.ready = r, !.ood = o]
    OBVIOUS
  <2>7. /\ f \in Frame /\ f.node = Top.node /\ f.at = "arc" /\ f.arc = Top.arc + 1
        /\ f.ready = r /\ f.ood = o
    <3>1. PICK k \in Nat \ {0} : k = Top.arc + 1
      BY <1>2
    <3>2. f = [Top EXCEPT !.at = "arc", !.arc = k, !.ready = r, !.ood = o]
      BY <2>6, <3>1
    <3>3. f \in Frame
      BY <1>2, <3>2, FrameUpdate
    <3>4. f.node = Top.node /\ f.at = "arc" /\ f.arc = k /\ f.ready = r /\ f.ood = o
      BY <1>2, <3>2 DEF Frame
    <3> QED
      BY <3>1, <3>3, <3>4
  <2>8. Top.at = "back" /\ stack' = SetTop(f)
    BY <1>5, <2>2, <2>5, <2>6 DEF WorkReturned, Working
  <2>9. FrameInv(f, state, time, hnodes)
    BY <1>1, <2>1, <2>3, <2>4, <2>7, <2>8, ReturnedFrame
  <2> QED
    BY <1>1, <2>7, <2>8, <2>9, SetTopStack
<1>6. CASE WorkNoDest
  <2>1. PICK o \in BOOLEAN : o <=> Top.ood \/ time[Top.node] = NoTime
    OBVIOUS
  <2>2. o = (Top.ood \/ time[Top.node] = NoTime)
    BY <1>2, <2>1
  <2>3. PICK f : f = [Top EXCEPT !.arc = Top.arc + 1, !.ood = o]
    OBVIOUS
  <2>4. Top.at = "arc" /\ stack' = SetTop(f)
    BY <1>6, <2>2, <2>3 DEF WorkNoDest, AtArc, Working
  <2>5. /\ f \in Frame /\ f.node = Top.node /\ f.at = "arc" /\ f.arc = Top.arc + 1
        /\ f.ready = Top.ready /\ f.ood = o
    <3>1. PICK k \in Nat \ {0} : k = Top.arc + 1
      BY <1>2
    <3>2. f = [Top EXCEPT !.arc = k, !.ood = o]
      BY <2>3, <3>1
    <3>3. f \in Frame
      BY <1>2, <3>2, FrameUpdate
    <3>4. /\ f.node = Top.node /\ f.at = Top.at /\ f.arc = k
          /\ f.ready = Top.ready /\ f.ood = o
      BY <1>2, <3>2 DEF Frame
    <3> QED
      BY <2>4, <3>1, <3>3, <3>4
  <2>6. Top.arc <= Len(Arcs[Top.node]) /\ ArcOf(Top, Top.arc) = NoNode
    BY <1>6 DEF WorkNoDest, AtArc, TopArc, ArcOf
  <2>7. FrameInv(f, state, time, hnodes)
    BY <1>1, <2>1, <2>4, <2>5, <2>6, NoDestFrame
  <2> QED
    BY <1>1, <2>4, <2>5, <2>7, SetTopStack
<1> QED
  BY <1>3, <1>4, <1>5, <1>6

(* What an activation that has seen all its arcs knows of its node. *)
LEMMA AllSeen ==
  ASSUME TypeOK, StackInv, AllArcsSeen
  PROVE  /\ stack # <<>> /\ Top \in Frame /\ Top.node \in Node /\ Top.node \in hnodes
         /\ state[Top.node] # "BeingMade" /\ time[Top.node] \in Nat
         /\ Top.node \in IsVirtual /\ RecipeArcs(Top.node) # {} => state[Top.node] = "NotMade"
         /\ state[Top.node] = "Made" => Top.ready /\ (Top.node \notin IsVirtual => ~Top.ood)
         /\ Top.ready => \A m \in Dest(Top.node) : state[m] = "Made"
         /\ Top.ready /\ Top.ood =>
              \/ time[Top.node] = NoTime
              \/ \E m \in Dest(Top.node) : state[m] = "Made" /\ Late(Top.node, m, time)
         /\ Top.ready /\ ~Top.ood =>
              /\ time[Top.node] # NoTime
              /\ \A m \in Dest(Top.node) : ~Late(Top.node, m, time)
<1>1. stack # <<>> /\ Top.at = "arc" /\ Top.arc > Len(Arcs[Top.node])
  BY DEF AllArcsSeen, Working
<1>2. PICK t : t = Top
  OBVIOUS
<1>3. PICK n : n = t.node
  OBVIOUS
<1>4. /\ t \in Frame /\ n \in Node /\ t.arc \in Nat \ {0} /\ t.at = "arc"
      /\ FrameInv(t, state, time, hnodes) /\ t.arc > Len(Arcs[n]) /\ Len(Arcs[n]) \in Nat
      /\ time[n] \in Nat
  BY <1>1, <1>2, <1>3, TopInv, ArcType DEF TypeOK
<1>5. ASSUME NEW m \in Dest(n) PROVE \E i \in SeenArcs(t) : ArcOf(t, i) = m
  <2>1. PICK i \in 1..Len(Arcs[n]) : Arcs[n][i].dest = m
    BY <1>4, DestType
  <2>2. i \in 1..(t.arc - 1) /\ m # NoNode
    BY <1>4 DEF Dest
  <2> QED
    BY <1>3, <2>1, <2>2 DEF SeenArcs, ArcOf
<1>6. t.ready => \A m \in Dest(n) : state[m] = "Made"
  BY <1>4, <1>5 DEF FrameInv, FrameReady
<1>7. t.ready /\ ~t.ood => \A m \in Dest(n) : ~Late(n, m, time)
  BY <1>3, <1>4, <1>5 DEF FrameInv, FrameOod
<1>8. ASSUME t.ready, ~t.ood PROVE time[n] # NoTime
  <2>1. Arcs[n] \in Seq([dest : Node \cup {NoNode}, rule : Rule]) /\ Arcs[n] # <<>>
    BY <1>3, <1>4, ConstantTypes DEF FrameInv, FrameShape
  <2>2. Len(Arcs[n]) # 0
    BY <2>1, EmptySeq
  <2>3. t.arc > 1
    BY <1>4, <2>2
  <2> QED
    BY <1>3, <1>4, <1>8, <2>3 DEF FrameInv, FrameOod
<1>9. /\ n \in hnodes /\ state[n] # "BeingMade"
      /\ n \in IsVirtual /\ RecipeArcs(n) # {} => state[n] = "NotMade"
  BY <1>3, <1>4 DEF FrameInv, FrameShape
<1>10. state[n] = "Made" => t.ready /\ (n \notin IsVirtual => ~t.ood)
  BY <1>3, <1>4 DEF FrameInv, FrameReady
<1>11. t.ready /\ t.ood => \/ time[n] = NoTime
                           \/ \E m \in Dest(n) : state[m] = "Made" /\ Late(n, m, time)
  BY <1>3, <1>4 DEF FrameInv, FrameOod
<1> QED
  BY <1>1, <1>2, <1>3, <1>4, <1>6, <1>7, <1>8, <1>9, <1>10, <1>11

(***************************************************************************)
(* Jobs and the steps that do not concern them.                            *)
(***************************************************************************)

(* A job notices only changes to its targets and to what they are made from. *)
LEMMA KidKept ==
  ASSUME NEW job, NEW stat, NEW st, NEW st2, NEW hn, NEW mt, NEW mt2, NEW tm, NEW tm2,
         NEW cl \in Nat, NEW cl2 \in Nat, cl <= cl2,
         KidInv(job, stat, st, hn, mt, tm, cl),
         \A n \in job.nodes : st2[n] = st[n],
         \A n \in job.nodes \ IsVirtual : tm2[n] = tm[n],
         \A n \in job.nodes : \A m \in Dest(n) \ IsVirtual : tm2[m] = tm[m],
         \A n \in Range(AllTargets[job.rule]) \ IsVirtual : mt2[n] = mt[n]
  PROVE  KidInv(job, stat, st2, hn, mt2, tm2, cl2)
<1>1. /\ GoodJob(job, st, hn)
      /\ stat = "alive" => Fresh(job, mt, tm)
      /\ Written(job, mt, tm, cl)
      /\ stat = "exit0" /\ job.rule \notin MayNotWrite => AllWritten(job, mt)
  BY DEF KidInv
<1>2. \A n \in job.nodes \ IsVirtual : mt2[n] = mt[n]
  BY <1>1 DEF GoodJob
<1>3. GoodJob(job, st2, hn)
  BY <1>1 DEF GoodJob
<1>4. stat = "alive" => Fresh(job, mt2, tm2)
  BY <1>1, <1>2 DEF Fresh
<1>5. Written(job, mt2, tm2, cl2)
  <2>1. PICK c \in Nat : c <= cl /\ WrittenAt(job, mt, tm, c)
    BY <1>1 DEF Written
  <2>2. WrittenAt(job, mt2, tm2, c)
    BY <1>2, <2>1 DEF WrittenAt
  <2>3. c <= cl2
    BY <2>1
  <2> QED
    BY <2>2, <2>3 DEF Written
<1>6. stat = "exit0" /\ job.rule \notin MayNotWrite => AllWritten(job, mt2)
  BY <1>1 DEF AllWritten
<1> QED
  BY <1>3, <1>4, <1>5, <1>6 DEF KidInv

LEMMA QueuedKept ==
  ASSUME NEW job, NEW st, NEW st2, NEW hn, NEW mt, NEW mt2, NEW tm, NEW tm2,
         GoodJob(job, st, hn), Fresh(job, mt, tm),
         \A n \in job.nodes : st2[n] = st[n],
         \A n \in job.nodes \ IsVirtual : tm2[n] = tm[n] /\ mt2[n] = mt[n]
  PROVE  GoodJob(job, st2, hn) /\ Fresh(job, mt2, tm2)
  BY DEF GoodJob, Fresh

(* The jobs that are queued or running are jobs. *)
LEMMA JobTypes ==
  ASSUME TypeOK, JobsInv
  PROVE  /\ Len(jobs) \in Nat
         /\ \A i \in 1..Len(jobs) : /\ jobs[i] \in Job
                                    /\ GoodJob(jobs[i], state, hnodes)
                                    /\ jobs[i].nodes \subseteq Node
         /\ \A p \in kids : /\ GoodJob(running[p], state, hnodes)
                            /\ running[p].nodes \subseteq Node
<1>1. jobs \in Seq(Job) /\ hnodes \subseteq Node
  BY DEF TypeOK
<1>2. \A i \in 1..Len(jobs) : jobs[i] \in Job
  BY <1>1, ElementOfSeq
<1> QED
  BY <1>1, <1>2, LenProperties DEF JobsInv, QueueInv, KidInv, GoodJob

(***************************************************************************)
(* Nodes become made without a recipe having run: sources, nodes found up  *)
(* to date, and in dry mode the targets of a recipe.                       *)
(***************************************************************************)
Marked(S) ==
  /\ S \subseteq hnodes
  /\ \A n \in S : state[n] # "BeingMade" /\ \A m \in Dest(n) : state[m] = "Made"
  /\ state' = MarkNodes(state, S, "Made")
  /\ time' \in [Node -> Nat]
  /\ \A n \in Node \ S : time'[n] = time[n]
  /\ \A n \in Node : time'[n] <= clock
  /\ \A n \in IsVirtual : RecipeArcs(n) = {} => time'[n] <= VirtualTime
  /\ \A n \in S \ IsVirtual :
       /\ time'[n] # NoTime /\ \A m \in Dest(n) : ~Late(n, m, time')
       /\ time'[n] = time[n] \/ (dry_mode /\ state[n] = "NotMade")
       /\ \A m \in Twins(n) : m \in hnodes => time'[m] = time'[n]
  /\ UNCHANGED <<pc, hnodes, g, optVars, diskVars>>

LEMMA MarkedStates ==
  ASSUME TypeOK, NEW S, Marked(S)
  PROVE  /\ \A n \in S : n \in Node /\ state'[n] = "Made"
         /\ \A n \in Node \ S : state'[n] = state[n] /\ time'[n] = time[n]
         /\ \A n \in Node : state'[n] = "BeingMade" <=> state[n] = "BeingMade"
         /\ KeepsMade(state, state', time, time')
<1>1. S \subseteq Node /\ state' = [n \in Node |-> IF n \in S THEN "Made" ELSE state[n]]
  BY DEF TypeOK, Marked, MarkNodes
<1>2. \A n \in S : n \in Node /\ state'[n] = "Made" /\ state[n] # "BeingMade"
  BY <1>1 DEF Marked
<1>3. \A n \in Node \ S : state'[n] = state[n] /\ time'[n] = time[n]
  BY <1>1 DEF Marked
<1>4. \A n \in Node : state'[n] = "BeingMade" <=> state[n] = "BeingMade"
  BY <1>2, <1>3
<1>5. ASSUME NEW n \in Node, state[n] = "Made"
      PROVE state'[n] = "Made" /\ (n \notin IsVirtual => time'[n] = time[n])
  BY <1>2, <1>3, <1>5 DEF Marked
<1> QED
  BY <1>2, <1>3, <1>4, <1>5 DEF KeepsMade

LEMMA MarkedData ==
  ASSUME TypeOK, PlainMkfile, DataInv, NEW S, Marked(S), UNCHANGED schedVars
  PROVE  DataInv'
<1>1. /\ \A n \in S : n \in Node /\ state'[n] = "Made"
      /\ \A n \in Node \ S : state'[n] = state[n] /\ time'[n] = time[n]
      /\ \A n \in Node : state'[n] = "BeingMade" <=> state[n] = "BeingMade"
      /\ KeepsMade(state, state', time, time')
  BY MarkedStates
<1>2. UNCHANGED <<pc, hnodes, g, goals, dry_mode, nproclimit, mtime, clock>>
  BY DEF Marked, optVars, diskVars
<1>3. UNCHANGED <<jobs, running, kids, status>>
  BY DEF schedVars
<1>4. KnownInv'
  <2>1. \A n \in Node \ hnodes : state'[n] = "NotMade"
    BY <1>1 DEF DataInv, KnownInv, Marked
  <2> QED
    BY <1>2, <2>1 DEF DataInv, KnownInv
<1>5. ClockInv'
  BY <1>2 DEF DataInv, ClockInv, Marked
<1>6. MadeInv'
  <2> SUFFICES ASSUME NEW n \in Node, state'[n] = "Made"
               PROVE  /\ \A m \in Dest(n) : state'[m] = "Made"
                      /\ n \notin IsVirtual => /\ time'[n] # NoTime
                                               /\ \A m \in Dest(n) : ~Late(n, m, time')
    BY DEF MadeInv
  <2>1. \A m \in Dest(n) : m \in Node /\ state[m] = "Made"
    BY <1>1, DestType DEF DataInv, MadeInv, Marked
  <2>2. \A m \in Dest(n) : state'[m] = "Made" /\ (m \notin IsVirtual => time'[m] = time[m])
    BY <1>1, <2>1 DEF KeepsMade
  <2>3. CASE n \in S
    BY <2>2, <2>3 DEF Marked
  <2>4. CASE n \notin S
    <3>1. state[n] = "Made" /\ time'[n] = time[n]
      BY <1>1, <2>4
    <3> QED
      BY <2>2, <3>1 DEF DataInv, MadeInv, Late
  <2> QED
    BY <2>3, <2>4
<1>7. BeingMadeInv'
  <2> SUFFICES ASSUME NEW n \in Node, state'[n] = "BeingMade"
               PROVE  /\ ~dry_mode' /\ RecipeArcs(n) # {}
                      /\ MasterRule(n) \in ActiveRules(jobs', running', kids')
                      /\ \A m \in Dest(n) : state'[m] = "Made"
    BY DEF BeingMadeInv
  <2>1. state[n] = "BeingMade"
    BY <1>1
  <2>2. \A m \in Dest(n) : m \in Node /\ state[m] = "Made"
    BY <2>1, DestType DEF DataInv, BeingMadeInv
  <2> QED
    BY <1>1, <1>2, <1>3, <2>1, <2>2 DEF DataInv, BeingMadeInv, KeepsMade
<1>8. SeenInv'
  <2> SUFFICES ASSUME ~dry_mode, NEW n \in hnodes \ IsVirtual, state'[n] # "BeingMade"
               PROVE  time'[n] = mtime[n]
    BY <1>2 DEF SeenInv
  <2>1. n \in Node /\ state[n] # "BeingMade"
    BY <1>1 DEF TypeOK
  <2>2. time'[n] = time[n]
    BY <1>1, <2>1 DEF Marked
  <2> QED
    BY <2>1, <2>2 DEF DataInv, SeenInv
<1>9. TwinsInv'
  <2> SUFFICES ASSUME NEW n \in Node \ IsVirtual
               PROVE /\ \A m \in Twins(n) : n \in hnodes /\ m \in hnodes => time'[m] = time'[n]
                     /\ \/ Twins(n) \cap hnodes = {}
                        \/ ~Together(n) /\ \A m \in Twins(n) : state'[m] # "BeingMade"
                        => \A m \in Twins(n) : mtime[m] = mtime[n]
    BY <1>2 DEF TwinsInv, Together
  <2>1. \A m \in Twins(n) : /\ m \in Node \ IsVirtual /\ n \in Twins(m)
                            /\ state'[m] = "BeingMade" <=> state[m] = "BeingMade"
    BY <1>1, TwinsAlike
  <2>2. ASSUME NEW m \in Twins(n), n \in hnodes, m \in hnodes PROVE time'[m] = time'[n]
    <3>1. CASE n \in S
      BY <2>2, <3>1 DEF Marked
    <3>2. CASE m \in S
      BY <2>1, <2>2, <3>2 DEF Marked
    <3>3. CASE n \notin S /\ m \notin S
      BY <1>1, <2>1, <2>2, <3>3 DEF DataInv, TwinsInv
    <3> QED
      BY <3>1, <3>2, <3>3
  <2> QED
    BY <2>1, <2>2 DEF DataInv, TwinsInv
<1>10. JobsInv'
  <2>1. /\ Len(jobs) \in Nat
        /\ \A i \in 1..Len(jobs) : GoodJob(jobs[i], state, hnodes) /\ jobs[i].nodes \subseteq Node
        /\ \A p \in kids : GoodJob(running[p], state, hnodes) /\ running[p].nodes \subseteq Node
    BY JobTypes DEF DataInv
  <2>2. ASSUME NEW job, GoodJob(job, state, hnodes), job.nodes \subseteq Node, NEW n \in job.nodes
        PROVE  /\ state'[n] = state[n] /\ time'[n] = time[n]
               /\ \A m \in Dest(n) \ IsVirtual : time'[m] = time[m]
    <3>1. n \in Node /\ state[n] = "BeingMade"
      BY <2>2 DEF GoodJob
    <3>2. n \notin S
      BY <3>1 DEF Marked
    <3>3. \A m \in Dest(n) : m \in Node /\ state[m] = "Made"
      BY <3>1, DestType DEF DataInv, BeingMadeInv
    <3> QED
      BY <1>1, <3>1, <3>2, <3>3 DEF KeepsMade
  <2>3. ASSUME NEW i \in 1..Len(jobs)
        PROVE  GoodJob(jobs[i], state', hnodes) /\ Fresh(jobs[i], mtime, time')
    <3>1. GoodJob(jobs[i], state, hnodes) /\ Fresh(jobs[i], mtime, time)
      BY DEF DataInv, JobsInv, QueueInv
    <3>2. \A n \in jobs[i].nodes : state'[n] = state[n] /\ time'[n] = time[n]
      BY <2>1, <2>2
    <3> QED
      BY <3>1, <3>2, QueuedKept
  <2>4. ASSUME NEW p \in kids
        PROVE  KidInv(running[p], status[p], state', hnodes, mtime, time', clock)
    <3>1. KidInv(running[p], status[p], state, hnodes, mtime, time, clock)
      BY DEF DataInv, JobsInv
    <3>2. \A n \in running[p].nodes : /\ state'[n] = state[n] /\ time'[n] = time[n]
                                      /\ \A m \in Dest(n) \ IsVirtual : time'[m] = time[m]
      BY <2>1, <2>2
    <3>3. clock \in Nat /\ clock <= clock
      BY DEF TypeOK
    <3> QED
      BY <3>1, <3>2, <3>3, KidKept
  <2> QED
    BY <1>2, <1>3, <2>3, <2>4 DEF DataInv, JobsInv, QueueInv
<1> QED
  BY <1>4, <1>5, <1>6, <1>7, <1>8, <1>9, <1>10 DEF DataInv

(* Outer activations do not notice what happens to the targets of the      *)
(* recipe of the innermost one.                                            *)
LEMMA ReturnKeepsStack ==
  ASSUME TypeOK, PlainMkfile, StackInv, stack # <<>>, stack' = Pop, hnodes' = hnodes,
         NEW S, S \subseteq Twins(Top.node) \cup {Top.node},
         \A n \in Node \ S : state'[n] = state[n] /\ time'[n] = time[n],
         KeepsMade(state, state', time, time'),
         state'[Top.node] = "Made" => time'[Top.node] # NoTime
  PROVE  StackInv'
<1>1. ASSUME NEW i \in 1..(Len(stack) - 1)
      PROVE  /\ state'[stack[i].node] = state[stack[i].node]
             /\ time'[stack[i].node] = time[stack[i].node]
  <2>1. Len(stack) \in Nat \ {0}
    BY PopIs DEF TypeOK
  <2>2. stack[i] \in Frame
    BY <2>1, ElementOfSeq DEF TypeOK
  <2>3. stack[i].node \in Node /\ stack[i].node \notin S
    BY <2>2, FrameTypes, OuterNodes
  <2> QED
    BY <2>3
<1> QED
  BY <1>1, PopStack

LEMMA ReturnsKeepStack ==
  ASSUME TypeOK, PlainMkfile, StackInv, WorkBeingMade \/ WorkNotReady
  PROVE  StackInv'
<1>1. /\ stack # <<>> /\ stack' = Pop /\ UNCHANGED <<hnodes, state, time>>
  BY DEF WorkBeingMade, WorkNotReady, AllArcsSeen, Working, graphVars
<1>2. KeepsMade(state, state', time, time')
  BY <1>1 DEF KeepsMade
<1>3. state'[Top.node] # "Made"
  <2>1. CASE WorkBeingMade
    BY <1>1, <2>1 DEF WorkBeingMade
  <2>2. CASE WorkNotReady
    BY <1>1, <2>2, AllSeen DEF WorkNotReady
  <2> QED
    BY <2>1, <2>2
<1>4. {} \subseteq Twins(Top.node) \cup {Top.node}
  OBVIOUS
<1>5. \A n \in Node \ {} : state'[n] = state[n] /\ time'[n] = time[n]
  BY <1>1
<1> QED
  BY <1>1, <1>2, <1>3, <1>4, <1>5, ReturnKeepsStack

(* A source, a node found up to date, or a virtual node without recipe. *)
Accepting == \/ WorkLeaf /\ pc' # "fail"
             \/ WorkUpToDate
             \/ DorecipeVirtual

LEMMA AcceptMarks ==
  ASSUME TypeOK, PlainMkfile, DataInv, StackInv, Accepting
  PROVE  /\ stack # <<>> /\ stack' = Pop /\ Marked({Top.node}) /\ UNCHANGED schedVars
         /\ time'[Top.node] # NoTime /\ UNCHANGED loopVars
<1>1. /\ stack # <<>> /\ stack' = Pop /\ UNCHANGED schedVars
      /\ UNCHANGED <<pc, hnodes, g, optVars, diskVars>> /\ UNCHANGED loopVars
      /\ state' = [state EXCEPT ![Top.node] = "Made"]
  BY DEF Accepting, WorkLeaf, WorkUpToDate, DorecipeVirtual, NeedsRecipe, AllArcsSeen, Working,
         loopVars
<1>2. PICK n : n = Top.node
  OBVIOUS
<1>3. n \in Node /\ n \in hnodes
  BY <1>1, <1>2, TopInv DEF FrameInv, FrameShape
<1>4. state' = MarkNodes(state, {n}, "Made")
  BY <1>1, <1>2 DEF MarkNodes, TypeOK
<1>5. /\ clock \in Nat \ {0} /\ time \in [Node -> Nat]
      /\ \A k \in Node : time[k] <= clock
      /\ \A k \in IsVirtual : RecipeArcs(k) = {} => time[k] <= VirtualTime
  BY DEF TypeOK, DataInv, ClockInv
<1>6. CASE (WorkLeaf /\ pc' # "fail") \/ WorkUpToDate
  <2>1. time' = time
    BY <1>6 DEF WorkLeaf, WorkUpToDate
  <2>2. /\ state[n] # "BeingMade" /\ time[n] # NoTime
        /\ \A m \in Dest(n) : state[m] = "Made" /\ ~Late(n, m, time)
    <3>1. CASE WorkLeaf /\ pc' # "fail"
      <4>1. state[n] # "BeingMade" /\ time[n] # NoTime /\ Arcs[n] = <<>>
        BY <1>2, <3>1 DEF WorkLeaf
      <4>2. Dest(n) = {}
        BY <1>3, <4>1, DestType, EmptySeq
      <4> QED
        BY <4>1, <4>2
    <3>2. CASE WorkUpToDate
      BY <1>2, <3>2, AllSeen DEF WorkUpToDate
    <3> QED
      BY <1>6, <3>1, <3>2
  <2>3. n \notin IsVirtual => \A m \in Twins(n) : m \in hnodes => time'[m] = time'[n]
    BY <1>3, <2>1 DEF DataInv, TwinsInv
  <2>4. Marked({n})
    BY <1>1, <1>3, <1>4, <1>5, <2>1, <2>2, <2>3 DEF Marked
  <2> QED
    BY <1>1, <1>2, <2>1, <2>2, <2>4
<1>7. CASE DorecipeVirtual
  <2>1. /\ time' = [time EXCEPT ![n] = VirtualTime] /\ n \in IsVirtual
        /\ AllArcsSeen /\ Top.ready
    BY <1>2, <1>7 DEF DorecipeVirtual, NeedsRecipe
  <2>2. /\ time' \in [Node -> Nat] /\ time'[n] = VirtualTime
        /\ \A k \in Node \ {n} : time'[k] = time[k]
    BY <1>3, <1>5, <2>1 DEF VirtualTime
  <2>3. VirtualTime # NoTime /\ VirtualTime <= clock /\ VirtualTime <= VirtualTime
    BY <1>5 DEF VirtualTime, NoTime
  <2>4. state[n] # "BeingMade" /\ \A m \in Dest(n) : state[m] = "Made"
    BY <1>2, <2>1, AllSeen
  <2>5. \A k \in Node : time'[k] <= clock
    BY <1>5, <2>2, <2>3
  <2>6. \A k \in IsVirtual : RecipeArcs(k) = {} => time'[k] <= VirtualTime
    BY <1>5, <2>2, <2>3, ConstantTypes
  <2>7. Marked({n})
    BY <1>1, <1>3, <1>4, <2>1, <2>2, <2>4, <2>5, <2>6 DEF Marked
  <2> QED
    BY <1>1, <1>2, <2>2, <2>3, <2>7
<1> QED
  BY <1>6, <1>7 DEF Accepting

LEMMA AcceptKeeps ==
  ASSUME TypeOK, PlainMkfile, DataInv, StackInv, Accepting
  PROVE  DataInv' /\ StackInv'
<1>1. /\ stack # <<>> /\ stack' = Pop /\ Marked({Top.node}) /\ UNCHANGED schedVars
      /\ time'[Top.node] # NoTime
  BY AcceptMarks
<1>2. /\ \A n \in Node \ {Top.node} : state'[n] = state[n] /\ time'[n] = time[n]
      /\ KeepsMade(state, state', time, time')
  BY <1>1, MarkedStates
<1>3. hnodes' = hnodes /\ {Top.node} \subseteq Twins(Top.node) \cup {Top.node}
  BY <1>1 DEF Marked
<1> QED
  BY <1>1, <1>2, <1>3, MarkedData, ReturnKeepsStack

(***************************************************************************)
(* dorecipe: the targets of the recipe are all there to be made.           *)
(***************************************************************************)

(* A virtual target with a recipe is made alone. *)
LEMMA VirtualAlone ==
  ASSUME TypeOK, PlainMkfile, PlainGoals, KnownInv,
         NEW n \in hnodes, n \in IsVirtual, RecipeArcs(n) # {}, NEW k \in Twins(n), k \in hnodes
  PROVE  k = n
<1>1. n \in Node /\ k \in Node /\ n \in Twins(n)
  BY TwinsAlike DEF TypeOK
<1>2. RecipeArcs(k) # {} /\ k \in IsVirtual
  BY <1>1, TwinsAlike
<1>3. Together(n)
  BY <1>1 DEF PlainGoals
<1>4. /\ \A i \in 1..Len(goals) : goals[i] \in Node
      /\ Len(goals) \in Nat /\ g \in 1..Len(goals)
  BY KnownClosed
<1>5. PICK l \in 0..Len(goals) : hnodes = UNION {Reach[goals[i]] : i \in 1..l}
  <2>1. PICK l : l = IF pc = "graph" THEN g - 1 ELSE g
    OBVIOUS
  <2>2. l \in 0..Len(goals)
    BY <1>4, <2>1
  <2> QED
    BY <2>1, <2>2 DEF KnownInv
<1>6. PICK i \in 1..l : n \in Reach[goals[i]]
  BY <1>5
<1>7. PICK j \in 1..l : k \in Reach[goals[j]]
  BY <1>5
<1>8. i \in 1..Len(goals) /\ j \in 1..Len(goals)
  BY <1>4, <1>5
<1>9. DOMAIN goals = 1..Len(goals)
  BY ConstantTypes, LenProperties DEF TypeOK
<1>10. k \in Reach[goals[i]]
  BY <1>1, <1>3, <1>6, <1>7, <1>8, <1>9 DEF Together
<1>11. /\ \A m \in Node : n \notin Dest(m)
       /\ \A m \in Node : k \notin Dest(m)
  BY <1>1, <1>2, OneRecipe
<1>12. n = goals[i] /\ k = goals[i]
  BY <1>1, <1>4, <1>6, <1>8, <1>10, <1>11, ReachedFromItself
<1> QED
  BY <1>12

(* The targets of a rule whose recipe is queued or running are being made. *)
LEMMA ActiveGood ==
  ASSUME TypeOK, JobsInv, NEW r \in ActiveRules(jobs, running, kids),
         NEW k \in Range(AllTargets[r]), k \in hnodes
  PROVE  state[k] = "BeingMade"
<1>1. CASE \E i \in 1..Len(jobs) : jobs[i].rule = r
  <2>1. PICK i \in 1..Len(jobs) : jobs[i].rule = r
    BY <1>1
  <2>2. GoodJob(jobs[i], state, hnodes)
    BY DEF JobsInv, QueueInv
  <2> QED
    BY <2>1, <2>2 DEF GoodJob
<1>2. CASE \E p \in kids : running[p].rule = r
  <2>1. PICK p \in kids : running[p].rule = r
    BY <1>2
  <2>2. GoodJob(running[p], state, hnodes)
    BY DEF JobsInv, KidInv
  <2> QED
    BY <2>1, <2>2 DEF GoodJob
<1> QED
  BY <1>1, <1>2 DEF ActiveRules

LEMMA RecipeTargets ==
  ASSUME TypeOK, PlainMkfile, PlainGoals, DataInv, StackInv, NeedsRecipe,
         NEW n, n = Top.node, RecipeArcs(n) # {}, NEW S, S = JobFor(n).nodes
  PROVE  /\ stack # <<>> /\ n \in S /\ S \subseteq hnodes /\ S \subseteq Twins(n) /\ n \in Node
         /\ MasterRule(n) \in Rule /\ S = Range(AllTargets[MasterRule(n)]) \cap hnodes
         /\ \A k \in S : /\ state[k] = "NotMade" /\ RecipeArcs(k) # {}
                         /\ MasterRule(k) = MasterRule(n)
                         /\ \A m \in Dest(k) : state[m] = "Made"
         /\ MasterRule(n) \notin ActiveRules(jobs, running, kids)
<1>1. AllArcsSeen /\ Top.ready /\ Top.ood
  BY DEF NeedsRecipe
<1>2. /\ stack # <<>> /\ n \in Node /\ n \in hnodes /\ state[n] # "BeingMade"
      /\ n \in IsVirtual => state[n] = "NotMade"
      /\ \A m \in Dest(n) : state[m] = "Made"
      /\ \/ time[n] = NoTime
         \/ \E m \in Dest(n) : state[m] = "Made" /\ Late(n, m, time)
  BY <1>1, AllSeen
<1>3. /\ MasterRule(n) \in Rule /\ Twins(n) = Range(AllTargets[MasterRule(n)]) /\ n \in Twins(n)
  BY <1>2, OneRecipe
<1>4. S = Twins(n) \cap hnodes /\ n \in S
  BY <1>2, <1>3 DEF JobFor
<1>5. MasterRule(n) \notin ActiveRules(jobs, running, kids)
  BY <1>2, <1>3, ActiveGood DEF DataInv
<1>6. ASSUME NEW k \in S
      PROVE  /\ state[k] = "NotMade" /\ RecipeArcs(k) # {}
             /\ MasterRule(k) = MasterRule(n)
             /\ \A m \in Dest(k) : state[m] = "Made"
  <2>1. /\ k \in Node /\ k \in hnodes /\ k \in Twins(n) /\ Dest(k) = Dest(n)
        /\ RecipeArcs(k) # {} /\ MasterRule(k) = MasterRule(n)
        /\ k \in IsVirtual <=> n \in IsVirtual
    BY <1>2, <1>4, TwinsAlike
  <2>2. state[k] # "BeingMade"
    BY <1>5, <2>1 DEF DataInv, BeingMadeInv
  <2>3. state[k] # "Made"
    <3>1. CASE n \in IsVirtual
      <4>1. k = n
        BY <1>2, <2>1, <3>1, VirtualAlone DEF DataInv
      <4> QED
        BY <1>2, <3>1, <4>1
    <3>2. CASE n \notin IsVirtual
      <4>1. time[k] = time[n]
        BY <1>2, <2>1, <3>2 DEF DataInv, TwinsInv
      <4>2. state[k] = "Made" => time[k] # NoTime /\ \A m \in Dest(k) : ~Late(k, m, time)
        BY <2>1, <3>2 DEF DataInv, MadeInv
      <4> QED
        BY <1>2, <2>1, <4>1, <4>2 DEF Late
    <3> QED
      BY <3>1, <3>2
  <2>4. state[k] \in BuildState
    BY <2>1 DEF TypeOK
  <2> QED
    BY <1>2, <2>1, <2>2, <2>3, <2>4 DEF BuildState
<1> QED
  BY <1>2, <1>3, <1>4, <1>5, <1>6

(* In dry mode the recipe is only printed. *)
LEMMA DryRecipeMarks ==
  ASSUME TopoInv, ~Failed, Dorecipe, dry_mode, NEW S, S = JobFor(Top.node).nodes
  PROVE  /\ Marked(S) /\ UNCHANGED schedVars
         /\ \A n \in S : state[n] = "NotMade" /\ time'[n] = clock
<1> DEFINE job == JobFor(Top.node)
           s == [Globals EXCEPT !.state = MarkNodes(@, job.nodes, "BeingMade")]
           q == Append(jobs, job)
<1>1. TypeOK /\ PlainMkfile /\ PlainGoals /\ DataInv /\ StackInv /\ PoolInv
  BY DEF TopoInv, PoolInv, TypeInv
<1>2. NeedsRecipe /\ RecipeArcs(Top.node) # {} /\ UNCHANGED <<pc, hnodes, diskVars, loopVars>>
  BY DEF Dorecipe
<1>3. /\ Top.node \in S /\ S \subseteq hnodes /\ S \subseteq Twins(Top.node) /\ Top.node \in Node
      /\ S = Range(AllTargets[MasterRule(Top.node)]) \cap hnodes
      /\ \A k \in S : /\ state[k] = "NotMade" /\ RecipeArcs(k) # {}
                      /\ \A m \in Dest(k) : state[m] = "Made"
  BY <1>1, <1>2, RecipeTargets
<1>4. nproclimit \in Nat /\ nproclimit # 0 /\ nrunning = 0 /\ kids = {} /\ jobs = <<>>
  <2>1. nproclimit \in Nat /\ nproclimit # 0
    BY <1>1, ConstantTypes DEF TypeOK, PlainMkfile
  <2>2. nrunning = 0 /\ kids = {}
    BY <1>1, FS_EmptySet DEF PoolInv, PoolAccounting, DryForksNothing
  <2> QED
    BY <1>1, <2>1, <2>2 DEF PoolInv, NoLostJob
<1>5. job \in Job
  BY <1>1, <1>2, <1>3, JobForType DEF TypeOK
<1>6. /\ s \in GlobalsType /\ s.state = MarkNodes(state, S, "BeingMade") /\ s.time = time
      /\ s.running = running /\ s.nrunning = nrunning /\ s.kids = kids
  <2>1. MarkNodes(state, job.nodes, "BeingMade") \in [Node -> BuildState]
    BY <1>1, MarkNodesType DEF TypeOK, BuildState
  <2> QED
    BY <1>1, <2>1 DEF Globals, GlobalsType, TypeOK
<1>7. schedIf(s.nrunning < nproclimit, q, s)
  BY DEF Dorecipe, run
<1> HIDE DEF s
<1>8. sched(q, s)
  BY <1>4, <1>6, <1>7 DEF schedIf
<1>9. Head(q) = job /\ Tail(q) = <<>>
  BY <1>4, <1>5
<1> HIDE DEF q
<1>10. /\ jobs' = <<>>
       /\ state' = MarkNodes(s.state, job.nodes, "Made")
       /\ time' = MarkNodes(s.time, job.nodes, clock)
       /\ running' = s.running /\ nrunning' = s.nrunning /\ kids' = s.kids
       /\ status' = status
  BY <1>6, <1>8, <1>9, SchedEffect
<1>11. UNCHANGED schedVars
  BY <1>4, <1>6, <1>10 DEF schedVars
<1>12. state' = MarkNodes(state, S, "Made")
  BY <1>6, <1>10 DEF MarkNodes
<1>13. time' = MarkNodes(time, S, clock)
  BY <1>6, <1>10
<1>14. /\ clock \in Nat /\ clock # NoTime /\ time \in [Node -> Nat]
       /\ \A k \in Node : time[k] <= clock
       /\ \A k \in IsVirtual : RecipeArcs(k) = {} => time[k] <= VirtualTime
  BY <1>1 DEF TypeOK, DataInv, ClockInv, NoTime
<1>15. time' \in [Node -> Nat]
  BY <1>13, <1>14, MarkNodesType
<1>16. S \subseteq Node /\ IsVirtual \subseteq Node
  BY <1>1, <1>3, ConstantTypes DEF TypeOK
<1>17. /\ \A n \in Node \ S : time'[n] = time[n]
       /\ \A n \in S : time'[n] = clock
  BY <1>13, <1>16 DEF MarkNodes
<1>18. \A n \in Node : time'[n] <= clock
  BY <1>14, <1>17
<1>19. \A n \in IsVirtual : RecipeArcs(n) = {} => time'[n] <= VirtualTime
  BY <1>3, <1>14, <1>16, <1>17
<1>20. ASSUME NEW n \in S
       PROVE  /\ time'[n] # NoTime /\ \A m \in Dest(n) : ~Late(n, m, time')
              /\ \A m \in Twins(n) : m \in hnodes => time'[m] = time'[n]
  <2>1. n \in Node /\ Dest(n) \subseteq Node
    BY <1>16, DestType
  <2>2. \A m \in Dest(n) : ~Late(n, m, time')
    BY <1>14, <1>15, <1>17, <1>18, <2>1 DEF Late
  <2>3. Twins(n) = Twins(Top.node) /\ Twins(Top.node) = Range(AllTargets[MasterRule(Top.node)])
    BY <1>1, <1>2, <1>3, TwinsAlike, OneRecipe
  <2> QED
    BY <1>3, <1>14, <1>17, <2>2, <2>3
<1>21. UNCHANGED <<pc, hnodes, g, optVars, diskVars>>
  BY <1>2 DEF loopVars
<1>22. Marked(S)
  BY <1>3, <1>12, <1>15, <1>17, <1>18, <1>19, <1>20, <1>21 DEF Marked
<1> QED
  BY <1>3, <1>11, <1>17, <1>22

(***************************************************************************)
(* The scheduler: a job keeps its properties from the queue to the child.  *)
(***************************************************************************)
JobSlots(q, run_, ks, stat, st, hn, mt, tm, cl) ==
  /\ Slots(q, run_, ks) /\ QueueInv(q, st, hn, mt, tm)
  /\ \A p \in ks : KidInv(run_[p], stat[p], st, hn, mt, tm, cl)

LEMMA SchedMoves ==
  ASSUME TypeOK, ~dry_mode, NEW q \in Seq(Job), q # <<>>, NEW s \in GlobalsType, sched(q, s),
         NEW hn, NEW mt, NEW cl \in Nat,
         JobSlots(q, s.running, s.kids, status, s.state, hn, mt, s.time, cl)
  PROVE  /\ state' = s.state /\ time' = s.time
         /\ JobSlots(jobs', running', kids', status', state', hn, mt, time', cl)
         /\ ActiveRules(jobs', running', kids') = ActiveRules(q, s.running, s.kids)
<1>1. PICK n : n = Len(q)
  OBVIOUS
<1>2. PICK r : r = s.running
  OBVIOUS
<1>3. PICK ks : ks = s.kids
  OBVIOUS
<1>4. /\ r \in [Pid -> Job \cup {NoJob}] /\ ks \subseteq Pid /\ status \in [Pid -> ExitStatus]
  BY <1>2, <1>3 DEF GlobalsType, TypeOK
<1>5. n \in Nat /\ n # 0 /\ 1 \in 1..n
  BY <1>1, EmptySeq
<1>6. /\ Head(q) = q[1] /\ Len(Tail(q)) = n - 1
      /\ \A i \in 1..(n - 1) : Tail(q)[i] = q[i + 1]
  BY <1>1, <1>5, HeadTailProperties
<1>7. jobs' = Tail(q) /\ state' = s.state /\ time' = s.time
  BY SchedEffect
<1>8. PICK p \in Pid \ ks : /\ running' = [r EXCEPT ![p] = Head(q)] /\ kids' = ks \cup {p}
                            /\ status' = [status EXCEPT ![p] = "alive"]
  BY <1>2, <1>3, SchedEffect
<1>9. /\ running'[p] = q[1] /\ status'[p] = "alive"
      /\ \A u \in ks : running'[u] = r[u] /\ status'[u] = status[u] /\ u # p
  BY <1>4, <1>6, <1>8
<1>10. /\ Len(jobs') = n - 1
       /\ \A i \in 1..(n - 1) : i + 1 \in 1..n /\ i + 1 # 1 /\ jobs'[i] = q[i + 1]
  BY <1>5, <1>6, <1>7
<1>11. /\ Slots(q, r, ks) /\ QueueInv(q, s.state, hn, mt, s.time)
       /\ \A u \in ks : KidInv(r[u], status[u], s.state, hn, mt, s.time, cl)
  BY <1>2, <1>3 DEF JobSlots
<1>12. /\ \A i, j \in 1..n : q[i].rule = q[j].rule => i = j
       /\ \A u, v \in ks : r[u].rule = r[v].rule => u = v
       /\ \A i \in 1..n, u \in ks : q[i].rule # r[u].rule
  BY <1>1, <1>11 DEF Slots
<1>13. Slots(jobs', running', kids')
  <2>1. ASSUME NEW i \in 1..Len(jobs'), NEW j \in 1..Len(jobs'), jobs'[i].rule = jobs'[j].rule
        PROVE  i = j
    <3>1. i \in 1..(n - 1) /\ j \in 1..(n - 1)
      BY <1>10
    <3>2. i + 1 = j + 1
      BY <1>10, <1>12, <2>1, <3>1
    <3> QED
      BY <1>5, <3>1, <3>2
  <2>2. \A u, v \in kids' : running'[u].rule = running'[v].rule => u = v
    BY <1>5, <1>8, <1>9, <1>12
  <2>3. ASSUME NEW i \in 1..Len(jobs'), NEW u \in kids' PROVE jobs'[i].rule # running'[u].rule
    <3>1. i \in 1..(n - 1)
      BY <1>10
    <3> QED
      BY <1>5, <1>8, <1>9, <1>10, <1>12, <3>1
  <2> QED
    BY <2>1, <2>2, <2>3 DEF Slots
<1>14. \A i \in 1..n : GoodJob(q[i], s.state, hn) /\ Fresh(q[i], mt, s.time)
  BY <1>1, <1>11 DEF QueueInv
<1>15. QueueInv(jobs', state', hn, mt, time')
  BY <1>7, <1>10, <1>14 DEF QueueInv
<1>16. ASSUME NEW u \in kids' PROVE KidInv(running'[u], status'[u], state', hn, mt, time', cl)
  <2>1. CASE u \in ks
    BY <1>7, <1>9, <1>11, <2>1
  <2>2. CASE u = p
    <3>1. GoodJob(q[1], s.state, hn) /\ Fresh(q[1], mt, s.time)
      BY <1>5, <1>14
    <3>2. WrittenAt(q[1], mt, s.time, 0)
      BY <3>1 DEF Fresh, WrittenAt
    <3>3. Written(q[1], mt, s.time, cl)
      BY <3>2 DEF Written
    <3> QED
      BY <1>7, <1>9, <2>2, <3>1, <3>3 DEF KidInv
  <2> QED
    BY <1>8, <2>1, <2>2
<1>17. ActiveRules(jobs', running', kids') = ActiveRules(q, r, ks)
  <2>1. ASSUME NEW x \in ActiveRules(jobs', running', kids') PROVE x \in ActiveRules(q, r, ks)
    <3>1. CASE \E i \in 1..Len(jobs') : x = jobs'[i].rule
      BY <1>1, <1>10, <3>1 DEF ActiveRules
    <3>2. CASE \E u \in kids' : x = running'[u].rule
      BY <1>1, <1>5, <1>8, <1>9, <3>2 DEF ActiveRules
    <3> QED
      BY <2>1, <3>1, <3>2 DEF ActiveRules
  <2>2. ASSUME NEW x \in ActiveRules(q, r, ks) PROVE x \in ActiveRules(jobs', running', kids')
    <3>1. ASSUME NEW i \in 1..n, x = q[i].rule PROVE x \in ActiveRules(jobs', running', kids')
      <4>1. CASE i = 1
        BY <1>8, <1>9, <3>1, <4>1 DEF ActiveRules
      <4>2. CASE i # 1
        <5>1. i - 1 \in 1..(n - 1) /\ (i - 1) + 1 = i
          BY <1>5, <4>2
        <5>2. jobs'[i - 1] = q[i] /\ i - 1 \in 1..Len(jobs')
          BY <1>10, <5>1
        <5> QED
          BY <3>1, <5>2 DEF ActiveRules
      <4> QED
        BY <4>1, <4>2
    <3>2. CASE \E u \in ks : x = r[u].rule
      BY <1>8, <1>9, <3>2 DEF ActiveRules
    <3> QED
      BY <1>1, <2>2, <3>1, <3>2 DEF ActiveRules
  <2> QED
    BY <2>1, <2>2
<1> QED
  BY <1>2, <1>3, <1>7, <1>13, <1>15, <1>16, <1>17 DEF JobSlots

(* The same when there is no slot for the job. *)
LEMMA SchedIfMoves ==
  ASSUME TypeOK, ~dry_mode, NEW q \in Seq(Job), NEW guard, guard => q # <<>>,
         NEW s \in GlobalsType, schedIf(guard, q, s),
         NEW hn, NEW mt, NEW cl \in Nat,
         JobSlots(q, s.running, s.kids, status, s.state, hn, mt, s.time, cl)
  PROVE  /\ state' = s.state /\ time' = s.time
         /\ JobSlots(jobs', running', kids', status', state', hn, mt, time', cl)
         /\ ActiveRules(jobs', running', kids') = ActiveRules(q, s.running, s.kids)
<1>1. CASE guard /\ sched(q, s)
  BY <1>1, SchedMoves
<1>2. CASE jobs' = q /\ SetGlobals(s) /\ UNCHANGED status
  BY <1>2 DEF SetGlobals
<1> QED
  BY <1>1, <1>2 DEF schedIf

(* A job for a rule that has none can be added. *)
LEMMA AddJob ==
  ASSUME NEW q \in Seq(Job), NEW job \in Job, NEW run_, NEW ks, NEW stat,
         NEW st2, NEW hn, NEW mt, NEW tm, NEW cl,
         JobSlots(q, run_, ks, stat, st2, hn, mt, tm, cl),
         job.rule \notin ActiveRules(q, run_, ks),
         GoodJob(job, st2, hn), Fresh(job, mt, tm)
  PROVE  /\ JobSlots(Append(q, job), run_, ks, stat, st2, hn, mt, tm, cl)
         /\ ActiveRules(Append(q, job), run_, ks) = ActiveRules(q, run_, ks) \cup {job.rule}
<1>1. PICK n : n = Len(q)
  OBVIOUS
<1>2. PICK z : z = Append(q, job)
  OBVIOUS
<1>3. /\ n \in Nat /\ Len(z) = n + 1 /\ z[n + 1] = job
      /\ \A i \in 1..n : z[i] = q[i]
  BY <1>1, <1>2, AppendProperties, LenProperties
<1>4. /\ \A i \in 1..n : i \in 1..(n + 1)
      /\ \A i \in 1..(n + 1) : i \in 1..n \/ i = n + 1
      /\ n + 1 \in 1..(n + 1)
  BY <1>3
<1>5. /\ \A i \in 1..n : q[i].rule # job.rule
      /\ \A p \in ks : run_[p].rule # job.rule
  BY <1>1 DEF ActiveRules
<1>6. Slots(z, run_, ks)
  BY <1>1, <1>3, <1>4, <1>5 DEF JobSlots, Slots
<1>7. QueueInv(z, st2, hn, mt, tm)
  BY <1>1, <1>3, <1>4 DEF JobSlots, QueueInv
<1>8. ActiveRules(z, run_, ks) = ActiveRules(q, run_, ks) \cup {job.rule}
  <2>1. \A x \in ActiveRules(z, run_, ks) : x \in ActiveRules(q, run_, ks) \cup {job.rule}
    BY <1>1, <1>3, <1>4 DEF ActiveRules
  <2>2. \A x \in ActiveRules(q, run_, ks) : x \in ActiveRules(z, run_, ks)
    BY <1>1, <1>3, <1>4 DEF ActiveRules
  <2>3. job.rule \in ActiveRules(z, run_, ks)
    BY <1>3, <1>4 DEF ActiveRules
  <2> QED
    BY <2>1, <2>2, <2>3
<1> QED
  BY <1>2, <1>6, <1>7, <1>8 DEF JobSlots

(* The recipe is queued or started, and its targets wait for it. *)
LEMMA RecipeQueued ==
  ASSUME TopoInv, ~Failed, Dorecipe, ~dry_mode, NEW S, S = JobFor(Top.node).nodes
  PROVE  state' = MarkNodes(state, S, "BeingMade") /\ time' = time /\ DataInv'
<1>1. PICK job : job = JobFor(Top.node)
  OBVIOUS
<1>2. PICK st : st = MarkNodes(state, S, "BeingMade")
  OBVIOUS
<1>3. PICK s : s = [Globals EXCEPT !.state = st]
  OBVIOUS
<1>4. TypeOK /\ PlainMkfile /\ PlainGoals /\ DataInv /\ StackInv
  BY DEF TopoInv, PoolInv, TypeInv
<1>5. NeedsRecipe /\ RecipeArcs(Top.node) # {} /\ UNCHANGED <<pc, hnodes, diskVars, loopVars>>
  BY DEF Dorecipe
<1>6. UNCHANGED <<pc, hnodes, g, goals, dry_mode, mtime, clock>>
  BY <1>5 DEF diskVars, loopVars, optVars
<1>7. PICK n : n = Top.node
  OBVIOUS
<1>8. /\ n \in S /\ S \subseteq hnodes /\ n \in Node
      /\ MasterRule(n) \in Rule /\ S = Range(AllTargets[MasterRule(n)]) \cap hnodes
      /\ \A k \in S : /\ state[k] = "NotMade" /\ RecipeArcs(k) # {}
                      /\ MasterRule(k) = MasterRule(n)
                      /\ \A m \in Dest(k) : state[m] = "Made"
      /\ MasterRule(n) \notin ActiveRules(jobs, running, kids)
  BY <1>4, <1>5, <1>7, RecipeTargets
<1>9. job \in Job /\ job.nodes = S /\ job.rule = MasterRule(n)
  <2>1. job \in Job
    BY <1>1, <1>4, <1>5, <1>7, <1>8, JobForType DEF TypeOK
  <2> QED
    BY <1>1, <1>7, <2>1 DEF JobFor
<1>10. S \subseteq Node /\ hnodes \subseteq Node
  BY <1>4, <1>8 DEF TypeOK
<1>11. /\ \A k \in S : st[k] = "BeingMade"
       /\ \A k \in Node \ S : st[k] = state[k]
       /\ st \in [Node -> BuildState]
  <2>1. st \in [Node -> BuildState]
    BY <1>2, <1>4, MarkNodesType DEF TypeOK, BuildState
  <2> QED
    BY <1>2, <1>10, <2>1 DEF MarkNodes
<1>12. /\ s \in GlobalsType /\ s.state = st /\ s.time = time
       /\ s.running = running /\ s.nrunning = nrunning /\ s.kids = kids
  BY <1>3, <1>4, <1>11 DEF Globals, GlobalsType, TypeOK
<1>13. schedIf(s.nrunning < nproclimit, Append(jobs, job), s)
  BY <1>1, <1>2, <1>3 DEF Dorecipe, run, Globals
<1>14. jobs \in Seq(Job) /\ clock \in Nat /\ clock <= clock
  BY <1>4 DEF TypeOK
<1>15. JobSlots(jobs, running, kids, status, st, hnodes, mtime, time, clock)
  <2>1. /\ \A i \in 1..Len(jobs) : GoodJob(jobs[i], state, hnodes) /\ jobs[i].nodes \subseteq Node
        /\ \A p \in kids : GoodJob(running[p], state, hnodes) /\ running[p].nodes \subseteq Node
    BY <1>4, JobTypes DEF DataInv
  <2>2. ASSUME NEW j, GoodJob(j, state, hnodes), j.nodes \subseteq Node, NEW k \in j.nodes
        PROVE  st[k] = state[k]
    <3>1. k \in Node /\ state[k] = "BeingMade"
      BY <2>2 DEF GoodJob
    <3> QED
      BY <1>11, <3>1
  <2>3. ASSUME NEW i \in 1..Len(jobs)
        PROVE  GoodJob(jobs[i], st, hnodes) /\ Fresh(jobs[i], mtime, time)
    <3>1. GoodJob(jobs[i], state, hnodes) /\ Fresh(jobs[i], mtime, time)
      BY <1>4 DEF DataInv, JobsInv, QueueInv
    <3>2. \A k \in jobs[i].nodes : st[k] = state[k]
      BY <2>1, <2>2
    <3> QED
      BY <3>1, <3>2, QueuedKept
  <2>4. ASSUME NEW p \in kids
        PROVE  KidInv(running[p], status[p], st, hnodes, mtime, time, clock)
    <3>1. KidInv(running[p], status[p], state, hnodes, mtime, time, clock)
      BY <1>4 DEF DataInv, JobsInv
    <3>2. \A k \in running[p].nodes : st[k] = state[k]
      BY <2>1, <2>2
    <3> QED
      BY <1>14, <3>1, <3>2, KidKept
  <2> QED
    BY <1>4, <2>3, <2>4 DEF DataInv, JobsInv, JobSlots, QueueInv
<1>16. GoodJob(job, st, hnodes)
  BY <1>8, <1>9, <1>11 DEF GoodJob
<1>17. Fresh(job, mtime, time)
  BY <1>4, <1>8, <1>9 DEF DataInv, SeenInv, Fresh
<1>18. /\ JobSlots(Append(jobs, job), running, kids, status, st, hnodes, mtime, time, clock)
       /\ ActiveRules(Append(jobs, job), running, kids)
            = ActiveRules(jobs, running, kids) \cup {job.rule}
  BY <1>8, <1>9, <1>14, <1>15, <1>16, <1>17, AddJob
<1>19. Append(jobs, job) \in Seq(Job) /\ Append(jobs, job) # <<>>
  BY <1>9, <1>14, AppendProperties
<1>20. /\ state' = st /\ time' = time
       /\ JobSlots(jobs', running', kids', status', state', hnodes, mtime, time', clock)
       /\ ActiveRules(jobs', running', kids') = ActiveRules(jobs, running, kids) \cup {job.rule}
  BY <1>4, <1>12, <1>13, <1>14, <1>18, <1>19, SchedIfMoves
<1>21. JobsInv'
  BY <1>6, <1>20 DEF JobsInv, JobSlots
<1>22. KnownInv'
  <2>1. \A k \in Node \ hnodes : state'[k] = "NotMade"
    BY <1>4, <1>8, <1>11, <1>20 DEF DataInv, KnownInv
  <2> QED
    BY <1>4, <1>6, <2>1 DEF DataInv, KnownInv
<1>23. ClockInv'
  BY <1>4, <1>6, <1>20 DEF DataInv, ClockInv
<1>24. \A k \in Node : state[k] = "Made" <=> state'[k] = "Made"
  BY <1>8, <1>11, <1>20
<1>25. MadeInv'
  <2> SUFFICES ASSUME NEW k \in Node, state'[k] = "Made"
               PROVE  /\ \A m \in Dest(k) : state'[m] = "Made"
                      /\ k \notin IsVirtual => /\ time[k] # NoTime
                                               /\ \A m \in Dest(k) : ~Late(k, m, time)
    BY <1>20 DEF MadeInv
  <2> QED
    BY <1>4, <1>24, DestType DEF DataInv, MadeInv
<1>26. BeingMadeInv'
  <2> SUFFICES ASSUME NEW k \in Node, state'[k] = "BeingMade"
               PROVE  /\ ~dry_mode' /\ RecipeArcs(k) # {}
                      /\ MasterRule(k) \in ActiveRules(jobs', running', kids')
                      /\ \A m \in Dest(k) : state'[m] = "Made"
    BY DEF BeingMadeInv
  <2>1. CASE k \in S
    BY <1>6, <1>8, <1>9, <1>20, <1>24, <2>1, DestType
  <2>2. CASE k \notin S
    <3>1. state[k] = "BeingMade"
      BY <1>11, <1>20, <2>2
    <3> QED
      BY <1>4, <1>6, <1>20, <1>24, <3>1, DestType DEF DataInv, BeingMadeInv
  <2> QED
    BY <2>1, <2>2
<1>27. \A k \in Node : state'[k] # "BeingMade" => state[k] # "BeingMade"
  BY <1>11, <1>20
<1>28. SeenInv'
  BY <1>4, <1>6, <1>10, <1>20, <1>27 DEF DataInv, SeenInv
<1>29. TwinsInv'
  <2> SUFFICES ASSUME NEW k \in Node \ IsVirtual
               PROVE /\ \A m \in Twins(k) : k \in hnodes /\ m \in hnodes => time[m] = time[k]
                     /\ \/ Twins(k) \cap hnodes = {}
                        \/ ~Together(k) /\ \A m \in Twins(k) : state'[m] # "BeingMade"
                        => \A m \in Twins(k) : mtime[m] = mtime[k]
    BY <1>6, <1>20 DEF TwinsInv, Together
  <2>1. \A m \in Twins(k) : m \in Node
    BY <1>4, TwinsAlike
  <2> QED
    BY <1>4, <1>27, <2>1 DEF DataInv, TwinsInv
<1> QED
  BY <1>2, <1>20, <1>21, <1>22, <1>23, <1>25, <1>26, <1>28, <1>29 DEF DataInv

LEMMA RecipeKeeps ==
  ASSUME TopoInv, ~Failed, Dorecipe
  PROVE  DataInv' /\ StackInv'
<1>1. TypeOK /\ PlainMkfile /\ PlainGoals /\ DataInv /\ StackInv
  BY DEF TopoInv, PoolInv, TypeInv
<1>2. NeedsRecipe /\ RecipeArcs(Top.node) # {} /\ stack' = Pop /\ hnodes' = hnodes
  BY DEF Dorecipe
<1>3. PICK S : S = JobFor(Top.node).nodes
  OBVIOUS
<1>4. /\ stack # <<>> /\ Top.node \in S /\ S \subseteq hnodes /\ S \subseteq Twins(Top.node)
      /\ \A k \in S : state[k] = "NotMade" /\ k \in Node
  BY <1>1, <1>2, <1>3, RecipeTargets DEF TypeOK
<1>5. CASE dry_mode
  <2>1. /\ Marked(S) /\ UNCHANGED schedVars /\ \A n \in S : time'[n] = clock
    BY <1>3, <1>5, DryRecipeMarks
  <2>2. /\ \A n \in Node \ S : state'[n] = state[n] /\ time'[n] = time[n]
        /\ KeepsMade(state, state', time, time')
    BY <1>1, <2>1, MarkedStates
  <2>3. time'[Top.node] # NoTime
    BY <1>1, <1>4, <2>1 DEF DataInv, ClockInv, NoTime, TypeOK
  <2> QED
    BY <1>1, <1>2, <1>4, <2>1, <2>2, <2>3, MarkedData, ReturnKeepsStack
<1>6. CASE ~dry_mode
  <2>1. state' = MarkNodes(state, S, "BeingMade") /\ time' = time /\ DataInv'
    BY <1>3, <1>6, RecipeQueued
  <2>2. /\ \A n \in Node \ S : state'[n] = state[n] /\ time'[n] = time[n]
        /\ state'[Top.node] = "BeingMade"
    BY <1>4, <2>1 DEF MarkNodes
  <2>3. KeepsMade(state, state', time, time')
    BY <1>4, <2>1, <2>2 DEF KeepsMade
  <2> QED
    BY <1>1, <1>2, <1>4, <2>1, <2>2, <2>3, ReturnKeepsStack
<1> QED
  BY <1>5, <1>6

(***************************************************************************)
(* The recipes end.                                                        *)
(***************************************************************************)

(* The targets of a job are twins. *)
LEMMA JobNodes ==
  ASSUME TypeOK, PlainMkfile, NEW job, GoodJob(job, state, hnodes)
  PROVE  /\ job.nodes = Range(AllTargets[job.rule]) \cap hnodes
         /\ \A n \in job.nodes : /\ n \in Node /\ n \in hnodes /\ state[n] = "BeingMade"
                                 /\ RecipeArcs(n) # {} /\ MasterRule(n) = job.rule
                                 /\ Twins(n) = Range(AllTargets[job.rule])
         /\ \A x \in Range(AllTargets[job.rule]) :
              /\ x \in Node /\ RecipeArcs(x) # {} /\ MasterRule(x) = job.rule
              /\ Twins(x) = Range(AllTargets[job.rule])
         /\ \E n \in job.nodes : TRUE
<1>1. /\ job.nodes = Range(AllTargets[job.rule]) \cap hnodes
      /\ \E n \in job.nodes : TRUE
      /\ \A n \in job.nodes : /\ n \in Node /\ n \in hnodes /\ state[n] = "BeingMade"
                              /\ RecipeArcs(n) # {} /\ MasterRule(n) = job.rule
  BY DEF GoodJob, TypeOK
<1>2. \A n \in job.nodes : Twins(n) = Range(AllTargets[job.rule])
  BY <1>1, OneRecipe
<1>3. PICK y \in job.nodes : TRUE
  BY <1>1
<1>4. ASSUME NEW x \in Range(AllTargets[job.rule])
      PROVE  /\ x \in Node /\ RecipeArcs(x) # {} /\ MasterRule(x) = job.rule
             /\ Twins(x) = Range(AllTargets[job.rule])
  <2>1. x \in Twins(y) /\ y \in Node
    BY <1>1, <1>2, <1>3
  <2> QED
    BY <1>1, <1>2, <1>3, <2>1, TwinsAlike
<1> QED
  BY <1>1, <1>2, <1>4

(* What waitup reaps when no target was left untouched. *)
LEMMA ReapedJob ==
  ASSUME TopoInv, NEW p \in Pid, Waitup(p), pc' # "fail", NEW S, S = running[p].nodes
  PROVE  /\ ~Failed /\ ~dry_mode /\ p \in kids /\ status[p] = "exit0"
         /\ \A n \in S : ~NotUpdated(n)
         /\ UpdatedNodes(running[p]) = S
         /\ refill([state |-> MarkNodes(state, S, "Made"),
                    time |-> [n \in Node |-> IF n \in S THEN TimeAfter(n) ELSE time[n]],
                    running |-> [running EXCEPT ![p] = NoJob],
                    nrunning |-> nrunning - 1,
                    kids |-> kids \ {p}])
         /\ UNCHANGED <<stack, did, hnodes, diskVars, loopVars>>
<1>1. pc \in {"wait", "drain"} /\ p \in kids /\ status[p] = "exit0"
  BY DEF Waitup, Reap
<1>2. ~dry_mode /\ ~Failed
  BY <1>1 DEF TopoInv, PoolInv, DryForksNothing, Failed
<1>3. \A n \in S : ~NotUpdated(n)
  BY DEF Waitup
<1>4. UpdatedNodes(running[p]) = S
  BY <1>3 DEF UpdatedNodes
<1> QED
  BY <1>1, <1>2, <1>3, <1>4 DEF Waitup

LEMMA WaitupData ==
  ASSUME TopoInv, NEW p \in Pid, Waitup(p), pc' # "fail"
  PROVE  /\ DataInv' /\ state' = MarkNodes(state, running[p].nodes, "Made")
         /\ \A n \in running[p].nodes : n \in Node /\ state[n] = "BeingMade"
<1>1. PICK job : job = running[p]
  OBVIOUS
<1>2. PICK S : S = job.nodes
  OBVIOUS
<1>3. PICK st : st = MarkNodes(state, S, "Made")
  OBVIOUS
<1>4. PICK tm : tm = [n \in Node |-> IF n \in S THEN TimeAfter(n) ELSE time[n]]
  OBVIOUS
<1>5. PICK s : s = [state |-> st, time |-> tm, running |-> [running EXCEPT ![p] = NoJob],
                    nrunning |-> nrunning - 1, kids |-> kids \ {p}]
  OBVIOUS
<1>6. /\ ~Failed /\ ~dry_mode /\ p \in kids /\ status[p] = "exit0"
      /\ \A n \in S : ~NotUpdated(n)
      /\ refill(s) /\ UNCHANGED <<hnodes, diskVars, loopVars>>
  BY <1>1, <1>2, <1>3, <1>4, <1>5, ReapedJob
<1>7. TypeOK /\ PlainMkfile /\ PlainGoals /\ DataInv /\ HasJobs(kids, status, running)
  BY <1>6 DEF TopoInv, PoolInv, TypeInv
<1>8. UNCHANGED <<hnodes, g, goals, dry_mode, mtime, clock>>
  BY <1>6 DEF diskVars, loopVars, optVars
<1>9. KidInv(job, status[p], state, hnodes, mtime, time, clock)
  BY <1>1, <1>6, <1>7 DEF DataInv, JobsInv
<1>10. GoodJob(job, state, hnodes)
  BY <1>9 DEF KidInv
<1>11. PICK T : T = Range(AllTargets[job.rule])
  OBVIOUS
<1>12. /\ S = T \cap hnodes
       /\ \A n \in S : /\ n \in Node /\ n \in hnodes /\ state[n] = "BeingMade"
                       /\ RecipeArcs(n) # {} /\ MasterRule(n) = job.rule /\ Twins(n) = T
       /\ \A x \in T : x \in Node /\ RecipeArcs(x) # {} /\ MasterRule(x) = job.rule /\ Twins(x) = T
  BY <1>2, <1>7, <1>10, <1>11, JobNodes
<1>13. PICK c \in Nat : /\ c <= clock
                        /\ \A n \in S \ IsVirtual : /\ mtime[n] = c /\ c # NoTime
                                                    /\ \A m \in Dest(n) \ IsVirtual : time[m] <= c
  <2>1. PICK c \in Nat : c <= clock /\ WrittenAt(job, mtime, time, c)
    BY <1>9 DEF KidInv, Written
  <2>2. ASSUME NEW n \in S \ IsVirtual
        PROVE  /\ mtime[n] = c /\ c # NoTime
               /\ \A m \in Dest(n) \ IsVirtual : time[m] <= c
    <3>1. mtime[n] # time[n] /\ mtime[n] # NoTime
      BY <1>6 DEF NotUpdated
    <3> QED
      BY <1>2, <2>1, <3>1 DEF WrittenAt
  <2> QED
    BY <2>1, <2>2
<1>14. /\ \A n \in S : st[n] = "Made"
       /\ \A n \in Node \ S : st[n] = state[n] /\ tm[n] = time[n]
       /\ \A n \in S \ IsVirtual : tm[n] = mtime[n]
       /\ \A n \in S : n \in IsVirtual => tm[n] = VirtualTime
       /\ st \in [Node -> BuildState] /\ tm \in [Node -> Nat]
  <2>1. st \in [Node -> BuildState]
    BY <1>3, <1>7, MarkNodesType DEF TypeOK, BuildState
  <2>2. tm \in [Node -> Nat]
    BY <1>4, <1>7 DEF TypeOK, TimeAfter, VirtualTime
  <2> QED
    BY <1>3, <1>4, <1>12, <2>1, <2>2 DEF MarkNodes, TimeAfter
<1>15. /\ s \in GlobalsType /\ s.state = st /\ s.time = tm /\ s.kids = kids \ {p}
       /\ \A u \in kids \ {p} : s.running[u] = running[u]
  <2>1. nrunning - 1 \in Nat
    BY <1>7 DEF Waitup, Reap, TypeOK
  <2>2. [running EXCEPT ![p] = NoJob] \in [Pid -> Job \cup {NoJob}]
    BY <1>7 DEF TypeOK
  <2>3. \A u \in kids \ {p} : [running EXCEPT ![p] = NoJob][u] = running[u]
    BY <1>7 DEF TypeOK
  <2>4. kids \ {p} \in SUBSET Pid
    BY <1>7 DEF TypeOK
  <2> QED
    BY <1>5, <1>14, <2>1, <2>2, <2>3, <2>4 DEF GlobalsType
<1>16. ASSUME NEW n \in Node, state[n] = "Made" PROVE st[n] = "Made" /\ tm[n] = time[n] /\ n \notin S
  BY <1>12, <1>14, <1>16
<1>17. ASSUME NEW j, GoodJob(j, state, hnodes), j.rule # job.rule, NEW n \in j.nodes
       PROVE  /\ st[n] = state[n] /\ tm[n] = time[n]
              /\ \A m \in Dest(n) \ IsVirtual : tm[m] = time[m]
  <2>1. n \in Node /\ state[n] = "BeingMade" /\ MasterRule(n) = j.rule
    BY <1>7, <1>17, JobNodes
  <2>2. n \notin S
    BY <1>12, <1>17, <2>1
  <2>3. \A m \in Dest(n) : m \in Node /\ state[m] = "Made"
    BY <1>7, <2>1, DestType DEF DataInv, BeingMadeInv
  <2> QED
    BY <1>14, <1>16, <2>1, <2>2, <2>3
<1>18. clock \in Nat /\ clock <= clock /\ clock > 0 /\ jobs \in Seq(Job)
  BY <1>7 DEF TypeOK, DataInv, ClockInv
<1>19. Slots(jobs, running, kids)
  BY <1>7 DEF DataInv, JobsInv
<1>20. JobSlots(jobs, s.running, s.kids, status, s.state, hnodes, mtime, s.time, clock)
  <2>1. Slots(jobs, s.running, s.kids)
    BY <1>15, <1>19 DEF Slots
  <2>2. ASSUME NEW i \in 1..Len(jobs)
        PROVE  GoodJob(jobs[i], st, hnodes) /\ Fresh(jobs[i], mtime, tm)
    <3>1. GoodJob(jobs[i], state, hnodes) /\ Fresh(jobs[i], mtime, time)
      BY <1>7 DEF DataInv, JobsInv, QueueInv
    <3>2. jobs[i].rule # job.rule
      BY <1>1, <1>6, <1>19 DEF Slots
    <3>3. \A k \in jobs[i].nodes : st[k] = state[k] /\ tm[k] = time[k]
      BY <1>17, <3>1, <3>2
    <3> QED
      BY <3>1, <3>3, QueuedKept
  <2>3. ASSUME NEW u \in kids \ {p}
        PROVE  KidInv(running[u], status[u], st, hnodes, mtime, tm, clock)
    <3>1. KidInv(running[u], status[u], state, hnodes, mtime, time, clock)
      BY <1>7 DEF DataInv, JobsInv
    <3>2. running[u].rule # job.rule
      BY <1>1, <1>6, <1>19 DEF Slots
    <3>3. \A k \in running[u].nodes : /\ st[k] = state[k] /\ tm[k] = time[k]
                                      /\ \A m \in Dest(k) \ IsVirtual : tm[m] = time[m]
      BY <1>17, <3>1, <3>2 DEF KidInv
    <3>4. PICK j, sst, mt, cl : j = running[u] /\ sst = status[u] /\ mt = mtime /\ cl = clock
      OBVIOUS
    <3>5. KidInv(j, sst, state, hnodes, mtime, time, clock)
      BY <3>1, <3>4
    <3>6. /\ \A k \in j.nodes : st[k] = state[k]
          /\ \A k \in j.nodes \ IsVirtual : tm[k] = time[k]
          /\ \A k \in j.nodes : \A m \in Dest(k) \ IsVirtual : tm[m] = time[m]
      BY <3>3, <3>4
    <3>7. /\ \A k \in Range(AllTargets[j.rule]) \ IsVirtual : mt[k] = mtime[k]
          /\ cl \in Nat /\ clock \in Nat /\ clock <= cl
      BY <1>18, <3>4
    <3>8. KidInv(j, sst, st, hnodes, mt, tm, cl)
      BY <3>5, <3>6, <3>7, KidKept
    <3> QED
      BY <3>4, <3>8
  <2> QED
    BY <1>15, <2>1, <2>2, <2>3 DEF JobSlots, QueueInv
<1>21. schedIf(s.nrunning < nproclimit /\ jobs # <<>>, jobs, s)
  BY <1>6 DEF refill
<1>22. /\ state' = st /\ time' = tm
       /\ JobSlots(jobs', running', kids', status', state', hnodes, mtime, time', clock)
       /\ ActiveRules(jobs', running', kids') = ActiveRules(jobs, s.running, s.kids)
  BY <1>6, <1>7, <1>15, <1>18, <1>20, <1>21, SchedIfMoves
<1>23. JobsInv'
  BY <1>8, <1>22 DEF JobsInv, JobSlots
<1>24. KnownInv'
  <2>1. \A k \in Node \ hnodes : state'[k] = "NotMade"
    BY <1>7, <1>12, <1>14, <1>22 DEF DataInv, KnownInv
  <2>2. pc # "graph" /\ pc' # "graph"
    BY DEF Waitup
  <2> QED
    BY <1>7, <1>8, <2>1, <2>2 DEF DataInv, KnownInv
<1>25. ClockInv'
  <2>1. \A n \in Node : tm[n] <= clock
    BY <1>7, <1>14, <1>18 DEF DataInv, ClockInv, VirtualTime
  <2>2. \A n \in IsVirtual : RecipeArcs(n) = {} => tm[n] <= VirtualTime
    BY <1>7, <1>12, <1>14, ConstantTypes DEF DataInv, ClockInv
  <2> QED
    BY <1>7, <1>8, <1>22, <2>1, <2>2 DEF DataInv, ClockInv
<1>26. MadeInv'
  <2> SUFFICES ASSUME NEW n \in Node, st[n] = "Made"
               PROVE  /\ \A m \in Dest(n) : st[m] = "Made"
                      /\ n \notin IsVirtual => /\ tm[n] # NoTime
                                               /\ \A m \in Dest(n) : ~Late(n, m, tm)
    BY <1>22 DEF MadeInv
  <2>1. \A m \in Dest(n) : m \in Node /\ state[m] = "Made"
    BY <1>7, <1>12, <1>14, DestType DEF DataInv, MadeInv, BeingMadeInv
  <2>2. \A m \in Dest(n) : st[m] = "Made" /\ tm[m] = time[m] /\ tm[m] \in Nat
    BY <1>14, <1>16, <2>1
  <2>3. CASE n \in S
    <3> SUFFICES ASSUME n \notin IsVirtual
                 PROVE  tm[n] # NoTime /\ \A m \in Dest(n) : ~Late(n, m, tm)
      BY <2>2
    <3>1. tm[n] = c /\ c # NoTime /\ \A m \in Dest(n) \ IsVirtual : time[m] <= c
      BY <1>13, <1>14, <2>3
    <3> QED
      BY <2>2, <3>1 DEF Late
  <2>4. CASE n \notin S
    <3>1. state[n] = "Made" /\ tm[n] = time[n]
      BY <1>14, <2>4
    <3> QED
      BY <1>7, <2>2, <3>1 DEF DataInv, MadeInv, Late
  <2> QED
    BY <2>3, <2>4
<1>27. BeingMadeInv'
  <2> SUFFICES ASSUME NEW n \in Node, st[n] = "BeingMade"
               PROVE  /\ ~dry_mode' /\ RecipeArcs(n) # {}
                      /\ MasterRule(n) \in ActiveRules(jobs', running', kids')
                      /\ \A m \in Dest(n) : st[m] = "Made"
    BY <1>22 DEF BeingMadeInv
  <2>1. n \notin S /\ state[n] = "BeingMade" /\ n \in hnodes
    BY <1>7, <1>14 DEF DataInv, KnownInv
  <2>2. /\ RecipeArcs(n) # {} /\ MasterRule(n) \in ActiveRules(jobs, running, kids)
        /\ \A m \in Dest(n) : m \in Node /\ state[m] = "Made"
    BY <1>7, <2>1, DestType DEF DataInv, BeingMadeInv
  <2>3. MasterRule(n) # job.rule
    <3>1. n \in Range(AllTargets[MasterRule(n)])
      BY <1>7, <2>2, OneRecipe
    <3> QED
      BY <1>11, <1>12, <2>1, <3>1
  <2>4. MasterRule(n) \in ActiveRules(jobs, s.running, s.kids)
    BY <1>1, <1>15, <2>2, <2>3 DEF ActiveRules
  <2> QED
    BY <1>6, <1>8, <1>16, <1>22, <2>2, <2>4
<1>28. SeenInv'
  <2> SUFFICES ASSUME NEW n \in hnodes \ IsVirtual, st[n] # "BeingMade" PROVE tm[n] = mtime[n]
    BY <1>8, <1>22 DEF SeenInv
  <2>1. n \in Node
    BY <1>7 DEF TypeOK
  <2> QED
    BY <1>6, <1>7, <1>14, <2>1 DEF DataInv, SeenInv
<1>29. TwinsInv'
  <2> SUFFICES ASSUME NEW n \in Node \ IsVirtual
               PROVE /\ \A m \in Twins(n) : n \in hnodes /\ m \in hnodes => tm[m] = tm[n]
                     /\ \/ Twins(n) \cap hnodes = {}
                        \/ ~Together(n) /\ \A m \in Twins(n) : st[m] # "BeingMade"
                        => \A m \in Twins(n) : mtime[m] = mtime[n]
    BY <1>8, <1>22 DEF TwinsInv, Together
  <2>1. \A m \in Twins(n) : m \in Node \ IsVirtual /\ Twins(m) = Twins(n) /\ n \in Twins(n)
    BY <1>7, TwinsAlike
  <2>2. CASE \E m \in Twins(n) : m \in S
    <3>1. Twins(n) = T
      BY <1>12, <2>1, <2>2
    <3>2. ASSUME NEW m \in Twins(n), n \in hnodes, m \in hnodes PROVE tm[m] = tm[n]
      <4>1. n \in S \ IsVirtual /\ m \in S \ IsVirtual
        BY <1>12, <2>1, <3>1, <3>2
      <4> QED
        BY <1>13, <1>14, <4>1
    <3>3. ~(Twins(n) \cap hnodes = {})
      BY <1>12, <2>2
    <3>4. ASSUME ~Together(n) PROVE \A m \in Twins(n) : mtime[m] = mtime[n]
      <4>1. n \in T /\ RecipeArcs(n) # {} /\ MasterRule(n) = job.rule
        BY <1>12, <2>1, <2>2, <3>1
      <4>2. job.rule \notin MayNotWrite
        BY <1>7, <3>4, <4>1 DEF PlainGoals
      <4>3. AllWritten(job, mtime)
        BY <1>6, <1>9, <4>2 DEF KidInv
      <4> QED
        BY <1>11, <2>1, <3>1, <4>1, <4>3 DEF AllWritten
    <3> QED
      BY <3>2, <3>3, <3>4
  <2>3. CASE \A m \in Twins(n) : m \notin S
    <3>1. \A m \in Twins(n) : st[m] = state[m] /\ tm[m] = time[m]
      BY <1>14, <2>1, <2>3
    <3>2. ASSUME NEW m \in Twins(n), n \in hnodes, m \in hnodes PROVE tm[m] = tm[n]
      BY <1>7, <2>1, <3>1, <3>2 DEF DataInv, TwinsInv
    <3> QED
      BY <1>7, <3>1, <3>2 DEF DataInv, TwinsInv
  <2> QED
    BY <2>2, <2>3
<1> QED
  BY <1>1, <1>2, <1>3, <1>12, <1>22, <1>23, <1>24, <1>25, <1>26, <1>27, <1>28, <1>29 DEF DataInv

(* A child ends: it has written some of the targets of its rule, which all *)
(* wait for it, so that nothing mk relies on has changed.                  *)
LEMMA ChildEndData ==
  ASSUME TopoInv, ~Failed, NEW p \in Pid, ChildEnd(p)
  PROVE  DataInv'
<1>1. PICK job : job = running[p]
  OBVIOUS
<1>2. PICK T : T = Range(AllTargets[job.rule])
  OBVIOUS
<1>3. PICK stat \in ExitStatus \ {"alive"}, W \in SUBSET (T \ IsVirtual), d \in Tick :
        /\ stat = "exit0" => W = T \ IsVirtual \/ job.rule \in MayNotWrite
        /\ status' = [status EXCEPT ![p] = stat]
        /\ clock' = IF W = {} THEN clock ELSE clock + d
        /\ mtime' = MarkNodes(mtime, W, clock')
  BY <1>1, <1>2 DEF ChildEnd
<1>4. /\ p \in kids /\ status[p] = "alive"
      /\ UNCHANGED <<pc, hnodes, state, time, jobs, running, kids, g, goals, dry_mode>>
  BY DEF ChildEnd, graphVars, loopVars, optVars
<1>5. TypeOK /\ PlainMkfile /\ PlainGoals /\ DataInv /\ ~dry_mode
  BY <1>4 DEF TopoInv, PoolInv, TypeInv, DryForksNothing
<1>6. clock \in Nat /\ clock' \in Nat /\ clock <= clock' /\ clock > 0 /\ clock' > 0
  <2>1. clock \in Nat /\ d \in Nat /\ clock > 0
    BY <1>5, ConstantTypes DEF TypeOK, DataInv, ClockInv
  <2>2. CASE W = {}
    BY <1>3, <2>1, <2>2
  <2>3. CASE W # {}
    BY <1>3, <2>1, <2>3
  <2> QED
    BY <2>2, <2>3
<1>7. KidInv(job, "alive", state, hnodes, mtime, time, clock)
  BY <1>1, <1>4, <1>5 DEF DataInv, JobsInv
<1>8. GoodJob(job, state, hnodes) /\ Fresh(job, mtime, time)
  BY <1>7 DEF KidInv
<1>9. /\ job.nodes = T \cap hnodes
      /\ \A n \in job.nodes : n \in Node /\ state[n] = "BeingMade"
      /\ \A x \in T : x \in Node /\ RecipeArcs(x) # {} /\ MasterRule(x) = job.rule /\ Twins(x) = T
      /\ \E n \in job.nodes : TRUE
  BY <1>2, <1>5, <1>8, JobNodes
<1>10. /\ \A n \in W : n \in Node /\ n \in T /\ n \notin IsVirtual /\ mtime'[n] = clock'
       /\ \A n \in Node \ W : mtime'[n] = mtime[n]
  BY <1>3, <1>9 DEF MarkNodes
<1>11. KnownInv'
  BY <1>4, <1>5 DEF DataInv, KnownInv
<1>12. ClockInv'
  <2>1. ASSUME NEW n \in Node PROVE mtime'[n] <= clock' /\ time[n] <= clock'
    <3>1. mtime[n] \in Nat /\ time[n] \in Nat /\ mtime[n] <= clock /\ time[n] <= clock
      BY <1>5 DEF TypeOK, DataInv, ClockInv
    <3>2. mtime'[n] = clock' \/ mtime'[n] = mtime[n]
      BY <1>10
    <3> QED
      BY <1>6, <3>1, <3>2
  <2> QED
    BY <1>4, <1>5, <1>6, <2>1 DEF DataInv, ClockInv
<1>13. MadeInv' /\ BeingMadeInv'
  BY <1>4, <1>5 DEF DataInv, MadeInv, BeingMadeInv
<1>14. SeenInv'
  <2> SUFFICES ASSUME NEW n \in hnodes \ IsVirtual, state[n] # "BeingMade"
               PROVE  time[n] = mtime'[n]
    BY <1>4 DEF SeenInv
  <2>1. n \in Node /\ n \notin W
    BY <1>5, <1>9, <1>10 DEF TypeOK
  <2> QED
    BY <1>5, <1>10, <2>1 DEF DataInv, SeenInv
<1>15. TwinsInv'
  <2> SUFFICES ASSUME NEW n \in Node \ IsVirtual
               PROVE /\ \A m \in Twins(n) : n \in hnodes /\ m \in hnodes => time[m] = time[n]
                     /\ \/ Twins(n) \cap hnodes = {}
                        \/ ~Together(n) /\ \A m \in Twins(n) : state[m] # "BeingMade"
                        => \A m \in Twins(n) : mtime'[m] = mtime'[n]
    BY <1>4 DEF TwinsInv, Together
  <2>1. \A m \in Twins(n) : m \in Node /\ Twins(m) = Twins(n) /\ n \in Twins(n)
    BY <1>5, TwinsAlike
  <2>2. \A m \in Twins(n) : n \in hnodes /\ m \in hnodes => time[m] = time[n]
    BY <1>5 DEF DataInv, TwinsInv
  <2>3. ASSUME \/ Twins(n) \cap hnodes = {}
               \/ ~Together(n) /\ \A m \in Twins(n) : state[m] # "BeingMade"
        PROVE  \A m \in Twins(n) : mtime'[m] = mtime'[n]
    <3>1. ASSUME NEW m \in Twins(n), m \in W PROVE FALSE
      <4>1. Twins(n) = T
        BY <1>9, <1>10, <2>1, <3>1
      <4> QED
        BY <1>9, <2>3, <4>1
    <3>2. \A m \in Twins(n) : mtime[m] = mtime[n]
      BY <1>5, <2>3 DEF DataInv, TwinsInv
    <3>3. \A m \in Twins(n) : mtime'[m] = mtime[m] /\ mtime'[n] = mtime[n]
      BY <1>10, <2>1, <3>1
    <3> QED
      BY <3>2, <3>3
  <2> QED
    BY <2>2, <2>3
<1>16. Slots(jobs, running, kids)
  BY <1>5 DEF DataInv, JobsInv
<1>17. ASSUME NEW j, GoodJob(j, state, hnodes), j.rule # job.rule
       PROVE  \A n \in Range(AllTargets[j.rule]) : n \in Node /\ mtime'[n] = mtime[n]
  <2>1. \A n \in Range(AllTargets[j.rule]) : n \in Node /\ MasterRule(n) = j.rule
    BY <1>5, <1>17, JobNodes
  <2> QED
    BY <1>9, <1>10, <1>17, <2>1
<1>18. ASSUME NEW i \in 1..Len(jobs)
       PROVE  GoodJob(jobs[i], state, hnodes) /\ Fresh(jobs[i], mtime', time)
  <2>1. GoodJob(jobs[i], state, hnodes) /\ Fresh(jobs[i], mtime, time)
    BY <1>5 DEF DataInv, JobsInv, QueueInv
  <2>2. jobs[i].rule # job.rule
    BY <1>1, <1>4, <1>16 DEF Slots
  <2>3. \A n \in jobs[i].nodes : mtime'[n] = mtime[n]
    BY <1>17, <2>1, <2>2 DEF GoodJob
  <2> QED
    BY <2>1, <2>3 DEF Fresh
<1>19. ASSUME NEW u \in kids \ {p}
       PROVE  KidInv(running[u], status[u], state, hnodes, mtime', time, clock')
  <2>1. PICK j, sst, mt, cl : j = running[u] /\ sst = status[u] /\ mt = mtime' /\ cl = clock'
    OBVIOUS
  <2>2. KidInv(j, sst, state, hnodes, mtime, time, clock)
    BY <1>5, <2>1 DEF DataInv, JobsInv
  <2>3. j.rule # job.rule
    BY <1>1, <1>4, <1>16, <2>1 DEF Slots
  <2>4. \A k \in Range(AllTargets[j.rule]) \ IsVirtual : mt[k] = mtime[k]
    BY <1>17, <2>1, <2>2, <2>3 DEF KidInv
  <2>5. /\ \A k \in j.nodes : state[k] = state[k]
        /\ \A k \in j.nodes \ IsVirtual : time[k] = time[k]
        /\ \A k \in j.nodes : \A m \in Dest(k) \ IsVirtual : time[m] = time[m]
    OBVIOUS
  <2>6. cl \in Nat /\ clock \in Nat /\ clock <= cl
    BY <1>6, <2>1
  <2>7. KidInv(j, sst, state, hnodes, mt, time, cl)
    BY <2>2, <2>4, <2>5, <2>6, KidKept
  <2> QED
    BY <2>1, <2>7
<1>20. KidInv(job, stat, state, hnodes, mtime', time, clock')
  <2>1. PICK mt, cl : mt = mtime' /\ cl = clock'
    OBVIOUS
  <2>2. WrittenAt(job, mt, time, cl)
    <3> SUFFICES ASSUME NEW n \in job.nodes \ IsVirtual
                 PROVE \/ mt[n] = time[n]
                       \/ mt[n] = cl /\ \A m \in Dest(n) \ IsVirtual : time[m] <= cl
      BY DEF WrittenAt
    <3>1. n \in Node /\ mtime[n] = time[n]
      BY <1>8, <1>9 DEF Fresh
    <3>2. CASE n \in W
      <4>1. ASSUME NEW m \in Dest(n) PROVE time[m] <= cl
        <5>1. m \in Node
          BY <3>1, DestType
        <5>2. time[m] \in Nat /\ time[m] <= clock
          BY <1>5, <5>1 DEF TypeOK, DataInv, ClockInv
        <5> QED
          BY <1>6, <2>1, <5>2
      <4> QED
        BY <1>10, <2>1, <3>2, <4>1
    <3>3. CASE n \notin W
      BY <1>10, <2>1, <3>1, <3>3
    <3> QED
      BY <3>2, <3>3
  <2>3. Written(job, mt, time, cl)
    BY <1>6, <2>1, <2>2 DEF Written
  <2>4. ASSUME stat = "exit0", job.rule \notin MayNotWrite PROVE AllWritten(job, mt)
    <3>1. W = T \ IsVirtual
      BY <1>3, <2>4
    <3> QED
      BY <1>2, <1>10, <2>1, <3>1 DEF AllWritten
  <2> QED
    BY <1>3, <1>8, <2>1, <2>3, <2>4 DEF KidInv
<1>21. JobsInv'
  <2>1. ASSUME NEW u \in kids
        PROVE  KidInv(running[u], status'[u], state, hnodes, mtime', time, clock')
    <3>1. u \in Pid /\ status \in [Pid -> ExitStatus]
      BY <1>5 DEF TypeOK
    <3>2. CASE u = p
      <4>1. running[u] = job /\ status'[u] = stat
        BY <1>1, <1>3, <3>1, <3>2
      <4> QED
        BY <1>20, <4>1
    <3>3. CASE u # p
      <4>1. status'[u] = status[u]
        BY <1>3, <3>1, <3>3
      <4> QED
        BY <1>19, <3>3, <4>1
    <3> QED
      BY <3>2, <3>3
  <2> QED
    BY <1>4, <1>16, <1>18, <2>1 DEF JobsInv, QueueInv
<1> QED
  BY <1>11, <1>12, <1>13, <1>14, <1>15, <1>21 DEF DataInv

(* build_graph for the next target: nothing is running, the nodes of the   *)
(* earlier targets keep their times, and the new ones get the times on     *)
(* disk.                                                                   *)
LEMMA BuildGraphData ==
  ASSUME TopoInv, BuildGraph
  PROVE  DataInv'
<1>1. PICK R : R = Reach[Root]
  OBVIOUS
<1>2. /\ pc = "graph" /\ pc' = "loop" /\ hnodes' = hnodes \cup R
      /\ time' = [n \in Node |->
                    IF n \notin R THEN time[n]
                    ELSE IF n \in IsVirtual THEN NoTime
                    ELSE IF n \in hnodes THEN time[n] ELSE mtime[n]]
      /\ UNCHANGED <<state, jobs, running, kids, status, mtime, clock, g, goals, dry_mode>>
  BY <1>1 DEF BuildGraph, schedVars, diskVars, optVars
<1>3. TypeOK /\ PlainMkfile /\ PlainGoals /\ DataInv /\ LoopInv /\ jobs = <<>> /\ kids = {}
  BY <1>2 DEF TopoInv, PoolInv, TypeInv, Failed, LoopInv
<1>4. /\ g \in 1..Len(goals) /\ Len(goals) \in Nat
      /\ \A i \in 1..Len(goals) : goals[i] \in Node
  BY <1>3, KnownClosed DEF DataInv
<1>5. R \subseteq Node /\ hnodes \subseteq Node
  BY <1>1, <1>3, <1>4, ReachIsLeast DEF Root, TypeOK
<1>6. /\ \A n \in Node \ R : time'[n] = time[n]
      /\ \A n \in R : n \in IsVirtual => time'[n] = NoTime
      /\ \A n \in R \ IsVirtual : n \in hnodes => time'[n] = time[n]
      /\ \A n \in R \ IsVirtual : n \notin hnodes => time'[n] = mtime[n]
  BY <1>2, <1>5
<1>7. \A n \in Node : state[n] # "BeingMade"
  <2>1. ActiveRules(jobs, running, kids) = {}
    BY <1>3 DEF ActiveRules
  <2> QED
    BY <1>3, <2>1 DEF DataInv, BeingMadeInv
<1>8. \A n \in hnodes \ IsVirtual : time'[n] = time[n]
  BY <1>5, <1>6
<1>9. hnodes = UNION {Reach[goals[i]] : i \in 1..(g - 1)}
  BY <1>2, <1>3 DEF DataInv, KnownInv
<1>10. KnownInv'
  <2>1. \A i \in 1..g : i = g \/ i \in 1..(g - 1)
    BY <1>4
  <2>2. \A i \in 1..(g - 1) : i \in 1..g
    BY <1>4
  <2>3. g \in 1..g /\ R = Reach[goals[g]]
    BY <1>1, <1>4 DEF Root
  <2>4. hnodes' = UNION {Reach[goals[i]] : i \in 1..g}
    BY <1>2, <1>9, <2>1, <2>2, <2>3
  <2>5. \A n \in Node \ hnodes' : state[n] = "NotMade"
    BY <1>2, <1>3 DEF DataInv, KnownInv
  <2> QED
    BY <1>2, <2>4, <2>5 DEF KnownInv
<1>11. ClockInv'
  <2>1. ASSUME NEW n \in Node PROVE time'[n] <= clock
    <3>1. time[n] <= clock /\ mtime[n] <= clock /\ NoTime <= clock
      BY <1>3 DEF DataInv, ClockInv, NoTime, TypeOK
    <3> QED
      BY <1>6, <3>1
  <2>2. ASSUME NEW n \in IsVirtual, RecipeArcs(n) = {} PROVE time'[n] <= VirtualTime
    <3>1. time[n] <= VirtualTime /\ NoTime <= VirtualTime /\ n \in Node
      BY <1>3, <2>2, ConstantTypes DEF DataInv, ClockInv, NoTime, VirtualTime
    <3> QED
      BY <1>6, <3>1
  <2> QED
    BY <1>2, <1>3, <2>1, <2>2 DEF DataInv, ClockInv
<1>12. MadeInv'
  <2> SUFFICES ASSUME NEW n \in Node, state[n] = "Made"
               PROVE  /\ \A m \in Dest(n) : state[m] = "Made"
                      /\ n \notin IsVirtual => /\ time'[n] # NoTime
                                               /\ \A m \in Dest(n) : ~Late(n, m, time')
    BY <1>2 DEF MadeInv
  <2>1. /\ n \in hnodes
        /\ \A m \in Dest(n) : m \in Node /\ state[m] = "Made" /\ m \in hnodes
    BY <1>3, DestType DEF DataInv, MadeInv, KnownInv
  <2>2. ASSUME n \notin IsVirtual
        PROVE  time[n] # NoTime /\ \A m \in Dest(n) : ~Late(n, m, time)
    BY <1>3, <2>2 DEF DataInv, MadeInv
  <2> QED
    BY <1>8, <2>1, <2>2 DEF Late
<1>13. BeingMadeInv'
  BY <1>2, <1>7 DEF BeingMadeInv
<1>14. ASSUME ~dry_mode, NEW n \in hnodes' \ IsVirtual PROVE time'[n] = mtime[n]
  <2>1. CASE n \in hnodes
    <3>1. time[n] = mtime[n]
      BY <1>3, <1>5, <1>7, <1>14, <2>1 DEF DataInv, SeenInv
    <3> QED
      BY <1>8, <2>1, <3>1
  <2>2. CASE n \notin hnodes
    BY <1>2, <1>6, <2>2
  <2> QED
    BY <2>1, <2>2
<1>15. SeenInv'
  BY <1>2, <1>14 DEF SeenInv
<1>16. TwinsInv'
  <2> SUFFICES ASSUME NEW n \in Node \ IsVirtual
               PROVE /\ \A m \in Twins(n) : n \in hnodes' /\ m \in hnodes' => time'[m] = time'[n]
                     /\ \/ Twins(n) \cap hnodes' = {}
                        \/ ~Together(n) /\ \A m \in Twins(n) : state[m] # "BeingMade"
                        => \A m \in Twins(n) : mtime[m] = mtime[n]
    BY <1>2 DEF TwinsInv, Together
  <2>1. \A m \in Twins(n) : m \in Node \ IsVirtual /\ n \in Twins(n)
    BY <1>3, TwinsAlike
  <2>2. /\ \A m \in Twins(n) : n \in hnodes /\ m \in hnodes => time[m] = time[n]
        /\ Twins(n) \cap hnodes = {} \/ ~Together(n)
             => \A m \in Twins(n) : mtime[m] = mtime[n]
    BY <1>3, <1>7, <2>1 DEF DataInv, TwinsInv
  <2>3. ASSUME NEW k \in Twins(n), k \in hnodes, NEW m \in Twins(n), m \in R, m \notin hnodes
        PROVE  ~Together(n)
    <3>1. PICK i \in 1..(g - 1) : k \in Reach[goals[i]]
      BY <1>9, <2>3
    <3>2. i \in DOMAIN goals /\ g \in DOMAIN goals
      <4>1. i \in 1..Len(goals)
        BY <1>4
      <4>2. goals \in Seq(Node)
        BY <1>3, ConstantTypes DEF TypeOK
      <4> QED
        BY <1>4, <4>1, <4>2, LenProperties
    <3>3. m \in Reach[goals[g]] /\ m \notin Reach[goals[i]]
      BY <1>1, <1>9, <2>3 DEF Root
    <3> QED
      BY <3>1, <3>2, <3>3 DEF Together
  <2>4. ASSUME NEW m \in Twins(n), n \in hnodes', m \in hnodes' PROVE time'[m] = time'[n]
    <3>1. CASE n \in hnodes /\ m \in hnodes
      BY <1>8, <2>1, <2>2, <3>1
    <3>2. CASE Twins(n) \cap hnodes = {}
      BY <1>2, <1>6, <2>1, <2>2, <2>4, <3>2
    <3>3. CASE ~Together(n)
      <4>1. CASE RecipeArcs(n) = {}
        BY <4>1 DEF Twins
      <4>2. CASE RecipeArcs(n) # {}
        <5>1. ~dry_mode
          BY <1>3, <3>3, <4>2 DEF PlainGoals
        <5> QED
          BY <1>14, <2>1, <2>2, <2>4, <3>3, <5>1
      <4> QED
        BY <4>1, <4>2
    <3>4. CASE /\ ~(n \in hnodes /\ m \in hnodes)
               /\ Twins(n) \cap hnodes # {}
      <4>1. PICK k \in Twins(n) : k \in hnodes
        BY <3>4
      <4>2. (n \in R /\ n \notin hnodes) \/ (m \in R /\ m \notin hnodes)
        BY <1>2, <2>4, <3>4
      <4>3. ~Together(n)
        BY <2>1, <2>3, <4>1, <4>2
      <4> QED
        BY <3>3, <4>3
    <3> QED
      BY <3>1, <3>2, <3>4
  <2>5. ASSUME Twins(n) \cap hnodes' = {} \/ ~Together(n)
        PROVE  \A m \in Twins(n) : mtime[m] = mtime[n]
    BY <1>2, <2>2, <2>5
  <2> QED
    BY <2>4, <2>5
<1>17. JobsInv'
  <2>1. Len(jobs) = 0
    BY <1>3
  <2> QED
    BY <1>2, <1>3, <2>1 DEF JobsInv, Slots, QueueInv
<1> QED
  BY <1>10, <1>11, <1>12, <1>13, <1>15, <1>16, <1>17 DEF DataInv

(***************************************************************************)
(* The invariant is inductive.                                             *)
(***************************************************************************)

LEMMA NothingActive ==
  ASSUME BeingMadeInv, kids = {}, jobs = <<>>
  PROVE  \A n \in Node : state[n] # "BeingMade"
<1>1. ActiveRules(jobs, running, kids) = {}
  BY DEF ActiveRules
<1> QED
  BY <1>1 DEF BeingMadeInv

(* Once mk has waited for all its children, nothing is left to do. *)
LEMMA Drained ==
  ASSUME PoolInv, PlainMkfile, ~Failed, nrunning = 0
  PROVE  kids = {} /\ jobs = <<>>
<1>1. kids = {}
  BY FS_EmptySet DEF PoolInv, PoolAccounting
<1>2. nproclimit # 0
  BY DEF PoolInv, TypeInv, TypeOK, PlainMkfile
<1> QED
  BY <1>1, <1>2 DEF PoolInv, NoLostJob

LEMMA OptionsFixed ==
  ASSUME [Next]_vars
  PROVE  UNCHANGED optVars
<1>1. CASE BuildGraph \/ StartPass \/ AfterPass \/ LeaveLoop \/ NextGoal \/ FailExit
  BY <1>1 DEF BuildGraph, StartPass, AfterPass, LeaveLoop, NextGoal, FailExit, loopVars
<1>2. CASE WorkStep
  BY <1>2 DEF WorkStep, WorkBeingMade, WorkLeaf, WorkNode, WorkRecurse, WorkReturned,
              WorkNoDest, WorkNotReady, WorkUpToDate, DorecipeVirtual, DorecipeMissing,
              Dorecipe, loopVars
<1>3. ASSUME NEW p \in Pid, Waitup(p) \/ WaitupError(p) \/ FailWait(p) \/ ChildEnd(p)
      PROVE  UNCHANGED optVars
  BY <1>3 DEF Waitup, WaitupError, FailWait, ChildEnd, loopVars
<1>4. CASE UNCHANGED vars
  BY <1>4 DEF vars, loopVars
<1> QED
  BY <1>1, <1>2, <1>3, <1>4 DEF Next, MkStep, Exited

LEMMA PlainGoalsFixed ==
  ASSUME PlainGoals, UNCHANGED optVars
  PROVE  PlainGoals'
BY DEF PlainGoals, Together, optVars

(* Steps that only move mk's control. *)
LEMMA DataSame ==
  ASSUME DataInv, UNCHANGED <<graphVars, schedVars, diskVars, optVars>>, KnownInv'
  PROVE  DataInv'
<1>1. UNCHANGED <<hnodes, state, time, jobs, running, kids, status, mtime, clock,
                  goals, dry_mode>>
  BY DEF graphVars, schedVars, diskVars, optVars
<1>2. ClockInv' /\ MadeInv' /\ BeingMadeInv' /\ SeenInv'
  BY <1>1 DEF DataInv, ClockInv, MadeInv, BeingMadeInv, SeenInv
<1>3. TwinsInv'
  BY <1>1 DEF DataInv, TwinsInv, Together
<1>4. JobsInv'
  BY <1>1 DEF DataInv, JobsInv
<1> QED
  BY <1>2, <1>3, <1>4 DEF DataInv

LEMMA EmptyStack ==
  ASSUME stack' = <<>>
  PROVE  StackInv'
<1>1. Len(stack') = 0
  OBVIOUS
<1> QED
  BY <1>1 DEF StackInv, ChainInv, ReturnInv

LEMMA LoopKept ==
  ASSUME TypeOK, LoopInv, UNCHANGED <<g, goals>>,
         \A n \in Node : state[n] = "Made" => state'[n] = "Made",
         pc' \in {"loop", "work", "wait", "drain"},
         pc' # "work" => stack' = <<>>,
         pc' = "drain" => state'[Root] # "NotMade"
  PROVE  LoopInv'
<1>1. \A i \in 1..(g - 1) : state'[goals[i]] = "Made"
  <2>1. \A i \in 1..Len(goals) : goals[i] \in Node
    BY ConstantTypes, ElementOfSeq DEF TypeOK
  <2>2. Len(goals) \in Nat /\ g \in 1..Len(goals)
    BY ConstantTypes, LenProperties DEF TypeOK
  <2>3. \A i \in 1..(g - 1) : i \in 1..Len(goals)
    BY <2>2
  <2> QED
    BY <2>1, <2>3 DEF LoopInv
<1> QED
  BY <1>1 DEF LoopInv, Root

(* The segments of `work' that do not finish a node. *)
LEMMA MovesKeep ==
  ASSUME TopoInv, ~Failed,
         \/ WorkBeingMade \/ WorkNode \/ WorkRecurse \/ WorkReturned
         \/ WorkNoDest \/ WorkNotReady
  PROVE  DataInv' /\ StackInv' /\ LoopInv'
<1>1. TypeOK /\ PlainMkfile /\ DataInv /\ StackInv /\ LoopInv
  BY DEF TopoInv, PoolInv, TypeInv
<1>2. /\ UNCHANGED <<graphVars, schedVars, diskVars, loopVars>> /\ UNCHANGED pc /\ pc = "work"
  BY DEF WorkBeingMade, WorkNode, WorkRecurse, WorkReturned, WorkNoDest, WorkNotReady,
         AllArcsSeen, AtArc, Working
<1>3. UNCHANGED <<g, goals, hnodes, state, optVars>>
  BY <1>2 DEF graphVars, loopVars, optVars
<1>4. KnownInv'
  BY <1>1, <1>2, <1>3 DEF DataInv, KnownInv
<1>5. DataInv'
  BY <1>1, <1>2, <1>3, <1>4, DataSame
<1>6. StackInv'
  BY <1>1, MovesKeepStack, ReturnsKeepStack DEF DataInv
<1>7. LoopInv'
  BY <1>1, <1>2, <1>3, LoopKept
<1> QED
  BY <1>5, <1>6, <1>7

(* The segments that do. *)
LEMMA AcceptLoop ==
  ASSUME TopoInv, ~Failed, Accepting
  PROVE  DataInv' /\ StackInv' /\ LoopInv'
<1>1. TypeOK /\ PlainMkfile /\ DataInv /\ StackInv /\ LoopInv
  BY DEF TopoInv, PoolInv, TypeInv
<1>2. DataInv' /\ StackInv'
  BY <1>1, AcceptKeeps
<1>3. Marked({Top.node}) /\ UNCHANGED loopVars
  BY <1>1, AcceptMarks
<1>4. \A n \in Node : state[n] = "Made" => state'[n] = "Made"
  BY <1>1, <1>3, MarkedStates DEF KeepsMade
<1>5. pc' = "work" /\ UNCHANGED <<g, goals>>
  BY <1>3 DEF Marked, Accepting, WorkLeaf, WorkUpToDate, DorecipeVirtual, NeedsRecipe, AllArcsSeen,
     Working, optVars
<1>6. LoopInv'
  BY <1>1, <1>4, <1>5, LoopKept
<1> QED
  BY <1>2, <1>6

LEMMA RecipeLoop ==
  ASSUME TopoInv, ~Failed, Dorecipe
  PROVE  DataInv' /\ StackInv' /\ LoopInv'
<1>1. TypeOK /\ PlainMkfile /\ PlainGoals /\ DataInv /\ StackInv /\ LoopInv
  BY DEF TopoInv, PoolInv, TypeInv
<1>2. DataInv' /\ StackInv'
  BY RecipeKeeps
<1>3. PICK S : S = JobFor(Top.node).nodes
  OBVIOUS
<1>4. ASSUME NEW n \in Node, state[n] = "Made" PROVE state'[n] = "Made"
  <2>1. CASE dry_mode
    <3>1. Marked(S)
      BY <1>3, <2>1, DryRecipeMarks
    <3> QED
      BY <1>1, <1>4, <3>1, MarkedStates DEF KeepsMade
  <2>2. CASE ~dry_mode
    <3>1. \A k \in S : state[k] = "NotMade"
      BY <1>1, <1>3, RecipeTargets DEF Dorecipe
    <3>2. state' = MarkNodes(state, S, "BeingMade")
      BY <1>3, <2>2, RecipeQueued
    <3> QED
      BY <1>4, <3>1, <3>2 DEF MarkNodes
  <2> QED
    BY <2>1, <2>2
<1>5. pc' = "work" /\ UNCHANGED <<g, goals>>
  BY DEF Dorecipe, NeedsRecipe, AllArcsSeen, Working, loopVars, optVars
<1>6. LoopInv'
  BY <1>1, <1>4, <1>5, LoopKept
<1> QED
  BY <1>2, <1>6

(* main.ml's loops. *)
LEMMA StartPassKeeps ==
  ASSUME TopoInv, ~Failed, StartPass
  PROVE  DataInv' /\ StackInv' /\ LoopInv'
<1>1. TypeOK /\ PlainMkfile /\ DataInv /\ LoopInv
  BY DEF TopoInv, PoolInv, TypeInv
<1>2. /\ pc = "loop" /\ pc' = "work" /\ state[Root] = "NotMade" /\ stack' = <<Call(Root)>>
      /\ UNCHANGED <<graphVars, schedVars, diskVars, loopVars>>
  BY DEF StartPass
<1>3. UNCHANGED <<g, goals, hnodes, state, time, optVars>>
  BY <1>2 DEF graphVars, loopVars, optVars
<1>4. KnownInv'
  BY <1>1, <1>2, <1>3 DEF DataInv, KnownInv
<1>5. DataInv'
  BY <1>1, <1>2, <1>3, <1>4, DataSame
<1>6. StackInv'
  <2>1. Root \in Node /\ Root \in hnodes
    BY <1>1, <1>2, RootIsNode, KnownClosed DEF DataInv
  <2>2. PICK c : c = Call(Root)
    OBVIOUS
  <2>3. FrameInv(c, state, time, hnodes) /\ c.at = "enter"
    BY <1>2, <2>1, <2>2, CalledFrame DEF Call
  <2>4. stack' = <<c>> /\ Len(stack') = 1 /\ stack'[1] = c
    BY <1>2, <2>2
  <2>5. \A i \in 1..Len(stack') : FrameInv(stack'[i], state', time', hnodes')
    <3>1. ASSUME NEW i \in 1..Len(stack') PROVE i = 1
      BY <2>4
    <3> QED
      BY <1>3, <2>3, <2>4, <3>1
  <2>6. ChainInv(stack')
    BY <2>4 DEF ChainInv
  <2>7. ReturnInv(stack', state', time')
    BY <2>3, <2>4 DEF ReturnInv
  <2> QED
    BY <2>5, <2>6, <2>7 DEF StackInv
<1>7. LoopInv'
  BY <1>1, <1>2, <1>3, LoopKept
<1> QED
  BY <1>5, <1>6, <1>7

LEMMA LoopKeeps ==
  ASSUME TopoInv, ~Failed, BuildGraph \/ AfterPass \/ LeaveLoop
  PROVE  DataInv' /\ StackInv' /\ LoopInv'
<1>1. TypeOK /\ PlainMkfile /\ DataInv /\ LoopInv
  BY DEF TopoInv, PoolInv, TypeInv
<1>2. /\ pc' \in {"loop", "wait", "drain"} /\ stack' = <<>> /\ UNCHANGED <<state, g, goals>>
      /\ pc' = "drain" => state[Root] # "NotMade"
  BY <1>1 DEF BuildGraph, AfterPass, LeaveLoop, LoopInv, graphVars, loopVars, optVars
<1>3. DataInv'
  <2>1. CASE BuildGraph
    BY <2>1, BuildGraphData
  <2>2. CASE AfterPass \/ LeaveLoop
    <3>1. UNCHANGED <<graphVars, schedVars, diskVars, optVars>> /\ pc # "graph"
      BY <2>2 DEF AfterPass, LeaveLoop, loopVars
    <3>2. KnownInv'
      BY <1>1, <1>2, <3>1 DEF DataInv, KnownInv, graphVars
    <3> QED
      BY <1>1, <3>1, <3>2, DataSame
  <2> QED
    BY <2>1, <2>2
<1>4. StackInv'
  BY <1>2, EmptyStack
<1>5. LoopInv'
  BY <1>1, <1>2, LoopKept
<1> QED
  BY <1>3, <1>4, <1>5

LEMMA NextGoalKeeps ==
  ASSUME TopoInv, ~Failed, NextGoal
  PROVE  DataInv' /\ StackInv' /\ LoopInv'
<1>1. TypeOK /\ PlainMkfile /\ DataInv /\ LoopInv /\ PoolInv
  BY DEF TopoInv, PoolInv, TypeInv
<1>2. /\ pc = "drain" /\ nrunning = 0 /\ stack' = stack
      /\ UNCHANGED <<graphVars, schedVars, diskVars, optVars>>
      /\ \/ pc' = "graph" /\ g' = g + 1
         \/ pc' = "exit0" /\ g' = g /\ g = Len(goals)
  BY DEF NextGoal
<1>3. UNCHANGED <<hnodes, state, goals, kids, jobs>>
  BY <1>2 DEF graphVars, schedVars, optVars
<1>4. kids = {} /\ jobs = <<>>
  BY <1>1, <1>2, Drained
<1>5. state[Root] = "Made"
  <2>1. state[Root] # "NotMade" /\ state[Root] \in BuildState /\ Root \in Node
    BY <1>1, <1>2, RootIsNode DEF LoopInv, TypeOK
  <2>2. state[Root] # "BeingMade"
    BY <1>1, <1>4, <2>1, NothingActive DEF DataInv
  <2> QED
    BY <2>1, <2>2 DEF BuildState
<1>6. g \in Nat
  BY <1>1, ConstantTypes, LenProperties DEF TypeOK
<1>7. KnownInv'
  <2>1. (IF pc' = "graph" THEN g' - 1 ELSE g') = (IF pc = "graph" THEN g - 1 ELSE g)
    <3>1. CASE pc' = "graph" /\ g' = g + 1
      BY <1>2, <1>6, <3>1
    <3>2. CASE pc' = "exit0" /\ g' = g
      BY <1>2, <3>2
    <3> QED
      BY <1>2, <3>1, <3>2
  <2> QED
    BY <1>1, <1>3, <2>1 DEF DataInv, KnownInv
<1>8. DataInv'
  BY <1>1, <1>2, <1>7, DataSame
<1>9. stack' = <<>>
  BY <1>1, <1>2 DEF LoopInv
<1>10. StackInv'
  BY <1>9, EmptyStack
<1>11. LoopInv'
  <2>1. \A i \in 1..(g - 1) : state[goals[i]] = "Made"
    BY <1>1 DEF LoopInv
  <2>2. CASE pc' = "graph" /\ g' = g + 1
    <3>1. ASSUME NEW i \in 1..(g' - 1) PROVE state[goals[i]] = "Made"
      <4>1. i \in 1..(g - 1) \/ i = g
        BY <1>6, <2>2
      <4> QED
        BY <1>5, <2>1, <4>1 DEF Root
    <3> QED
      BY <1>3, <1>4, <1>9, <2>2, <3>1 DEF LoopInv
  <2>3. CASE pc' = "exit0" /\ g' = g /\ g = Len(goals)
    BY <1>3, <1>4, <1>5, <1>9, <2>1, <2>3 DEF LoopInv, Root
  <2> QED
    BY <1>2, <2>2, <2>3
<1> QED
  BY <1>8, <1>10, <1>11

(* A child is reaped, or ends. *)
LEMMA WaitupKeeps ==
  ASSUME TopoInv, ~Failed, NEW p \in Pid, Waitup(p), pc' # "fail"
  PROVE  DataInv' /\ StackInv' /\ LoopInv'
<1>1. TypeOK /\ LoopInv
  BY DEF TopoInv, PoolInv, TypeInv
<1>2. DataInv' /\ state' = MarkNodes(state, running[p].nodes, "Made")
  BY WaitupData
<1>3. /\ pc \in {"wait", "drain"} /\ pc' = (IF pc = "wait" THEN "loop" ELSE "drain")
      /\ stack' = stack /\ UNCHANGED <<g, goals>>
  BY DEF Waitup, loopVars, optVars
<1>4. stack' = <<>> /\ pc' \in {"loop", "drain"} /\ (pc' = "drain" => pc = "drain")
  BY <1>1, <1>3 DEF LoopInv
<1>5. StackInv'
  BY <1>4, EmptyStack
<1>6. \A n \in Node : state'[n] = "Made" \/ state'[n] = state[n]
  BY <1>2 DEF MarkNodes
<1>7. Root \in Node /\ (pc = "drain" => state[Root] # "NotMade")
  BY <1>1, RootIsNode DEF LoopInv
<1>8. pc' = "drain" => state'[Root] # "NotMade"
  BY <1>4, <1>6, <1>7
<1>9. LoopInv'
  BY <1>1, <1>3, <1>4, <1>6, <1>8, LoopKept
<1> QED
  BY <1>2, <1>5, <1>9

LEMMA ChildEndKeeps ==
  ASSUME TopoInv, ~Failed, NEW p \in Pid, ChildEnd(p)
  PROVE  DataInv' /\ StackInv' /\ LoopInv'
<1>1. TypeOK /\ StackInv /\ LoopInv
  BY DEF TopoInv, PoolInv, TypeInv
<1>2. p \in kids /\ UNCHANGED <<pc, stack, hnodes, state, time, g, goals>>
  BY DEF ChildEnd, graphVars, loopVars, optVars
<1>3. pc \in {"loop", "work", "wait", "drain"}
  BY <1>1, <1>2 DEF LoopInv, TypeOK, Control, Failed
<1>4. StackInv'
  BY <1>1, <1>2 DEF StackInv
<1>5. LoopInv'
  BY <1>1, <1>2, <1>3, LoopKept DEF LoopInv
<1> QED
  BY <1>4, <1>5, ChildEndData

LEMMA TopoStep == TopoInv /\ [Next]_vars => TopoInv'
<1> SUFFICES ASSUME TopoInv, [Next]_vars PROVE TopoInv'
  OBVIOUS
<1>1. PoolInv'
  BY PoolStep DEF TopoInv
<1>2. PlainMkfile' /\ PlainGoals'
  BY OptionsFixed, PlainGoalsFixed DEF TopoInv
<1> SUFFICES ASSUME ~Failed' PROVE DataInv' /\ StackInv' /\ LoopInv'
  BY <1>1, <1>2 DEF TopoInv
<1>3. pc' # "fail" /\ pc' # "exit1"
  BY DEF Failed
<1>4. CASE BuildGraph \/ AfterPass \/ LeaveLoop
  BY <1>4, LoopKeeps DEF BuildGraph, AfterPass, LeaveLoop, Failed
<1>5. CASE StartPass
  BY <1>5, StartPassKeeps DEF StartPass, Failed
<1>6. CASE NextGoal
  BY <1>6, NextGoalKeeps DEF NextGoal, Failed
<1>7. CASE WorkStep
  <2>1. ~Failed
    BY <1>7 DEF WorkStep, WorkBeingMade, WorkLeaf, WorkNode, WorkRecurse, WorkReturned,
                WorkNoDest, WorkNotReady, WorkUpToDate, DorecipeVirtual, DorecipeMissing,
                Dorecipe, NeedsRecipe, AllArcsSeen, AtArc, Working, Failed
  <2>2. ~DorecipeMissing
    BY <1>3 DEF DorecipeMissing
  <2>3. CASE \/ WorkBeingMade \/ WorkNode \/ WorkRecurse \/ WorkReturned
             \/ WorkNoDest \/ WorkNotReady
    BY <2>1, <2>3, MovesKeep
  <2>4. CASE WorkLeaf \/ WorkUpToDate \/ DorecipeVirtual
    BY <1>3, <2>1, <2>4, AcceptLoop DEF Accepting
  <2>5. CASE Dorecipe
    BY <2>1, <2>5, RecipeLoop
  <2> QED
    BY <1>7, <2>2, <2>3, <2>4, <2>5 DEF WorkStep
<1>8. ASSUME NEW p \in Pid, Waitup(p) PROVE DataInv' /\ StackInv' /\ LoopInv'
  BY <1>3, <1>8, WaitupKeeps DEF Waitup, Failed
<1>9. ASSUME NEW p \in Pid, WaitupError(p) \/ FailWait(p) PROVE FALSE
  BY <1>3, <1>9 DEF WaitupError, FailWait
<1>10. ~FailExit
  BY <1>3 DEF FailExit
<1>11. ASSUME NEW p \in Pid, ChildEnd(p) PROVE DataInv' /\ StackInv' /\ LoopInv'
  <2>1. ~Failed
    BY <1>3, <1>11 DEF ChildEnd, Failed
  <2> QED
    BY <1>11, <2>1, ChildEndKeeps
<1>12. CASE UNCHANGED vars
  <2>1. UNCHANGED <<pc, stack, hnodes, state, time, jobs, kids, g, goals>>
    BY <1>12 DEF vars, graphVars, schedVars, loopVars, optVars
  <2>2. DataInv /\ StackInv /\ LoopInv
    BY <1>3, <2>1 DEF TopoInv, Failed
  <2>3. KnownInv'
    BY <2>1, <2>2 DEF DataInv, KnownInv
  <2>4. DataInv'
    BY <1>12, <2>2, <2>3, DataSame DEF vars, loopVars
  <2> QED
    BY <2>1, <2>2, <2>4 DEF StackInv, LoopInv, Root
<1> QED
  BY <1>4, <1>5, <1>6, <1>7, <1>8, <1>9, <1>10, <1>11, <1>12 DEF Next, MkStep, Exited

LEMMA TopoInit == Init /\ PlainMkfile /\ PlainGoals => TopoInv
<1> SUFFICES ASSUME Init, PlainMkfile, PlainGoals PROVE TopoInv
  OBVIOUS
<1>1. PoolInv /\ TypeOK
  BY PoolInit DEF PoolInv, TypeInv
<1>2. /\ pc = "graph" /\ g = 1 /\ stack = <<>> /\ hnodes = {} /\ jobs = <<>> /\ kids = {}
      /\ state = [n \in Node |-> "NotMade"] /\ time = [n \in Node |-> NoTime]
      /\ mtime \in InitTimes /\ clock = Start
  BY DEF Init
<1>3. KnownInv
  BY <1>2 DEF KnownInv
<1>4. ClockInv
  BY <1>2, ConstantTypes DEF ClockInv, PlainMkfile, NoTime, VirtualTime
<1>5. MadeInv /\ BeingMadeInv /\ SeenInv
  BY <1>2 DEF MadeInv, BeingMadeInv, SeenInv
<1>6. TwinsInv
  BY <1>2, TwinsAlike DEF TwinsInv
<1>7. JobsInv
  <2>1. Len(jobs) = 0
    BY <1>2
  <2> QED
    BY <1>2, <2>1 DEF JobsInv, Slots, QueueInv
<1>8. StackInv
  <2>1. Len(stack) = 0
    BY <1>2
  <2> QED
    BY <1>2, <2>1 DEF StackInv, ChainInv, ReturnInv
<1>9. LoopInv
  BY <1>2 DEF LoopInv
<1> QED
  BY <1>1, <1>3, <1>4, <1>5, <1>6, <1>7, <1>8, <1>9 DEF TopoInv, DataInv

(***************************************************************************)
(* Exiting with status 0.                                                  *)
(***************************************************************************)

LEMMA ExitIsUpToDate == TopoInv => ExitUpToDate
<1> SUFFICES ASSUME TopoInv, pc = "exit0", ~dry_mode,
                    NEW t \in Range(goals), NEW n \in Reach[t]
             PROVE  /\ state[n] = "Made"
                    /\ n \notin IsVirtual => mtime[n] # NoTime
                    /\ \A m \in Dest(n) : {n, m} \cap IsVirtual = {} => mtime[m] <= mtime[n]
  BY DEF ExitUpToDate
<1>1. TypeOK /\ DataInv /\ LoopInv
  BY DEF TopoInv, PoolInv, TypeInv, Failed
<1>2. /\ Len(goals) \in Nat /\ g \in 1..Len(goals) /\ g = Len(goals)
      /\ \A i \in 1..Len(goals) : goals[i] \in Node
  BY <1>1, KnownClosed DEF DataInv, LoopInv
<1>3. state[Root] = "Made"
  <2>1. state[Root] # "NotMade" /\ state[Root] \in BuildState /\ Root \in Node
    BY <1>1, RootIsNode DEF LoopInv, TypeOK
  <2>2. state[Root] # "BeingMade"
    BY <1>1, <2>1, NothingActive DEF DataInv, LoopInv
  <2> QED
    BY <2>1, <2>2 DEF BuildState
<1>4. ASSUME NEW i \in 1..Len(goals) PROVE state[goals[i]] = "Made"
  <2>1. i = g \/ i \in 1..(g - 1)
    BY <1>2
  <2> QED
    BY <1>1, <1>3, <2>1 DEF LoopInv, Root
<1>5. t \in Node /\ state[t] = "Made"
  <2>1. DOMAIN goals = 1..Len(goals)
    BY <1>1, ConstantTypes, LenProperties DEF TypeOK
  <2> QED
    BY <1>2, <1>4, <2>1 DEF Range
<1>6. PICK M : M = {k \in Node : state[k] = "Made"}
  OBVIOUS
<1>7. M \in SUBSET Node /\ t \in M /\ Closed(M)
  BY <1>1, <1>5, <1>6, DestType DEF DataInv, MadeInv, Closed
<1>8. n \in M
  BY <1>5, <1>7, ReachIsLeast
<1>9. \A k \in M : k \in hnodes /\ (k \notin IsVirtual => time[k] = mtime[k])
  BY <1>1, <1>6 DEF DataInv, KnownInv, SeenInv
<1>10. \A m \in Dest(n) : m \in M
  BY <1>7, <1>8 DEF Closed
<1>11. ASSUME n \notin IsVirtual
       PROVE  time[n] # NoTime /\ \A m \in Dest(n) : ~Late(n, m, time)
  BY <1>1, <1>6, <1>8, <1>11 DEF DataInv, MadeInv
<1>12. ASSUME NEW m \in Dest(n), {n, m} \cap IsVirtual = {} PROVE mtime[m] <= mtime[n]
  <2>1. n \notin IsVirtual /\ m \notin IsVirtual
    BY <1>12
  <2>2. ~(time[n] < time[m]) /\ time[n] \in Nat /\ time[m] \in Nat
    BY <1>1, <1>6, <1>8, <1>10, <1>11, <2>1 DEF Late, TypeOK
  <2>3. time[n] = mtime[n] /\ time[m] = mtime[m]
    BY <1>8, <1>9, <1>10, <2>1
  <2> QED
    BY <2>2, <2>3
<1> QED
  BY <1>6, <1>8, <1>9, <1>11, <1>12

(* For every plain mkfile and command line: mk exits with status 0 only    *)
(* when everything the targets depend on has been made, exists on disk and *)
(* is not older there than what it is made from.  mk decides this from the *)
(* times it read when it built the graph or reaped a recipe (graph.ml,     *)
(* update; outofdate.ml, work), never from the disk.                       *)
THEOREM ExitMeansUpToDate == PlainMkfile /\ PlainGoals /\ Spec => []ExitUpToDate
  BY ExitIsUpToDate, TopoInit, TopoStep, PTL DEF Spec

(***************************************************************************)
(* What a step does to the states of the nodes.                            *)
(***************************************************************************)
Finishes(S) ==
  /\ \A n \in S : n \in Node /\ state[n] # "BeingMade" /\ \A m \in Dest(n) : state[m] = "Made"
  /\ state' = MarkNodes(state, S, "Made")

Ends(S) ==
  /\ \A n \in S : n \in Node /\ state[n] = "BeingMade"
  /\ state' = MarkNodes(state, S, "Made")

Starts(n, S) ==
  /\ ~dry_mode /\ DataInv /\ StackInv /\ NeedsRecipe /\ n = Top.node /\ n \in S
  /\ S = Range(AllTargets[MasterRule(n)]) \cap hnodes
  /\ \A k \in S : /\ k \in Node /\ state[k] = "NotMade" /\ MasterRule(k) = MasterRule(n)
                  /\ \A m \in Dest(k) : state[m] = "Made"
  /\ state' = MarkNodes(state, S, "BeingMade")

LEMMA StateMoves ==
  ASSUME TopoInv, [Next]_vars
  PROVE  \/ state' = state
         \/ \E S : Finishes(S)
         \/ \E S : Ends(S)
         \/ \E n, S : Starts(n, S)
<1>1. TypeOK /\ PlainMkfile /\ PlainGoals
  BY DEF TopoInv, PoolInv, TypeInv
<1>2. CASE \/ BuildGraph \/ StartPass \/ AfterPass \/ LeaveLoop \/ NextGoal \/ FailExit
           \/ UNCHANGED vars
  BY <1>2 DEF BuildGraph, StartPass, AfterPass, LeaveLoop, NextGoal, FailExit, vars, graphVars
<1>3. CASE \/ WorkBeingMade \/ WorkNode \/ WorkRecurse \/ WorkReturned \/ WorkNoDest
           \/ WorkNotReady \/ DorecipeMissing
  BY <1>3 DEF WorkBeingMade, WorkNode, WorkRecurse, WorkReturned, WorkNoDest, WorkNotReady,
              DorecipeMissing, graphVars
<1>4. CASE WorkLeaf \/ WorkUpToDate \/ DorecipeVirtual
  <2>1. DataInv /\ StackInv
    BY <1>4 DEF TopoInv, Failed, WorkLeaf, WorkUpToDate, DorecipeVirtual, NeedsRecipe,
                AllArcsSeen, Working
  <2>2. CASE Accepting
    <3>1. Marked({Top.node})
      BY <1>1, <2>1, <2>2, AcceptMarks
    <3>2. Finishes({Top.node})
      BY <1>1, <3>1 DEF Marked, Finishes, TypeOK
    <3> QED
      BY <3>2
  <2>3. CASE ~Accepting
    BY <1>4, <2>3 DEF Accepting, WorkLeaf, Working
  <2> QED
    BY <2>2, <2>3
<1>5. CASE Dorecipe
  <2>1. NeedsRecipe /\ RecipeArcs(Top.node) # {} /\ ~Failed
    BY <1>5 DEF Dorecipe, NeedsRecipe, AllArcsSeen, Working, Failed
  <2>2. DataInv /\ StackInv
    BY <2>1 DEF TopoInv
  <2>3. PICK n, S : n = Top.node /\ S = JobFor(n).nodes
    OBVIOUS
  <2>4. CASE dry_mode
    <3>1. Marked(S)
      BY <1>5, <2>1, <2>3, <2>4, DryRecipeMarks
    <3>2. Finishes(S)
      BY <1>1, <3>1 DEF Marked, Finishes, TypeOK
    <3> QED
      BY <3>2
  <2>5. CASE ~dry_mode
    <3>1. state' = MarkNodes(state, S, "BeingMade")
      BY <1>5, <2>1, <2>3, <2>5, RecipeQueued
    <3>2. /\ n \in S /\ S = Range(AllTargets[MasterRule(n)]) \cap hnodes
          /\ \A k \in S : /\ state[k] = "NotMade" /\ MasterRule(k) = MasterRule(n)
                          /\ \A m \in Dest(k) : state[m] = "Made"
      BY <1>1, <2>1, <2>2, <2>3, RecipeTargets
    <3>3. \A k \in S : k \in Node
      BY <1>1, <3>2 DEF TypeOK
    <3>4. Starts(n, S)
      BY <2>1, <2>2, <2>3, <2>5, <3>1, <3>2, <3>3 DEF Starts
    <3> QED
      BY <3>4
  <2> QED
    BY <2>4, <2>5
<1>6. ASSUME NEW p \in Pid, Waitup(p) PROVE \E S : Ends(S)
  <2>1. CASE pc' # "fail"
    <3>1. Ends(running[p].nodes)
      BY <1>6, <2>1, WaitupData DEF Ends
    <3> QED
      BY <3>1
  <2>2. CASE pc' = "fail"
    <3>1. PICK S : S = UpdatedNodes(running[p])
      OBVIOUS
    <3>2. state' = MarkNodes(state, S, "Made")
      BY <1>6, <2>2, <3>1 DEF Waitup, SetGlobals
    <3>3. S \subseteq running[p].nodes
      BY <3>1 DEF UpdatedNodes
    <3>4. p \in kids /\ ~Failed
      BY <1>6 DEF Waitup, Reap, Failed
    <3>5. GoodJob(running[p], state, hnodes)
      BY <3>4 DEF TopoInv, DataInv, JobsInv, KidInv
    <3>6. \A n \in running[p].nodes : n \in Node /\ state[n] = "BeingMade"
      BY <1>1, <3>5, JobNodes
    <3>7. Ends(S)
      BY <3>2, <3>3, <3>6 DEF Ends
    <3> QED
      BY <3>7
  <2> QED
    BY <2>1, <2>2
<1>7. ASSUME NEW p \in Pid, WaitupError(p) \/ FailWait(p) \/ ChildEnd(p) PROVE state' = state
  BY <1>7 DEF WaitupError, FailWait, ChildEnd, graphVars
<1> QED
  BY <1>2, <1>3, <1>4, <1>5, <1>6, <1>7 DEF Next, MkStep, WorkStep, Exited

(***************************************************************************)
(* Recipes are run only where they are needed.                             *)
(***************************************************************************)

LEMMA StaleStep ==
  ASSUME TopoInv, [Next]_vars,
         NEW n \in Node, state[n] # "BeingMade", state'[n] = "BeingMade"
  PROVE  \E m \in Range(AllTargets[MasterRule(n)]) : m \in IsVirtual \/ Stale(m)
<1>1. TypeOK
  BY DEF TopoInv, PoolInv, TypeInv
<1>2. PICK m, S : Starts(m, S)
  BY <1>1, StateMoves DEF Finishes, Ends, MarkNodes
<1>3. /\ ~dry_mode /\ DataInv /\ StackInv /\ NeedsRecipe /\ m = Top.node /\ m \in S
      /\ S = Range(AllTargets[MasterRule(m)]) \cap hnodes
      /\ state[m] = "NotMade" /\ m \in Node /\ n \in S /\ MasterRule(n) = MasterRule(m)
  BY <1>2 DEF Starts, MarkNodes
<1>4. m \in Range(AllTargets[MasterRule(n)]) /\ m \in hnodes
  BY <1>3
<1>5. ASSUME m \notin IsVirtual PROVE Stale(m)
  <2>1. time[m] = mtime[m]
    BY <1>3, <1>4, <1>5 DEF DataInv, SeenInv
  <2>2. \/ time[m] = NoTime
        \/ \E k \in Dest(m) : state[k] = "Made" /\ Late(m, k, time)
    BY <1>1, <1>3, AllSeen DEF NeedsRecipe
  <2>3. ASSUME NEW k \in Dest(m), state[k] = "Made", Late(m, k, time) PROVE mtime[m] < mtime[k]
    <3>1. k \in Node /\ k \notin IsVirtual /\ time[m] < time[k]
      BY <1>3, <2>3, DestType DEF Late
    <3>2. k \in hnodes
      BY <1>3, <2>3, <3>1 DEF DataInv, KnownInv
    <3>3. time[k] = mtime[k]
      BY <1>3, <2>3, <3>1, <3>2 DEF DataInv, SeenInv
    <3> QED
      BY <2>1, <3>1, <3>3
  <2> QED
    BY <2>1, <2>2, <2>3 DEF Stale
<1> QED
  BY <1>4, <1>5

(* For every plain mkfile and command line: a recipe is queued only when   *)
(* one of the targets it makes is virtual, missing, or older on disk than  *)
(* one of its prerequisites.  outofdate.ml decides from the times of the   *)
(* graph, which children that are still writing make stale.                *)
THEOREM RecipesAreNeeded == PlainMkfile /\ PlainGoals /\ Spec => OnlyStaleRebuilt
<1>1. TopoInv /\ [Next]_vars =>
        [\A n \in Node : state[n] # "BeingMade" /\ state'[n] = "BeingMade" =>
           \E m \in Range(AllTargets[MasterRule(n)]) : m \in IsVirtual \/ Stale(m)]_vars
  BY StaleStep
<1> QED
  BY <1>1, TopoInit, TopoStep, PTL DEF Spec, OnlyStaleRebuilt

(***************************************************************************)
(* The build loop implements TopoBuild.                                    *)
(***************************************************************************)

LEMMA MovedAre ==
  ASSUME TypeOK, NEW S, NEW v, \A n \in S : n \in Node, state' = MarkNodes(state, S, v),
         NEW M, M = {n \in Node : state'[n] # state[n]}
  PROVE  /\ M \subseteq S /\ \A n \in M : state[n] # v
         /\ state' = [n \in Node |-> IF n \in M THEN v ELSE state[n]]
         /\ M = {} => state' = state
<1>1. state \in [Node -> BuildState]
  BY DEF TypeOK
<1>2. \A n \in Node : state'[n] = IF n \in S THEN v ELSE state[n]
  BY DEF MarkNodes
<1>3. M \subseteq S /\ \A n \in M : state[n] # v
  BY <1>2
<1>4. state' = [n \in Node |-> IF n \in M THEN v ELSE state[n]]
  BY <1>2 DEF MarkNodes
<1> QED
  BY <1>1, <1>3, <1>4

LEMMA TopoSteps == TopoInv /\ [Next]_vars => [Topo!Next]_state
<1> SUFFICES ASSUME TopoInv, [Next]_vars, state' # state PROVE Topo!Next
  OBVIOUS
<1>1. TypeOK
  BY DEF TopoInv, PoolInv, TypeInv
<1>2. PICK M : M = {n \in Node : state'[n] # state[n]}
  OBVIOUS
<1>3. Topo!Moved = M
  BY <1>2 DEF Topo!Moved
<1>4. ASSUME NEW S, Finishes(S) PROVE Topo!Accept(M)
  <2>1. /\ M \subseteq S /\ \A n \in M : state[n] # "Made"
        /\ state' = [n \in Node |-> IF n \in M THEN "Made" ELSE state[n]]
        /\ M # {}
    BY <1>1, <1>2, <1>4, MovedAre DEF Finishes
  <2>2. \A n \in M : state[n] = "NotMade" /\ \A m \in Dest(n) : state[m] = "Made"
    BY <1>1, <1>2, <1>4, <2>1 DEF Finishes, TypeOK, BuildState
  <2> QED
    BY <2>1, <2>2 DEF Topo!Accept, Topo!Settled, Topo!Move
<1>5. ASSUME NEW S, Ends(S) PROVE Topo!End(M)
  <2>1. /\ M \subseteq S
        /\ state' = [n \in Node |-> IF n \in M THEN "Made" ELSE state[n]]
        /\ M # {}
    BY <1>1, <1>2, <1>5, MovedAre DEF Ends
  <2>2. \A n \in M : state[n] = "BeingMade"
    BY <1>5, <2>1 DEF Ends
  <2> QED
    BY <2>1, <2>2 DEF Topo!End, Topo!Move
<1>6. ASSUME NEW n, NEW S, Starts(n, S) PROVE Topo!Begin(M)
  <2>0. state' = MarkNodes(state, S, "BeingMade") /\ \A k \in S : k \in Node
    BY <1>6 DEF Starts
  <2>1. /\ M \subseteq S
        /\ state' = [k \in Node |-> IF k \in M THEN "BeingMade" ELSE state[k]]
        /\ M # {}
    BY <1>1, <1>2, <2>0, MovedAre
  <2>2. \A k \in M : state[k] = "NotMade" /\ \A m \in Dest(k) : state[m] = "Made"
    BY <1>6, <2>1 DEF Starts
  <2> QED
    BY <2>1, <2>2 DEF Topo!Begin, Topo!Settled, Topo!Move
<1> QED
  BY <1>3, <1>4, <1>5, <1>6, StateMoves DEF Topo!Next

(* For every plain mkfile and command line, every order in which the       *)
(* recipes end and every failure: mk makes each node once, after all it    *)
(* depends on, and nothing it depends on moves from the moment its recipe  *)
(* is queued.  Every pass visits again the nodes that are made (outofdate, *)
(* work, has no early return for them); none of them is made again.        *)
THEOREM BuildIsTopological == PlainMkfile /\ PlainGoals /\ Spec => ImplementsTopoBuild
<1>1. Init => Topo!Init
  BY DEF Init, Topo!Init
<1> QED
  BY <1>1, TopoSteps, TopoInit, TopoStep, PTL DEF Spec, ImplementsTopoBuild, Topo!Spec

=============================================================================

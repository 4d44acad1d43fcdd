------------------------------ MODULE MkGraph ------------------------------
(***************************************************************************)
(* How mk builds the dependency graph of a target (src/mk/graph.ml), from  *)
(* the rules that src/mk/eval.ml registers and the patterns of             *)
(* src/mk/percent.ml.  build_graph is a sequence of passes over a graph of *)
(* mutable nodes; one step of this specification is one whole pass, and    *)
(* the recursive functions of the code are recursive operators that thread *)
(* the arcs they modify.                                                   *)
(***************************************************************************)
EXTENDS Integers, Sequences, FiniteSets, SequencesExt

CONSTANTS
  Pool,      \* rules a mkfile may contain, in the order of the file
  Disk,      \* files that may exist
  Root,      \* the target asked for
  NoNode,    \* None as the destination of an arc
  NoStem     \* None as the stem of a rule

(***************************************************************************)
(* A name is a stem and a suffix; a pattern is a name whose stem may be    *)
(* the percent sign.  A rule is a record of a location (its index in the   *)
(* mkfile), targets, prereqs, recipe (is there one?) and the attribute V.  *)
(***************************************************************************)
Percent == "%"
HasPercent(pat) == pat.stem = Percent

(* Percent.match_ for a pattern %suffix: the stem, or NoStem *)
match_(pat, name) ==
  IF HasPercent(pat) /\ pat.suffix = name.suffix THEN name.stem ELSE NoStem

(* Percent.subst; a pattern without percent stands for itself *)
subst(pat, stem) == IF HasPercent(pat) THEN [pat EXCEPT !.stem = stem] ELSE pat

VARIABLES
  mkfile,      \* the rules of the mkfile
  files,       \* the files that exist
  phase,       \* the pass that build_graph is about to run
  simples, metas,  \* Rules.rules: the last registered rule comes first
  hnodes,      \* the nodes created by apply_rules
  arcs,        \* node.arcs
  probable, is_virtual,  \* nodes with these flags
  error        \* the Failure that ended build_graph, or "none"

vars == <<mkfile, files, phase, simples, metas, hnodes, arcs, probable, is_virtual, error>>

SetOf(seq) == {seq[i] : i \in DOMAIN seq}
Map(Op(_), seq) == [i \in DOMAIN seq |-> Op(seq[i])]

(* Rules.is_meta *)
IsMeta(rule) == \E pat \in SetOf(rule.targets) : HasPercent(pat)

(***************************************************************************)
(* eval.ml: a rule is registered under each of its targets.  Hashtbl.add   *)
(* hides the previous binding and metas are pushed: the last rule of the   *)
(* mkfile is found first.                                                  *)
(***************************************************************************)
Init ==
  /\ \E locs \in SUBSET DOMAIN Pool :
       mkfile = SelectSeq(Pool, LAMBDA r : r.loc \in locs)
  /\ files \in SUBSET Disk
  /\ phase = "eval" /\ error = "none"
  /\ simples = <<>> /\ metas = <<>>
  /\ hnodes = {} /\ arcs = <<>> /\ probable = {} /\ is_virtual = {}

Eval ==
  /\ phase = "eval" /\ phase' = "apply"
  /\ simples' = Reverse(SelectSeq(mkfile, LAMBDA r : ~IsMeta(r)))
  /\ metas' = Reverse(SelectSeq(mkfile, IsMeta))
  /\ UNCHANGED <<mkfile, files, hnodes, arcs, probable, is_virtual, error>>

(***************************************************************************)
(* graph.ml: apply_rules.                                                  *)
(***************************************************************************)
FindAll(target) == SelectSeq(simples, LAMBDA r : target \in SetOf(r.targets))

(* { dest; rule = rule_exec r } : the rule and the stem identify rule_exec *)
Arc(dest, rule, stem) == [dest |-> dest, rule |-> rule, stem |-> stem]

RuleArcs(rule, stem) ==
  IF rule.prereqs = <<>> THEN <<Arc(NoNode, rule, stem)>>
  ELSE Map(LAMBDA pat : Arc(subst(pat, stem), rule, stem), rule.prereqs)

(* a simple rule with neither prerequisite nor recipe adds nothing *)
SimpleArcs(rule) ==
  IF rule.prereqs = <<>> /\ ~rule.recipe THEN <<>> ELSE RuleArcs(rule, NoStem)

MetaArcs(rule, target) ==
  LET stems == Map(LAMBDA pat : match_(pat, target), rule.targets)
      hits == SelectSeq(stems, LAMBDA s : s # NoStem)
  IN FlattenSeq(Map(LAMBDA s : RuleArcs(rule, s), hits))

ArcsOf(target) ==
  FlattenSeq(Map(SimpleArcs, FindAll(target)))
    \o FlattenSeq(Map(LAMBDA r : MetaArcs(r, target), metas))

(* the nodes in the table after apply_rules(target), from those in it before *)
RECURSIVE apply_rules(_, _)
apply_rules(target, nodes) ==
  IF target \in nodes THEN nodes
  ELSE FoldLeft(LAMBDA known, a : IF a.dest = NoNode THEN known
                                  ELSE apply_rules(a.dest, known),
                nodes \cup {target}, ArcsOf(target))

(* Mutation of ApplyRules: the target of a simple rule is not probable. *)
ApplyRulesFilesOnly ==
  /\ phase = "apply" /\ phase' = "cycle"
  /\ hnodes' = apply_rules(Root, hnodes)
  /\ arcs' = [n \in hnodes' |-> ArcsOf(n)]
  /\ probable' = hnodes' \cap files
  /\ UNCHANGED <<mkfile, files, simples, metas, is_virtual, error>>

ApplyRules ==
  /\ phase = "apply" /\ phase' = "cycle"
  /\ hnodes' = apply_rules(Root, hnodes)
  /\ arcs' = [n \in hnodes' |-> ArcsOf(n)]
  /\ probable' = {n \in hnodes' : n \in files \/ FindAll(n) # <<>>}
  /\ UNCHANGED <<mkfile, files, simples, metas, is_virtual, error>>

Dests(seq) == {seq[i].dest : i \in DOMAIN seq} \ {NoNode}

(***************************************************************************)
(* graph.ml: check_cycle.  `visited' marks the nodes of the current path.  *)
(***************************************************************************)
(* Mutation of check_cycle: only a node that is its own prerequisite. *)
check_cycle_self(n, visited) == n \in Dests(arcs[n])

RECURSIVE check_cycle(_, _)
check_cycle(n, visited) ==
  \/ n \in visited
  \/ \E m \in Dests(arcs[n]) : check_cycle(m, visited \cup {n})

CheckCycle ==
  /\ phase = "cycle"
  /\ IF check_cycle(Root, {})
     THEN error' = "cycle" /\ phase' = "failed"
     ELSE phase' = "vacuous" /\ UNCHANGED error
  /\ UNCHANGED <<mkfile, files, simples, metas, hnodes, arcs, probable, is_virtual>>

(***************************************************************************)
(* graph.ml: vacuous drops the arcs of meta rules to nodes that nothing    *)
(* can make.  A node reached twice is examined twice, the second time with *)
(* the arcs that the first visit left.                                     *)
(***************************************************************************)
RECURSIVE vacuous(_, _, _)
vacuous(n, prob, A) ==
  LET Examine(acc, a) ==
        IF a.dest = NoNode
        THEN [acc EXCEPT !.vac = FALSE, !.kept = Append(@, a)]
        ELSE LET sub == vacuous(a.dest, prob, acc.arcs)
             IN IF sub.vac /\ IsMeta(a.rule) THEN [acc EXCEPT !.arcs = sub.arcs]
                ELSE [vac |-> FALSE, kept |-> Append(acc.kept, a), arcs |-> sub.arcs]
      res == FoldLeft(Examine, [vac |-> n \notin prob, kept |-> <<>>, arcs |-> A], A[n])
  IN [vac |-> res.vac, arcs |-> [res.arcs EXCEPT ![n] = res.kept]]

Vacuous ==
  /\ phase = "vacuous" /\ phase' = "ambiguous"
  /\ probable' = probable \cup {Root}
  /\ arcs' = vacuous(Root, probable', arcs).arcs
  /\ UNCHANGED <<mkfile, files, simples, metas, hnodes, is_virtual, error>>

(***************************************************************************)
(* graph.ml: check_ambiguous.  With several recipes for a node, the one of *)
(* a simple rule wins and every arc of a meta rule is dropped.             *)
(***************************************************************************)
Groups(seq) == {<<seq[i].rule, seq[i].stem>> : i \in {j \in DOMAIN seq : seq[j].rule.recipe}}
(* Mutation of SimpleGroups: the test for patterns is inverted. *)
SimpleGroupsSwapped(seq) == {grp \in Groups(seq) : IsMeta(grp[1])}

SimpleGroups(seq) == {grp \in Groups(seq) : ~IsMeta(grp[1])}

RECURSIVE check_ambiguous(_, _)
check_ambiguous(n, A) ==
  LET sub == FoldLeft(LAMBDA acc, a : IF acc.ok /\ a.dest # NoNode
                                      THEN check_ambiguous(a.dest, acc.arcs) ELSE acc,
                      [ok |-> TRUE, arcs |-> A], A[n])
      seq == sub.arcs[n]
  IN IF ~sub.ok \/ Cardinality(Groups(seq)) < 2 THEN sub
     ELSE IF Cardinality(SimpleGroups(seq)) # 1 THEN [sub EXCEPT !.ok = FALSE]
     ELSE [sub EXCEPT !.arcs = [@ EXCEPT ![n] = SelectSeq(@, LAMBDA a : ~IsMeta(a.rule))]]

CheckAmbiguous ==
  /\ phase = "ambiguous"
  /\ LET res == check_ambiguous(Root, arcs)
     IN IF res.ok
        THEN phase' = "propagate" /\ arcs' = res.arcs /\ UNCHANGED error
        ELSE phase' = "failed" /\ error' = "ambiguous" /\ arcs' = res.arcs
  /\ UNCHANGED <<mkfile, files, simples, metas, hnodes, probable, is_virtual>>

(***************************************************************************)
(* graph.ml: propagate_attributes visits what is left of the graph.        *)
(***************************************************************************)
RECURSIVE propagate_attributes(_)
propagate_attributes(n) ==
  (IF \E i \in DOMAIN arcs[n] : arcs[n][i].rule.virtual THEN {n} ELSE {})
    \cup UNION {propagate_attributes(m) : m \in Dests(arcs[n])}

PropagateAttributes ==
  /\ phase = "propagate" /\ phase' = "done"
  /\ is_virtual' = propagate_attributes(Root)
  /\ UNCHANGED <<mkfile, files, simples, metas, hnodes, arcs, probable, error>>

Finished == phase \in {"done", "failed"} /\ UNCHANGED vars

Next == \/ Eval \/ ApplyRules \/ CheckCycle \/ Vacuous \/ CheckAmbiguous
        \/ PropagateAttributes \/ Finished

Spec == Init /\ [][Next]_vars

-----------------------------------------------------------------------------
(***************************************************************************)
(* Properties: each pass against a definition that does not follow the     *)
(* code's recursion.                                                       *)
(***************************************************************************)

(* The nodes reachable along A from the set S: the smallest closed superset *)
From(A, S) ==
  {m \in hnodes : \A T \in SUBSET hnodes :
     S \subseteq T /\ (\A n \in T : Dests(A[n]) \subseteq T) => m \in T}
Reachable(A) == From(A, {Root})

(* What the mkfile says a target is made from, rule by rule. *)
Mentions(rule, t, m) ==
  \E i \in DOMAIN rule.targets, j \in DOMAIN rule.prereqs :
    LET pat == rule.targets[i]  pre == rule.prereqs[j]
    IN \/ ~IsMeta(rule) /\ pat = t /\ pre = m
       \/ IsMeta(rule) /\ pat.suffix = t.suffix /\ HasPercent(pat)
            /\ m = IF HasPercent(pre) THEN [stem |-> t.stem, suffix |-> pre.suffix] ELSE pre

(* apply_rules creates the nodes that the mkfile makes reachable from the  *)
(* target, and an arc for every prerequisite and no other.                 *)
ApplyRulesComplete ==
  phase = "cycle" =>
    /\ Reachable(arcs) = hnodes
    /\ \A n \in hnodes :
         Dests(arcs[n]) = {m \in hnodes : \E i \in DOMAIN mkfile : Mentions(mkfile[i], n, m)}

(* check_cycle fails iff a node reachable from the target depends on       *)
(* itself; otherwise the recursive passes that follow end.                 *)
CycleDetected ==
  phase \in {"vacuous", "failed"} /\ error # "ambiguous" =>
    ((error = "cycle") <=> \E n \in hnodes : n \in From(arcs, Dests(arcs[n])))

(* A node nothing leads to: from it no chain of arcs reaches a file, the   *)
(* root, the target of a simple rule or a rule without prerequisite.       *)
NamedTarget(t) ==
  \E i \in DOMAIN mkfile : ~IsMeta(mkfile[i]) /\ t \in SetOf(mkfile[i].targets)

Hopeless ==
  LET A == [n \in hnodes |-> ArcsOf(n)]
  IN {n \in hnodes : \A m \in From(A, {n}) :
        /\ m \notin files /\ m # Root /\ ~NamedTarget(m)
        /\ \A i \in DOMAIN A[m] : A[m][i].dest # NoNode}

(* The graph is the mkfile's: apply_rules makes all its nodes and arcs,    *)
(* and vacuous removes exactly the arcs of meta rules that lead to a       *)
(* hopeless node, although it visits shared nodes several times and        *)
(* changes them between two visits. It is never run on a cyclic graph,     *)
(* where its unmarked recursion would not end, and no other is refused.    *)
VacuousExact ==
  /\ ApplyRulesComplete
  /\ CycleDetected
  /\ phase = "ambiguous" =>
       LET hopeless == Hopeless
       IN \A n \in hnodes :
            arcs[n] = SelectSeq(ArcsOf(n), LAMBDA a : ~(IsMeta(a.rule) /\ a.dest \in hopeless))

Specialised(t) ==
  \E i \in DOMAIN mkfile : /\ ~IsMeta(mkfile[i]) /\ mkfile[i].recipe
                           /\ t \in SetOf(mkfile[i].targets)

(* Every target of the rule that makes a node is made by that same rule,   *)
(* so that the jobs of MkBuild never make a node that has another recipe,  *)
(* unless a simple rule specialises some but not all targets of a pattern. *)
TargetsShareRule(n) ==
  \A grp \in Groups(arcs[n]) :
    LET others == {subst(pat, grp[2]) : pat \in SetOf(grp[1].targets)}
    IN \/ IsMeta(grp[1]) /\ (\E t \in others : Specialised(t))
       \/ \A t \in others \cap Reachable(arcs) : Groups(arcs[t]) = {grp}

(* When build_graph succeeds every node it left in the graph has at most   *)
(* one recipe, which a pattern does not displace if a simple rule gives it *)
(* and which also makes the other targets of its rule.                     *)
OneRecipePerNode ==
  phase = "done" => \A n \in Reachable(arcs) :
    /\ Cardinality(Groups(arcs[n])) <= 1
    /\ \A i \in DOMAIN mkfile :
         ~IsMeta(mkfile[i]) /\ mkfile[i].recipe /\ n \in SetOf(mkfile[i].targets) =>
           Groups(arcs[n]) = {<<mkfile[i], NoStem>>}
    /\ TargetsShareRule(n)
=============================================================================

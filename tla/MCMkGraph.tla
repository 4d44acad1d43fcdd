----------------------------- MODULE MCMkGraph -----------------------------
(* A pool of rules for model checking MkGraph: every subset is a mkfile.   *)
EXTENDS MkGraph

Name(s, x) == [stem |-> s, suffix |-> x]
Pat(x) == Name(Percent, x)
rule(loc, ts, ps, rec, virt) ==
  [loc |-> loc, targets |-> ts, prereqs |-> ps, recipe |-> rec, virtual |-> virt]

all == Name("all", "")
fo == Name("f", ".o")
fc == Name("f", ".c")
fy == Name("f", ".y")
fs == Name("f", ".s")
fh == Name("f", ".h")
fd == Name("f", ".d")

MCRoot == all
MCDisk == {fc, fy, fs, fh}
MCPool == <<
  rule(1, <<all>>, <<fo, fd>>, FALSE, TRUE),       \* all:V: f.o f.d
  rule(2, <<fo>>, <<fh>>, FALSE, FALSE),           \* f.o: f.h
  rule(3, <<fo, fd>>, <<fc>>, TRUE, FALSE),        \* f.o f.d: f.c      recipe
  rule(4, <<fo>>, <<fs>>, TRUE, FALSE),            \* f.o: f.s          recipe
  rule(5, <<Pat(".o")>>, <<Pat(".c")>>, TRUE, FALSE),   \* %.o: %.c     recipe
  rule(6, <<Pat(".o"), Pat(".d")>>, <<Pat(".s")>>, TRUE, FALSE),  \* %.o %.d: %.s  recipe
  rule(7, <<Pat(".c")>>, <<Pat(".y")>>, TRUE, FALSE),   \* %.c: %.y     recipe
  rule(8, <<fy>>, <<fo>>, FALSE, FALSE),           \* f.y: f.o
  rule(9, <<fd, fs>>, <<>>, FALSE, FALSE),         \* f.d f.s:
  rule(10, <<fh>>, <<>>, TRUE, TRUE)               \* f.h:V:            recipe
>>
=============================================================================

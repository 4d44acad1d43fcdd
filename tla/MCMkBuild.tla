----------------------------- MODULE MCMkBuild -----------------------------
(* Mkfiles for model checking MkBuild. *)
EXTENDS MkBuild

arc(d, r) == [dest |-> d, rule |-> r]

(***************************************************************************)
(* all:V: prog            prog: a.o y.o        a.o: a.c y.h                *)
(* y.o: y.c               y.c y.h: y.y                                     *)
(* The usual shape: a virtual root, a diamond, and a parser generator that *)
(* makes two files at once.                                                *)
(***************************************************************************)
YaccNode == {"all", "prog", "a.o", "y.o", "a.c", "y.c", "y.h", "y.y"}
YaccRule == {"Rall", "Rprog", "Rao", "Ryo", "Ryacc"}
YaccArcs == [n \in YaccNode |->
  CASE n = "all"  -> <<arc("prog", "Rall")>>
    [] n = "prog" -> <<arc("a.o", "Rprog"), arc("y.o", "Rprog")>>
    [] n = "a.o"  -> <<arc("a.c", "Rao"), arc("y.h", "Rao")>>
    [] n = "y.o"  -> <<arc("y.c", "Ryo")>>
    [] n \in {"y.c", "y.h"} -> <<arc("y.y", "Ryacc")>>
    [] OTHER -> <<>>]
YaccTargets == [r \in YaccRule |->
  CASE r = "Rall" -> <<"all">> [] r = "Rprog" -> <<"prog">>
    [] r = "Rao" -> <<"a.o">> [] r = "Ryo" -> <<"y.o">>
    [] r = "Ryacc" -> <<"y.c", "y.h">>]
(* Sources are as old as the targets or newer, targets may be missing.  The *)
(* two files yacc makes exist together and have the same time.              *)
YaccTimes == {f \in [YaccNode -> {0, 2, 3}] :
  /\ f["all"] = 0 /\ f["a.c"] # 0 /\ f["y.y"] # 0 /\ f["y.c"] = f["y.h"]
  /\ \A n \in {"prog", "a.o", "y.o", "y.c"} : f[n] # 3}
YaccGoals == {<<"all">>, <<"y.o", "all">>}
YaccHasRecipe == YaccRule \ {"Rall"}

(* The theorems of MkTopoProofs are about mkfiles such as this one. *)
ASSUME YaccIsPlain == Node = YaccNode => PlainMkfile

(***************************************************************************)
(* lib: dirs x.o y.o z.o  x.o: s.c  y.o: s.c  z.o:  dirs:V:  doc: z.o x.o  *)
(* Three recipes that do not depend on each other, two of them with the    *)
(* attribute D, one without prerequisites, a virtual target that has a     *)
(* recipe, and a file that has prerequisites and no recipe.                *)
(***************************************************************************)
LibNode == {"lib", "doc", "dirs", "x.o", "y.o", "z.o", "s.c"}
LibRule == {"Rlib", "Rdoc", "Rdirs", "Rx", "Ry", "Rz"}
LibArcs == [n \in LibNode |->
  CASE n = "lib" -> <<arc("dirs", "Rlib"), arc("x.o", "Rlib"), arc("y.o", "Rlib"),
                      arc("z.o", "Rlib")>>
    [] n = "doc" -> <<arc("z.o", "Rdoc"), arc("x.o", "Rdoc")>>
    [] n = "dirs" -> <<arc(NoNode, "Rdirs")>>
    [] n = "z.o" -> <<arc(NoNode, "Rz")>>
    [] n = "x.o" -> <<arc("s.c", "Rx")>>
    [] n = "y.o" -> <<arc("s.c", "Ry")>>
    [] OTHER -> <<>>]
LibTargets == [r \in LibRule |->
  CASE r = "Rlib" -> <<"lib">> [] r = "Rdoc" -> <<"doc">>
    [] r = "Rdirs" -> <<"dirs">> [] r = "Rz" -> <<"z.o">>
    [] r = "Rx" -> <<"x.o">> [] r = "Ry" -> <<"y.o">>]
LibTimes == {f \in [LibNode -> {0, 2, 3}] :
  /\ f["dirs"] = 0 /\ f["doc"] = 0 /\ f["s.c"] # 2
  /\ \A n \in {"lib", "x.o", "y.o", "z.o"} : f[n] # 3}
LibGoals == {<<"lib">>, <<"x.o", "lib">>, <<"doc">>}
LibHasRecipe == LibRule \ {"Rdoc"}
LibDelete == {"Rx", "Ry"}
=============================================================================

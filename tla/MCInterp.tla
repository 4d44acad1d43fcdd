------------------------------ MODULE MCInterp ------------------------------
(***************************************************************************)
(* Programs for model checking Interp, in the code that the compiler of    *)
(* the language produces for them: sequences of <<label, instructions>>.   *)
(***************************************************************************)
EXTENDS Interp, Ints

In(op, n, m, to, push) == [op |-> op, n |-> n, m |-> m, to |-> to, push |-> push]
O(op, n) == In(op, n, 0, "", FALSE)
P(op, n) == In(op, n, 0, "", TRUE)
J(op, to) == In(op, 0, 0, to, FALSE)
Clo(op, n, to) == In(op, n, 0, to, FALSE)
Prim(n, name) == In("C_CALL", n, name, "", FALSE)

(* what labels stand for *)
Resolved(i, addr) ==
  IF i.op \in {"CLOSURE", "CLOSUREREC"} THEN [op |-> i.op, push |-> FALSE, n |-> i.n, m |-> addr[i.to]]
  ELSE IF i.op = "SWITCH"
  THEN [op |-> i.op, push |-> FALSE, n |-> 0,
        m |-> [ints |-> [k \in DOMAIN i.m.ints |-> addr[i.m.ints[k]]], tags |-> [k \in DOMAIN i.m.tags |-> addr[i.m.tags[k]]]]]
  ELSE [op |-> i.op, push |-> i.push, n |-> IF i.to = "" THEN i.n ELSE addr[i.to], m |-> i.m]
RECURSIVE Link(_, _, _)
Link(blocks, src, addr) ==
  IF blocks = <<>> THEN [i \in DOMAIN src |-> Resolved(src[i], addr)]
  ELSE Link(Tail(blocks), src \o Head(blocks)[2], (Head(blocks)[1] :> (Len(src) + 1)) @@ addr)
Assemble(blocks) == Link(blocks, <<>>, "none" :> 0)

Tree(fs) == [tag |-> 0, f |-> fs]
(* the signal handler: fun n -> counter := !counter + 1 *)
Handler == <<"handler", <<O("GETGLOBAL", 2), O("OFFSETREF", 1), O("RETURN", 1)>>>>
Program(expected, main, others) ==
  [code |-> Assemble(<<<<"start", <<J("BRANCH", "main")>>>>, Handler, <<"main", main>>>> \o others),
   handler |-> 2, expected |-> expected]

(* fun a b c -> (a, b, c), and fun a -> fun b c -> (a, b, c) *)
Triples ==
  <<<<"triple_", <<O("RESTART", 0)>>>>,
    <<"triple", <<O("GRAB", 2), O("ACC", 2), P("ACC", 2), P("ACC", 2), O("MAKEBLOCK", 3), O("RETURN", 3)>>>>,
    <<"nested", <<O("ACC", 0), Clo("CLOSURE", 1, "inner"), O("RETURN", 1)>>>>,
    <<"inner_", <<O("RESTART", 0)>>>>,
    <<"inner", <<O("GRAB", 1), O("ACC", 1), P("ACC", 1), P("ENVACC", 1), O("MAKEBLOCK", 3), O("RETURN", 2)>>>>>>
OneTwoThree == Tree(<<Num(1), Num(2), Num(3)>>)

(* accu holds a function; apply it to the constants a..b *)
Args(a, b) == [i \in 1..(b - a + 1) |-> IF i = 1 THEN O("CONSTINT", b) ELSE P("CONSTINT", b - i + 1)]
Call(a, b) == <<O("PUSH", 0)>> \o Args(a, b) \o <<P("ACC", b - a + 1), O("APPLYK", b - a + 1), O("POP", 1)>>
Stop == <<O("STOP", 0)>>

Groups == {Call(1, 3), Call(1, 1) \o Call(2, 3), Call(1, 2) \o Call(3, 3), Call(1, 1) \o Call(2, 2) \o Call(3, 3)}
Curried == {Program(OneTwoThree, <<Clo("CLOSURE", 0, f)>> \o calls \o Stop, Triples) :
              f \in {"triple", "nested"}, calls \in Groups}

FarCall ==
  Program(OneTwoThree,
    <<Clo("CLOSURE", 0, "nested"), O("PUSH", 0), J("PUSH_RETADDR", "back")>> \o Args(1, 3) \o <<P("ACC", 6), O("APPLY", 3)>>,
    <<<<"back", <<O("POP", 1), O("STOP", 0)>>>>>> \o Triples)
(* fun a -> nested a 2 3 *)
TailCall ==
  Program(OneTwoThree, <<Clo("CLOSURE", 0, "tail")>> \o Call(1, 1) \o Stop,
    <<<<"tail", <<O("CONSTINT", 3), P("CONSTINT", 2), P("ACC", 2), O("PUSH", 0),
                  Clo("CLOSURE", 0, "nested"), In("APPTERM", 3, 4, "", FALSE)>>>>>> \o Triples)

(* try twice (fun x -> if x = 2 then raise x else x) with e -> (e) *)
Escape ==
  Program(Tree(<<Num(2)>>),
    <<J("PUSHTRAP", "caught"), Clo("CLOSURE", 0, "boom"), Prim(1, "twice"), O("POPTRAP", 0), O("STOP", 0)>>,
    <<<<"caught", <<O("MAKEBLOCK", 1), O("STOP", 0)>>>>,
      <<"boom", <<O("CONSTINT", 2), P("ACC", 1), O("EQ", 0), J("BRANCHIFNOT", "ok"), O("CONSTINT", 2), O("RAISE", 0)>>>>,
      <<"ok", <<O("ACC", 0), O("RETURN", 1)>>>>>>)
(* try twice (fun x -> try fail () with _ -> x + 1) with _ -> 0 *)
Inside ==
  Program(Num(3),
    <<J("PUSHTRAP", "outer"), Clo("CLOSURE", 0, "safe"), Prim(1, "twice"), O("POPTRAP", 0), O("STOP", 0)>>,
    <<<<"outer", <<O("CONSTINT", 0), O("STOP", 0)>>>>,
      <<"safe", <<J("PUSHTRAP", "caught"), O("CONSTINT", 0), Prim(1, "fail"), O("POPTRAP", 0), O("RETURN", 1)>>>>,
      <<"caught", <<O("ACC", 0), O("OFFSETINT", 1), O("RETURN", 1)>>>>>>)
(* nobody catches *)
Uncaught ==
  Program(Tree(<<Num(FAILURE_EXN)>>), <<Clo("CLOSURE", 0, "bad"), Prim(1, "twice"), O("STOP", 0)>>,
    <<<<"bad", <<O("CONSTINT", 0), Prim(1, "fail"), O("RETURN", 1)>>>>>>)

(* let rec sum n = if n = 0 then 0 else sum (n - 1) + n, under two handlers *)
Deep ==
  Program(Num(6),
    <<J("PUSHTRAP", "no"), J("PUSHTRAP", "no"), Clo("CLOSUREREC", 0, "sum")>> \o Call(3, 3)
      \o <<O("POPTRAP", 0), O("POPTRAP", 0), O("STOP", 0)>>,
    <<<<"no", <<O("CONSTINT", 0), O("STOP", 0)>>>>,
      <<"sum", <<O("ACC", 0), J("BRANCHIF", "more"), O("CONSTINT", 0), O("RETURN", 1)>>>>,
      <<"more", <<O("ACC", 0), O("OFFSETINT", -1), O("PUSH", 0), O("ENVACC", 1), O("APPLYK", 1), P("ACC", 1), O("ADDINT", 0), O("RETURN", 1)>>>>>>)
(* an endless recursion, and a division by zero in the handler *)
Overflow ==
  Program(Tree(<<Num(ZERO_DIVIDE_EXN)>>),
    <<J("PUSHTRAP", "zero"), J("PUSHTRAP", "over"), Clo("CLOSUREREC", 0, "loop")>> \o Call(1, 1) \o Stop,
    <<<<"over", <<O("GETFIELD", 0), P("CONSTINT", 0), P("ACC", 1), O("DIVINT", 0), O("STOP", 0)>>>>,
      <<"zero", <<O("STOP", 0)>>>>,
      <<"loop", <<O("ACC", 0), O("PUSH", 0), O("ENVACC", 1), O("APPLYK", 1), O("OFFSETINT", 1), O("RETURN", 1)>>>>>>)

Read == Program(Num(6), <<O("CONSTINT", 1), O("PUSH", 0), Prim(1, "read"), O("ADDINT", 0)>> \o Stop, <<>>)
(* a loop that counts in a reference *)
Loop ==
  Program(Num(2),
    <<O("CONSTINT", 0), O("MAKEBLOCK", 1), O("SETGLOBAL", 3), O("CONSTINT", 2), O("PUSH", 0)>>,
    <<<<"again", <<O("CHECK_SIGNALS", 0), O("GETGLOBAL", 3), O("OFFSETREF", 1), O("ACC", 0), O("OFFSETINT", -1), O("ASSIGN", 0),
                   O("ACC", 0), J("BRANCHIF", "again"), O("POP", 1), In("GETGLOBALFIELD", 3, 0, "", FALSE), O("STOP", 0)>>>>>>)
Urge ==
  Program(OneTwoThree,
    <<O("ATOM", 0), Prim(1, "urge"), O("CONSTINT", 2), P("CONSTINT", 1), O("PUSH", 0), Clo("CLOSURE", 0, "triple"),
      In("C_CALLN", 3, "apply2", "", FALSE)>> \o Call(3, 3) \o Stop, Triples)
(* let rec v = [|1; 5|], changed in several ways *)
Data ==
  Program(Tree(<<Num(3), Num(-2)>>),
    <<O("DUMMY", 2), O("PUSH", 0), O("CONSTINT", 5), P("CONSTINT", 1), O("MAKEBLOCK", 2), O("PUSH", 0), O("ACC", 1), O("UPDATE", 0),
      O("CONSTINT", 3), P("ACC", 1), O("SETFIELD", 0),
      O("ACC", 0), O("VECTLENGTH", 0), O("NEGINT", 0), P("CONSTINT", 1), P("ACC", 2), O("SETVECTITEM", 0),
      O("ACC", 0), In("SWITCH", 0, [ints |-> <<"bad">>, tags |-> <<"good">>], "", FALSE)>>,
    <<<<"bad", <<O("CONSTINT", 0), O("STOP", 0)>>>>,
      <<"good", <<O("CONSTINT", 0), O("BOOLNOT", 0), O("PUSH", 0), O("ACC", 1), O("GETVECTITEM", 0), O("PUSH", 0), O("CONSTINT", -2), O("EQ", 0),
                  J("BRANCHIFNOT", "bad"), O("ACC", 0), O("POP", 1), O("STOP", 0)>>>>>>)

MCPrograms == Curried \cup {FarCall, TailCall, Escape, Inside, Uncaught, Deep, Overflow, Read, Loop, Urge, Data}
=============================================================================

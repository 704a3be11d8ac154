----------------------------- MODULE MCMaxFlash -----------------------------
EXTENDS MaxFlash

\* Two inputs; addition of numbers up to 3 and a conditional that looks at one
\* of its branches only.
Inputs == {<<0, 1>>, <<1, 0>>, <<1, 1>>}
Numbers == 0..3
Booleans == {8, 9}                        \* false and true
Total == Numbers \cup Booleans

MCRun(op, args, e) ==
    CASE op = "x" -> e[1]
      [] op = "y" -> e[2]
      [] op = "1" -> 1
      [] op = "+" -> args[1] + args[2]
      [] op = "<" -> IF e[1] < e[2] THEN 9 ELSE 8
      [] op = "ite" -> IF args[1] = 9 THEN args[2] ELSE args[3]

MCWitness(op, oup, e) ==
    CASE op \in {"x", "y", "1", "<"} -> IF MCRun(op, <<>>, e) \in oup THEN {<<>>} ELSE {}
      [] op = "+" -> IF oup = Total THEN {<<oup, oup>>}
                     ELSE {<<{a}, {b}>> : <<a, b>> \in {p \in Numbers \X Numbers : p[1] + p[2] \in oup}}
      [] op = "ite" -> IF oup = Total THEN {<<oup, oup, oup>>}
                       ELSE {<<{9}, oup, Total>>, <<{8}, Total, oup>>}

E(op, v_list, weight) == [op |-> op, v_list |-> v_list, weight |-> 8 * weight]
Alternating(w) == <<{E("x", <<>>, w), E("1", <<>>, 4), E("+", <<2, 2>>, 1)},
                    {E("y", <<>>, 2), E("+", <<1, 1>>, 2)}>>
Conditional == <<{E("x", <<>>, 2), E("ite", <<2, 3, 3>>, 1)},
                 {E("<", <<>>, 1)},
                 {E("y", <<>>, 3), E("1", <<>>, 1), E("+", <<1, 1>>, 2)}>>
SomeGraphs == {Alternating(2), Alternating(5), Conditional}
On(a, b, c) == [e \in Inputs |-> CASE e = <<0, 1>> -> a [] e = <<1, 0>> -> b [] e = <<1, 1>> -> c]
SomeTargets == {On(1, b, c) : b \in 0..2, c \in Numbers} \cup {On(2, 2, 3), On(3, 0, 3)}
=============================================================================

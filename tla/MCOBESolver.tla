---------------------------- MODULE MCOBESolver ----------------------------
EXTENDS OBESolver

\* Arithmetic modulo 3 with a division that fails on 0, and a conditional that
\* runs only one of its branches.
MCApply(op, args, e) ==
    CASE op = "x" -> e
      [] op = "1" -> 1
      [] op = "+" -> IF SemanticsError \in Range(args) THEN SemanticsError ELSE (args[1] + args[2]) % 3
      [] op = "div" -> IF SemanticsError \in Range(args) THEN SemanticsError
                       ELSE IF args[2] = 0 THEN SemanticsError ELSE args[1] \div args[2]
      [] op = "<=" -> IF SemanticsError \in Range(args) THEN SemanticsError
                      ELSE IF args[1] <= args[2] THEN 1 ELSE 0
      [] op = "ite" -> IF args[1] = SemanticsError THEN SemanticsError
                       ELSE IF args[1] = 1 THEN args[2] ELSE args[3]

Inputs == 0..2
AllTargets == [Inputs -> 0..2]

\* The order in which programs are met: by their outputs, up or down.
Digit(v) == IF v = SemanticsError THEN 3 ELSE v
MCRank(up, p) ==
    LET number == 16 * Digit(p[0]) + 4 * Digit(p[1]) + Digit(p[2])
    IN  IF up THEN number ELSE 63 - number

R(op, params) == [op |-> op, params |-> params]
Conditional ==
    [symbol_list |-> <<"S", "I", "B">>, start |-> "S",
     rules |-> [S |-> <<R("direct", <<"I">>), R("ite", <<"B", "S", "S">>)>>,
                I |-> <<R("x", <<>>), R("1", <<>>), R("+", <<"I", "I">>), R("div", <<"I", "I">>)>>,
                B |-> <<R("<=", <<"I", "I">>)>>]]
\* A chain of direct rules, listed in the wrong order.
Chained ==
    [symbol_list |-> <<"S", "T", "F">>, start |-> "S",
     rules |-> [S |-> <<R("direct", <<"T">>), R("+", <<"S", "T">>)>>,
                T |-> <<R("direct", <<"F">>), R("div", <<"T", "F">>)>>,
                F |-> <<R("x", <<>>), R("1", <<>>), R("ite", <<"F", "S", "T">>)>>]]
\* Two symbols that are each other.
Circular ==
    [symbol_list |-> <<"S", "T", "F">>, start |-> "S",
     rules |-> [S |-> <<R("direct", <<"T">>), R("direct", <<"F">>)>>,
                T |-> <<R("direct", <<"S">>)>>,
                F |-> <<R("x", <<>>)>>]]
AllGrammars == {Conditional, Chained, Circular}
=============================================================================

----------------------------- MODULE MCCombinator -----------------------------
EXTENDS Combinator, TLC

\* Contents are two bits; label 1 is represented by both, 2 by the high one,
\* 3 by nothing, 4 by the low one, with a function that fails on 3.
Content == 0..3
Low == [c \in Content |-> c % 2]
High == [c \in Content |-> c \div 2]
LowUnless3 == [Low EXCEPT ![3] = Error]
MCFRes == <<<<Low, High>>, <<High>>, <<>>, <<LowUnless3>>>>
Bits == 0..1

\* What the grammars have over n parameters: all functions; also those that
\* fail on one input; only those in which one parameter matters.
Inputs(n) == [1..n -> Bits]
Total == [n \in 0..3 |-> [Inputs(n) -> Bits]]
Partial == [n \in 0..3 |->
    Total[n] \cup {[t EXCEPT ![x] = Error] : t \in Total[n], x \in IF n = 2 THEN Inputs(n) ELSE {}}]
Unary == [n \in 0..3 |->
    {t \in Total[n] : \E f \in [Bits -> Bits] : n = 0 \/ \E k \in 1..n :
        t = [x \in Inputs(n) |-> f[x[k]]]}]

Tuple(fields) == [kind |-> "tuple", fields |-> fields]
Compress(id) == [kind |-> "compress", id |-> id]
Base == [kind |-> "base"]

Nested ==
    [oup_type |-> Tuple(<<Compress(1), Tuple(<<Base, Compress(3), Compress(2)>>)>>),
     compress_list |-> <<1, Scalar, 3, 1>>,
     grammar |-> Total,
     records |-> (<<1>> :> << <<<<1, 1>>, <<4, 1>>>>, <<<<1, 2>>, <<2, -1>>, <<1, 1>>>> >>)
              @@ (<<2, 1>> :> << <<<<2, -1>>, <<4, 1>>>> >>)
              @@ (<<2, 3>> :> << <<<<4, 2>>>> >>),
     examples |-> [n \in 1..5 |->
        LET a == <<0, 1, 2, 3, 1>>[n]  b == <<0, 1, 0, 1, 1>>[n]  c == <<3, 1, 2, 0, 2>>[n]
            low == IF Low[a] = Low[c] THEN 0 ELSE 1
            high == IF High[a] = 1 \/ b = 1 THEN 1 ELSE 0
        IN  [inp |-> <<a, b, 0, c>>,
             oup |-> <<low + 2 * high, <<IF b = 1 /\ Low[c] = 1 THEN 1 ELSE 0, 0, c>>>>]]]

TwoComponents ==
    [oup_type |-> Compress(1),
     compress_list |-> <<2, Scalar>>,
     grammar |-> Partial,
     records |-> (<<>> :> << <<<<2, -1>>, <<1, 1>>>>, <<<<1, 1>>>> >>),
     examples |-> [n \in 1..5 |->
        LET a == <<0, 1, 2, 3, 3>>[n]  b == <<0, 1, 1, 0, 1>>[n]
        IN  [inp |-> <<a, b>>, oup |-> (IF High[a] = b THEN 1 ELSE 0) + 2 * High[a]]]]

\* The related parameter does not determine the output on all examples.
Undetermined ==
    [oup_type |-> Tuple(<<Base>>),
     compress_list |-> <<2, Scalar>>,
     grammar |-> Total,
     records |-> (<<1>> :> << <<<<1, 1>>>> >>),
     examples |-> [n \in 1..5 |->
        [inp |-> <<<<0, 3, 1, 2, 2>>[n], <<0, 1, 0, 1, 0>>[n]>>,
         oup |-> <<(<<0, 1, 0, 0, 0>>[n])>>]]]

Nothing ==
    [oup_type |-> Compress(3), compress_list |-> <<3>>,
     grammar |-> Total, records |-> <<>>,
     examples |-> [n \in 1..5 |-> [inp |-> <<0>>, oup |-> 0]]]

\* A component fails on the input or on the output of some examples.
Failing ==
    [oup_type |-> Tuple(<<Compress(4), Base>>),
     compress_list |-> <<4, Scalar>>,
     grammar |-> Total,
     records |-> (<<1>> :> << <<<<1, 1>>, <<2, -1>>>> >>) @@ (<<2>> :> << <<<<1, 1>>>> >>),
     examples |-> [n \in 1..5 |->
        LET a == <<0, 1, 2, 1, 3>>[n]  b == <<0, 1, 1, 0, 1>>[n]
            c == <<2, 1, 0, 3, 1>>[n]
        IN  [inp |-> <<a, b>>, oup |-> <<c, Low[a]>>]]]

\* The output needs both parameters in one function, which the grammar lacks.
NotInGrammar ==
    [oup_type |-> Tuple(<<Base>>),
     compress_list |-> <<2, Scalar>>,
     grammar |-> Unary,
     records |-> (<<1>> :> << <<<<1, 1>>, <<2, -1>>>> >>),
     examples |-> [n \in 1..5 |->
        LET a == <<0, 1, 2, 3, 2>>[n]  b == <<0, 1, 1, 0, 1>>[n]
        IN  [inp |-> <<a, b>>, oup |-> <<IF High[a] = b THEN 1 ELSE 0>>]]]

AllAligns == <<Nested, TwoComponents, Undetermined, Nothing, Failing, NotInGrammar>>
\* Four of five examples, in any order up to the first two.
SomePools == {s \in [1..4 -> 1..5] : s[1] < s[2] /\ \A i, j \in 1..4 : i # j => s[i] # s[j]}
=============================================================================

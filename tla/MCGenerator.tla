----------------------------- MODULE MCGenerator -----------------------------
(* Packages over one input `who`.  Rule 1 is the entry, rule 3 takes a
   parameter `p`.                                                          *)
EXTENDS Derivation, TLC

InputNames == <<"who">>
TwoScalars == ("a" :> 1) @@ ("e" :> 2)
Limit(d, e, s, b, w) == [depth |-> d, expansions |-> e, scalars |-> s, bytes |-> b, words |-> w]

Who == Named("who")
With(value) == <<[name |-> "p", value |-> value]>>
Let(name, rule, arguments) == [name |-> name, rule |-> rule, arguments |-> arguments]
P(bindings, parts) == [guard |-> <<>>, bindings |-> bindings, parts |-> parts]
If(value, text, parts) == [guard |-> <<value, text>>, bindings |-> <<>>, parts |-> parts]
A == Literal(<<"a">>)
E == Literal(<<"e">>)
Nothing == Literal(<<>>)

Package(first, second, third) ==
  <<[parameters |-> <<>>, productions |-> first],
    [parameters |-> <<>>, productions |-> second],
    [parameters |-> <<"p">>, productions |-> third]>>

(* One body, or two that are at most `apart` places apart, in one order.   *)
OneOrTwo(bodies, apart) ==
  {<<bodies[i]>> : i \in DOMAIN bodies}
    \cup UNION {{<<bodies[i], bodies[j]>> : i \in {i \in 1 .. j - 1 : j - i <= apart}} : j \in DOMAIN bodies}

EntryBodies ==
  << P(<<>>, <<A>>),
    P(<<>>, <<Nothing, Message(<<Who>>)>>),
    P(<<>>, <<Call(2, <<>>)>>),
    P(<<>>, <<Call(2, <<>>), E>>),
    P(<<>>, <<Message(<<>>), Nothing>>),
    P(<<Let("x", 2, <<>>)>>, <<Value(Named("x")), A, Value(Named("x"))>>),
    P(<<Let("x", 2, <<>>)>>, <<Message(<<Named("x")>>)>>),
    P(<<Let("x", 2, <<>>), Let("y", 3, With(Named("x")))>>, <<Value(Named("y"))>>),
    P(<<>>, <<Capture(2, "x"), Call(3, With(Named("x")))>>),
    P(<<Let("x", 2, <<>>)>>, <<Capture(2, "y"), Value(Named("y")), Value(Named("x"))>>),
    P(<<>>, <<Call(1, <<>>), Call(2, <<>>)>>),
    P(<<Let("x", 2, <<>>)>>, <<A>>),
    P(<<>>, <<Value(Named("x")), Capture(2, "x")>>),
    P(<<Let("who", 2, <<>>)>>, <<Value(Who)>>),
    P(<<>>, <<Call(2, With(Who))>>) >>

SecondBodies ==
  << P(<<>>, <<E>>),
    P(<<>>, <<Value(Who)>>),
    P(<<>>, <<Message(<<>>)>>),
    P(<<>>, <<>>),
    P(<<>>, <<Call(3, With(Who))>>),
    P(<<>>, <<Call(1, <<>>)>>) >>

ThirdBodies ==
  { <<P(<<>>, <<Value(Named("p"))>>)>>,
    <<If(Named("p"), <<"a">>, <<Value(Named("p"))>>), P(<<>>, <<A>>)>>,
    <<If(Named("p"), <<"a">>, <<Call(2, <<>>)>>)>> }

Family == {Package(first, second, third) :
             first \in OneOrTwo(EntryBodies, 1), second \in OneOrTwo(SecondBodies, 2), third \in ThirdBodies}

(* Packages with nested captures and bindings, values emitted far from where
   they were bound, guards, recursion with and without output, messages.    *)
Rule(parameters, productions) == [parameters |-> parameters, productions |-> productions]

Nested ==
  <<Rule(<<>>, <<P(<<Let("x", 2, <<>>)>>,
                   <<Capture(2, "y"), Call(3, With(Named("y"))), Value(Named("x"))>>)>>),
    Rule(<<>>, <<P(<<>>, <<A>>), P(<<>>, <<Value(Who), E>>)>>),
    Rule(<<"p">>, <<If(Named("p"), <<"a">>, <<Value(Named("p"))>>), P(<<>>, <<Value(Named("p")), A>>)>>)>>

Captured ==
  <<Rule(<<>>, <<P(<<>>, <<A, Capture(2, "x"), E, Value(Named("x"))>>)>>),
    Rule(<<>>, <<P(<<>>, <<Capture(3, "x"), Value(Named("x"))>>), P(<<>>, <<>>)>>),
    Rule(<<>>, <<P(<<>>, <<E>>), P(<<>>, <<A>>)>>)>>

Chained ==
  <<Rule(<<>>, <<P(<<Let("x", 2, <<>>), Let("y", 3, With(Named("x")))>>,
                   <<Value(Named("y")), Value(Named("x"))>>)>>),
    Rule(<<>>, <<P(<<Let("x", 3, With(Who))>>, <<Value(Named("x"))>>), P(<<>>, <<E>>)>>),
    Rule(<<"p">>, <<If(Named("p"), <<"a">>, <<Value(Named("p"))>>), If(Named("p"), <<>>, <<A>>)>>)>>

Looping ==
  <<Rule(<<>>, <<P(<<>>, <<Value(Who), Call(1, <<>>)>>), P(<<>>, <<A>>),
                 P(<<>>, <<Call(1, <<>>), Call(1, <<>>)>>)>>)>>

Speaking ==
  <<Rule(<<>>, <<P(<<Let("x", 3, With(Who))>>, <<Message(<<Who, Named("x")>>)>>), P(<<>>, <<Call(2, <<>>)>>)>>),
    Rule(<<>>, <<P(<<>>, <<Nothing, Message(<<>>)>>)>>),
    Rule(<<"p">>, <<P(<<>>, <<Value(Named("p")), E>>)>>)>>

Curated == {Nested, Captured, Chained, Looping, Speaking}

SomePackages == Family \cup Curated

(* The many packages are asked little, the five are asked more.             *)
SomeRequests(package) ==
  IF package \in Curated
  THEN [limits : {Limit(4, 8, 8, 12, 9), Limit(3, 5, 5, 6, 6)}, data : {<<<<"a">>>>, <<<<>>>>}]
  ELSE [limits : {Limit(3, 4, 4, 6, 4)}, data : {<<<<>>>>}]

SomeTexts == {<<"a", "e">>, <<"e", "e", "e", "e", "e", "e", "e">>}
============================================================================

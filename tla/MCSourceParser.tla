--------------------------- MODULE MCSourceParser ---------------------------
(* The sources TLC reads: every header layout, every small expression, every *)
(* kind of production in every layout, and every short sequence of sound and *)
(* faulty pieces.                                                            *)
EXTENDS SourceParser, FiniteSetsExt

L == INSTANCE SourceLayout

Lexemes ==
  {"a", "b", "c", "as", "is", "not", "and", "or", "true", "false", "weight", "id", "n", "q",
   "meco", "module", "entry", "sampler", "types", "inputs", "imports", "exports"}

a == <<"a">>
b == <<"b">>

---------------------------------------------------------------------------
(* Headers.                                                                  *)

Top(key, value) == <<key, ":", " ">> \o value
Entry(key, value) == <<" ", " ", key, ":", " ">> \o value
List(items) == <<"[">> \o L!Separated(items, L!Comma) \o <<"]">>
Declared(key, value) == <<[name |-> key, value |-> value]>>

FieldsOfHeaders ==
  {[key |-> "meco", slot |-> "version", value |-> <<"1.0">>, lines |-> <<Top("meco", <<"1.0">>)>>],
   [key |-> "module", slot |-> "module", value |-> a, lines |-> <<Top("module", a)>>],
   [key |-> "exports", slot |-> "exports", value |-> <<a, b>>, lines |-> <<Top("exports", List(<<a, b>>)), <<>>>>],
   [key |-> "types", slot |-> "types", value |-> Declared("b", <<a, b>>) \o Declared("c", <<b>>),
    lines |-> <<<<"types", ":">>, Entry("b", List(<<a, b>>)), <<>>, Entry("c", List(<<b>>))>>],
   [key |-> "imports", slot |-> "imports", value |-> Declared("a", <<"!", "\"", "\n", "\\">>),
    lines |-> <<<<"imports", ":">>, Entry("a", L!WriteText(<<"!", "\"", "\n", "\\">>))>>]}

OtherFields ==
  {[key |-> "entry", slot |-> "entry", value |-> b, lines |-> <<Top("entry", b)>>],
   [key |-> "sampler", slot |-> "sampler", value |-> <<"diverse/1">>, lines |-> <<Top("sampler", <<"diverse/1">>)>>],
   [key |-> "inputs", slot |-> "inputs", value |-> Declared("a", b), lines |-> <<<<"inputs", ":">>, Entry("a", b)>>]}

RECURSIVE Filled(_, _)
Filled(h, fields) ==
  IF fields = <<>> THEN h
  ELSE Filled([h EXCEPT !.seen = @ \cup {fields[1].key}, ![fields[1].slot] = fields[1].value], Tail(fields))

FencedLines(inside) == <<Fence>> \o inside \o <<Fence>>

HeaderOf(fields) ==
  LET keys == {fields[i].key : i \in DOMAIN fields} IN
  [lines |-> FencedLines(L!Separated([i \in DOMAIN fields |-> fields[i].lines], <<>>)),
   tree  |-> Filled(NoHeader, fields),
   fault |-> IF {"meco", "module"} \subseteq keys THEN "none" ELSE "E_HEADER_REQUIRED_FIELD"]

Orders(fields) == UNION {SetToSeqs(some) : some \in SUBSET fields}

Base == <<Top("meco", <<"1.0">>), Top("module", a)>>

(* A fault after a sound beginning, with another fault behind it.            *)
HeaderFaults ==
  {<<<<Top("exports", List(<<a>>)), Entry("b", a)>>, "E_HEADER_INDENT">>,
   <<<<Entry("b", a)>>, "E_HEADER_INDENT">>,
   <<<<<<"types", ":">>, <<" ">> \o Entry("b", List(<<a>>))>>, "E_HEADER_INDENT">>,
   <<<<<<"types", ":">>, <<" ", "b", ":", " ", "a">>>>, "E_HEADER_INDENT">>,
   <<<<<<"inputs", ":", "\t">>>>, "E_HEADER_INDENT">>,
   <<<<Top("module", b)>>, "E_HEADER_DUPLICATE_FIELD">>,
   <<<<<<"module", ":">>>>, "E_HEADER_DUPLICATE_FIELD">>,
   <<<<Top("b", a)>>, "E_HEADER_UNKNOWN_FIELD">>,
   <<<<<<"types", ":">>, <<"types", ":">>>>, "E_HEADER_DUPLICATE_FIELD">>,
   <<<<Top("types", a)>>, "E_HEADER_VALUE">>,
   <<<<<<"entry", ":">>>>, "E_HEADER_VALUE">>,
   <<<<Top("entry", <<"!">>)>>, "E_INVALID_IDENTIFIER">>,
   <<<<Top("entry", <<"a", " ">>)>>, "E_HEADER_VALUE">>,
   <<<<Top("entry", <<" ", "a">>)>>, "E_HEADER_SYNTAX">>,
   <<<<<<"entry", ":", "a">>>>, "E_HEADER_SYNTAX">>,
   <<<<<<"entry">>>>, "E_HEADER_SYNTAX">>,
   <<<<<<"!", ":">>>>, "E_INVALID_IDENTIFIER">>,
   <<<<Top("sampler", a)>>, "E_HEADER_VALUE">>,
   <<<<Top("exports", <<"[", "a">>)>>, "E_HEADER_VALUE">>,
   <<<<Top("exports", <<"[", " ", "a", "]">>)>>, "E_HEADER_VALUE">>,
   <<<<Top("exports", List(<<a, <<>>>>))>>, "E_HEADER_VALUE">>,
   <<<<Top("exports", List(<<a, b, a>>))>>, "E_HEADER_DUPLICATE_FIELD">>,
   <<<<<<"types", ":">>, Entry("b", List(<<>>))>>, "E_HEADER_VALUE">>,
   <<<<<<"inputs", ":">>, Entry("b", a), Entry("b", a)>>, "E_HEADER_DUPLICATE_FIELD">>,
   <<<<<<"inputs", ":">>, <<" ", " ", "b", ":">>>>, "E_HEADER_VALUE">>,
   <<<<<<"imports", ":">>, Entry("b", <<"\"">>)>>, "E_HEADER_VALUE">>,
   <<<<<<"imports", ":">>, Entry("b", <<"\"", "\"">>)>>, "E_HEADER_VALUE">>,
   <<<<<<"imports", ":">>, Entry("b", <<"\"", "\"", "\"">>)>>, "E_HEADER_VALUE">>,
   <<<<<<"imports", ":">>, Entry("b", <<"\"", "\\", "\"">>)>>, "E_HEADER_VALUE">>,
   <<<<<<"imports", ":">>, Entry("b", <<"\"", "\\", "q", "\"">>)>>, "E_HEADER_VALUE">>}

FaultyHeaders ==
  {[lines |-> FencedLines(Base \o case[1] \o more), tree |-> NoHeader, fault |-> case[2]]
     : case \in HeaderFaults, more \in {<<>>, <<Top("b", a)>>}}
  \cup {[lines |-> <<>>, tree |-> NoHeader, fault |-> "E_HEADER_MISSING"],
        [lines |-> <<<<>>>> \o FencedLines(Base), tree |-> NoHeader, fault |-> "E_HEADER_MISSING"],
        [lines |-> FencedLines(<<Top("meco", <<"2">>)>>), tree |-> NoHeader, fault |-> "E_UNSUPPORTED_VERSION"]}

Unterminated == [lines |-> <<Fence>> \o Base, tree |-> NoHeader, fault |-> "E_HEADER_UNTERMINATED"]

PlainHeader == HeaderOf(SetToSeq({f \in FieldsOfHeaders : f.key \in {"meco", "module"}}))

---------------------------------------------------------------------------
(* Trees.                                                                    *)

Grown(trees, operators) == {<<op, l, r>> : op \in operators, l, r \in trees}

WeightLeaves == {<<"number", "2">>, <<"name", "a">>}
WeightTrees ==
  LET one == WeightLeaves \cup Grown(WeightLeaves, {"+", "-", "*"})
      two == Grown(one, {"+", "-", "*"})
  IN  one \cup two \cup {<<"*", <<"name", "b">>, t>> : t \in two}

GuardLeaves == {<<"value", <<"name", "a">>>>, <<"is not", <<"name", "a">>, <<"text", <<"!", "\"">>>>>>}
GuardTrees ==
  LET one == GuardLeaves \cup {<<"not", t>> : t \in GuardLeaves} \cup Grown(GuardLeaves, {"and", "or"})
      two == Grown(one, {"and", "or"})
  IN  one \cup two \cup {<<"not", t>> : t \in one \cup two}
        \cup {<<op, <<"name", "a">>, <<"number", "2">>>> : op \in {"is", "<", "<=", ">", ">="}}
        \cup {<<"is", <<"true">>, <<"false">>>>}

Pun(name) == [name |-> name, value |-> <<"reference", name>>, punned |-> TRUE]
Given(name, value) == [name |-> name, value |-> value, punned |-> FALSE]
SomeArguments ==
  <<Pun(b), Given(a, <<"reference", b>>), Given(<<"c">>, <<"text", <<"!", "\n">>>>),
    Given(<<"n">>, <<"number", "2">>), Given(<<"q">>, <<"true">>)>>

Guarded == <<"guard", <<"value", <<"name", "a">>>>>>
Bound(arguments) == <<"binding", <<"a", ".", "b">>, arguments, <<"c">>>>
ClauseLists ==
  {<<>>, <<Guarded>>, <<Bound(<<>>)>>, <<Guarded, Bound(SomeArguments)>>, <<Guarded, Guarded, Bound(<<>>), Bound(<<>>)>>}

Literal(text) == <<"literal", text>>
Rule(name) == <<"rule", name>>

Bodies ==
  {<<"empty">>}
  \cup {<<"parts", ps>> : ps \in
         {<<Literal(<<"!">>)>>, <<Literal(<<"!", " ", "!">>), Rule(a), Literal(<<" ", "!">>)>>,
          <<Rule(<<"a", ".", "b">>), Literal(<<"!">>), <<"value", b>>, <<"capture", <<"a", ".", "b">>, b>>>>,
          <<Literal(<<"@", "<!--", "\"", "\\">>), <<"value", a>>>>,
          << <<"call", <<"a", ".", "b">>, SomeArguments>> >>, << <<"message", a, SomeArguments>> >>,
          << <<"message", a, <<>>>> >>}}

BlockContents ==
  {<<<<Literal(<<"!">>)>>>>, <<<<Literal(<<"!">>)>>, <<>>, <<Literal(<<" ", "!">>), Rule(a)>>>>,
   <<<<>>, <<Rule(a)>>, <<>>, <<>>>>, <<<<>>, <<>>>>}

BlockLine(parts) == L!Separated([i \in DOMAIN parts |->
                      IF parts[i][1] = "literal" THEN parts[i][2] ELSE <<"@">> \o parts[i][2]], <<>>)
BlockLines(content) == [i \in DOMAIN content |-> BlockLine(content[i])]

(* What a block means: trailing blank lines belong to it for keep only, one
   line end follows what is left, none for strip.                            *)
LastInked(content) == Max({0} \cup {i \in DOMAIN content : content[i] # <<>>})
BlockValue(content, chomp, newline) ==
  L!Separated(IF chomp = "keep" THEN content ELSE SubSeq(content, 1, LastInked(content)), <<newline>>)
    \o (IF chomp = "strip" THEN <<>> ELSE <<newline>>)

BlockBodies ==
  {[written |-> <<"block", BlockLines(content), raw, chomp>>,
    meant |-> <<"block", BlockValue(BlockLines(content), chomp, "\n"),
                IF raw THEN <<>> ELSE BlockValue(content, chomp, Newline), raw, chomp>>]
     : content \in BlockContents, raw \in BOOLEAN, chomp \in Chomps}

PlainLayout == [split |-> FALSE, remark |-> FALSE, reversed |-> FALSE, delimited |-> FALSE]
Layouts == [split : BOOLEAN, remark : BOOLEAN, reversed : BOOLEAN, delimited : BOOLEAN]

Tree(weight, id, clauses, prose) == [weight |-> weight, authored_id |-> id, clauses |-> clauses, body |-> prose]

Exclaim == <<"parts", <<Literal(<<"!">>)>>>>
Simple == Tree(<<"default">>, <<>>, <<>>, Exclaim)

ProductionPiece(tree, layout, fault) ==
  [kind |-> "production", fault |-> fault, tree |-> tree, lines |-> L!WriteProduction(tree, layout)]

TooDeep(expression, code) == IF L!Nesting(expression) > MaxExpressionDepth THEN code ELSE "none"

Productions ==
  {ProductionPiece(Tree(<<"dynamic", e>>, <<>>, <<>>, Exclaim), [PlainLayout EXCEPT !.reversed = r],
                   TooDeep(e, "E_WEIGHT_SYNTAX")) : e \in WeightTrees, r \in BOOLEAN}
  \cup {ProductionPiece(Tree(<<"default">>, <<>>, <<<<"guard", e>>>>, Exclaim), PlainLayout,
                        TooDeep(e, "E_GUARD_SYNTAX")) : e \in GuardTrees}
  \cup {ProductionPiece(Tree(w[1], w[2], cs, prose), layout, "none")
          : w \in {<<<<"default">>, <<>>>>, <<<<"static", "2">>, <<>>>>, <<<<"default">>, b>>,
                   <<<<"dynamic", <<"name", "a">>>>, b>>},
            cs \in ClauseLists, prose \in Bodies, layout \in {l \in Layouts : l.split = l.delimited}}
  \cup {[ProductionPiece(Tree(<<"static", "2">>, <<>>, cs, block.written), layout, "none")
           EXCEPT !.tree.body = block.meant]
          : cs \in {<<>>, <<Guarded>>}, block \in BlockBodies, layout \in {l \in Layouts : ~l.reversed /\ ~l.delimited}}

FaultyProductions ==
  LET made(text, code) == [kind |-> "production", fault |-> code, tree |-> Simple, lines |-> text] IN
  {made(<<<<"-", " ">>>>, "E_PRODUCTION_SYNTAX"),
   made(<<<<"-", " ", "[", "0", "]", " ", "!">>>>, "E_WEIGHT_SYNTAX"),
   made(<<<<"-", " ", "[", "2", " ", "!">>>>, "E_WEIGHT_SYNTAX"),
   made(<<<<"-", " ", "[", "2", "]", "!">>>>, "E_WEIGHT_SYNTAX"),
   made(<<<<"-", " ", "[", "a", " ", "b", "]", " ", "!">>>>, "E_WEIGHT_SYNTAX"),
   made(<<<<"-", " ", "[", "a", " ", "=", " ", "b", "]", " ", "!">>>>, "E_WEIGHT_SYNTAX"),
   made(<<<<"-", " ", "[", "id", " ", "=", " ", "b", ",", "id", " ", "=", " ", "b", "]">>>>, "E_WEIGHT_SYNTAX"),
   made(<<<<"-", " ", "[", "2", "]">>>>, "E_BODY_SYNTAX"),
   made(<<<<"-", " ", "{", "a">>>>, "E_BODY_SYNTAX"),
   made(<<<<"-", " ", "{", "a", "}", "!">>>>, "E_BODY_SYNTAX"),
   made(<<<<"-", " ", "{", "a", " ", "is", "}", " ", "!">>>>, "E_GUARD_SYNTAX"),
   made(<<<<"-", " ", "{", "(", "a", "}", " ", "!">>>>, "E_GUARD_SYNTAX"),
   made(<<<<"-", " ", "{", "a", " ", "as", " ", "b", "}">>, <<" ", " ", "{", "c", "}", " ", "!">>>>, "E_CLAUSE_ORDER"),
   made(<<<<"-", " ", "<!--", "!">>>>, "E_COMMENT_SYNTAX"),
   made(<<<<"-", " ", "!", "<!--", "<!--", "-->">>>>, "E_COMMENT_SYNTAX"),
   made(<<<<"-", " ", "!", " ">>>>, "E_BODY_SYNTAX"),
   made(<<<<"-", " ", "!">>, <<" ", " ", "!">>>>, "E_BODY_SYNTAX"),
   made(<<<<"-", " ", "\\", "q">>>>, "E_ESCAPE_SYNTAX"),
   made(<<<<"-", " ", "!", "\"", "\"">>>>, "E_STRING_SYNTAX"),
   made(<<<<"-", " ", "r\"", "\\">>>>, "E_STRING_SYNTAX"),
   made(<<<<"-", " ", "@">>>>, "E_BODY_SYNTAX"),
   made(<<<<"-", " ", "!", "&", "a">>>>, "E_CALL_SYNTAX"),
   made(<<<<"-", " ", "&", "a", "!">>>>, "E_CALL_SYNTAX"),
   made(<<<<"-", " ", "@", "a", " ", "<-", " ", "$", "b", ",", "b", ":", " ", "2">>>>, "E_ARGUMENT_SYNTAX"),
   made(<<<<"-", " ", "@", "a", " ", "<-">>, <<" ", " ", "$", "b">>, <<" ", " ", "$", "b">>>>, "E_ARGUMENT_SYNTAX"),
   made(<<<<"-", " ", "@", "a", " ", "<-">>, <<" ", " ">>, <<" ", " ", "$", "b">>>>, "E_ARGUMENT_SYNTAX"),
   made(<<<<"-", " ", "@", "a">>, <<" ", " ", "$", "b">>>>, "E_CALL_SYNTAX"),
   made(<<<<"-", " ", "|">>>>, "E_BLOCK_SYNTAX"),
   made(<<<<"-", " ", "|">>, <<" ", " ", "&", "a">>>>, "E_BLOCK_SYNTAX"),
   made(<<<<"-", " ", "|+">>, <<" ", " ", "!">>, <<" ", " ", "\"", "\"">>>>, "E_BLOCK_SYNTAX")}

---------------------------------------------------------------------------
(* Pieces and sources.                                                       *)

HeadingPiece(name, parameters) ==
  [kind |-> "heading", fault |-> "none", tree |-> [name |-> name, parameters |-> parameters],
   lines |-> <<L!WriteHeading([name |-> name, parameters |-> parameters])>>]
Broken(kind, lns, code) == [kind |-> kind, fault |-> code, tree |-> <<>>, lines |-> lns]

Sound == ProductionPiece(Simple, PlainLayout, "none")

BadHeadings ==
  {Broken("heading", <<<<"#", " ", "a", " ">>>>, "E_RULE_SYNTAX"),
   Broken("heading", <<<<"#", " ", "!">>>>, "E_INVALID_IDENTIFIER"),
   Broken("heading", <<<<"#", " ", "a", " ", "<-", " ", "b">>>>, "E_RULE_SYNTAX"),
   Broken("heading", <<<<"#", " ", "a", " ", "<-", " ", "b", ":", " ", "!">>>>, "E_INVALID_IDENTIFIER"),
   Broken("heading", <<<<"#", " ", "a", " ", "<-", " ", "b", ":", " ", "c", ",", "b", ":", " ", "c">>>>, "E_RULE_SYNTAX")}

(* A comment is over several lines, and may hold what reads as a heading; not
   where a fault precedes it, since recovery looks for headings and
   productions line by line, inside comments too.                            *)
Aside == Broken("comment", <<<<"<!--">>, <<"!">>, <<"-->">>>>, "none")

Comments ==
  {Broken("comment", <<<<"<!--", "!", "-->", " ">>>>, "none"),
   Broken("comment", <<<<"<!--">>, <<"#", " ", "a">>, <<"-", " ", "-->">>>>, "none"),
   Broken("comment", <<<<"<!--", "!">>>>, "E_COMMENT_SYNTAX"),
   Broken("comment", <<<<"<!--", "!", "-->", "!">>>>, "E_COMMENT_SYNTAX"),
   Broken("comment", <<<<>>, <<" ", "<!--", "!", "-->">>>>, "E_COMMENT_SYNTAX"),
   Broken("comment", <<<<"<!--">>, <<"<!--", "-->">>>>, "E_COMMENT_SYNTAX")}

Stray1 == Broken("stray", <<<<>>, <<" ", " ", "!">>>>, "stray")
Blank == Broken("comment", <<<<>>>>, "none")

Parameters2 == <<[name |-> b, type_name |-> a], [name |-> a, type_name |-> a]>>

(* Sequences of pieces: every order of these up to four.                     *)
Mixed ==
  {HeadingPiece(a, <<>>), HeadingPiece(b, Parameters2), Sound, Stray1,
   CHOOSE h \in BadHeadings : h.fault = "E_INVALID_IDENTIFIER",
   CHOOSE p \in FaultyProductions : p.fault = "E_ESCAPE_SYNTAX",
   Aside, CHOOSE c \in Comments : c.fault # "none" /\ Len(c.lines) = 1}

Sequences4 == UNION {[1 .. n -> Mixed] : n \in 0 .. 4}

InContext == {<<HeadingPiece(a, <<>>), p, Blank, Sound, HeadingPiece(b, <<>>), Sound>>
                : p \in FaultyProductions \cup Productions \cup Comments}
             \cup {<<HeadingPiece(b, Parameters2), Sound, p, Sound, HeadingPiece(a, <<>>), Sound>>
                     : p \in Comments \cup BadHeadings}

Written(h, pieces, lineEnd, ended) ==
  [header |-> [tree |-> h.tree, fault |-> h.fault],
   pieces |-> [i \in DOMAIN pieces |-> [kind |-> pieces[i].kind, fault |-> pieces[i].fault, tree |-> pieces[i].tree]],
   text |-> L!WriteSource(h.lines \o L!Separated([i \in DOMAIN pieces |-> pieces[i].lines], <<>>), lineEnd, ended)]

OneRule == <<HeadingPiece(a, <<>>), Sound>>
Headers == {HeaderOf(fields) : fields \in Orders(FieldsOfHeaders) \cup Orders(OtherFields \cup {CHOOSE f \in FieldsOfHeaders : f.key = "meco"})}
           \cup FaultyHeaders

MCSources ==
  {Written(Unterminated, <<>>, <<"\n">>, TRUE)}
  \cup {Written(h, OneRule, <<"\n">>, TRUE) : h \in Headers}
  \cup {Written(PlainHeader, pieces, <<"\n">>, TRUE) : pieces \in InContext \cup Sequences4}
  \cup {Written(h, OneRule, <<"\r", "\n">>, ended) : ended \in BOOLEAN, h \in {PlainHeader, HeaderOf(SetToSeq(OtherFields))}}
============================================================================

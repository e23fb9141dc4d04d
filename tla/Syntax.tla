------------------------------- MODULE Syntax -------------------------------
(***************************************************************************)
(* The parser of roca-parse (parser.rs): a recursive descent over the      *)
(* tokens of a file, one or two tokens of lookahead, no separators.        *)
(*                                                                         *)
(* The productions are data, a form per alternative of a parse_ function:  *)
(* the tag of the node it builds and the parts it reads, tokens to expect  *)
(* and phrases to parse.  Form chooses one by the lookahead, as the match  *)
(* at the head of each parse_ function does; Parse, Parts and Many are the *)
(* code those functions share.  A panic keeps the place where it happened. *)
(*                                                                         *)
(* A behaviour writes a text of one of the Languages token by token and    *)
(* stops where the parser panicked before the end of it: no continuation   *)
(* mends that text.  A token is a string; the tokenizer is not modelled.   *)
(***************************************************************************)
EXTENDS Integers, Sequences, SequencesExt

CONSTANTS Lower,      \* identifiers that begin with a lower-case letter or _
          Upper,      \* identifiers that begin with an upper-case letter
          Literals,   \* Int and Bool literals
          Strings,    \* String literals
          Floats,     \* Float literals, which are no patterns
          Languages,  \* a sequence of records: start phrase, first tokens,
                      \* alphabet, greatest length of a text
          MaxNesting  \* how deep the brackets of a text may nest

VARIABLES language, text, result

vars == <<language, text, result>>

Idents == Lower \cup Upper
Names == Idents \cup {"o", "b"}        \* what expect_ident takes

Node(tag, word, kids) == [tag |-> tag, word |-> word, kids |-> kids]
Leaf(tag, word) == Node(tag, word, <<>>)
Done(tree, i) == [ok |-> TRUE, at |-> i, tree |-> tree]
Panic(i) == [ok |-> FALSE, at |-> i, tree |-> Leaf("none", "")]

-----------------------------------------------------------------------------
(* The forms.  A form without a tag hands its only part up.                *)

form(tag, word, parts) == [tag |-> tag, word |-> word, parts |-> parts]
Word(tag, t) == form(tag, t, <<t>>)
Same(phrase) == form("", "", <<phrase>>)
NoForm == form("", "", <<"unexpected">>)     \* no token is that one

\* The arithmetic levels the wrong way round.
BugLevels == <<{"||"}, {"&&"}, {"==", "!="}, {"<", ">", "<=", ">="}, {"*", "/", "%"}, {"+", "-"}>>

\* The six levels of binary operators, the loosest first.
Levels == <<{"||"}, {"&&"}, {"==", "!="}, {"<", ">", "<=", ">="}, {"+", "-"}, {"*", "/", "%"}>>

\* A break that takes the name after it for a label.
BugJump(ts, i) == form(ts[i], ts[i], IF ts[i + 1] \in Idents THEN <<ts[i], "Name">> ELSE <<ts[i]>>)

Jump(ts, i) == Word(ts[i], ts[i])

Statement(ts, i) ==
    CASE ts[i] = "const" -> form("const", "", <<"const", "Name", "=", "Expr">>)
      [] ts[i] = "var" -> form("var", "", <<"var", "Name", "=", "Expr">>)
      [] ts[i] = "let" -> form("let", "", <<"let", "Name", "Spares", "=", "Expr">>)
      [] ts[i] = "return" -> form("return", "", <<"return", "Expr">>)
      [] ts[i] = "if" -> form("if", "", <<"if", "Expr", "{", "Stmts", "}", "Else">>)
      [] ts[i] = "for" -> form("for", "", <<"for", "Name", "in", "Expr", "{", "Stmts", "}">>)
      [] ts[i] = "loop" -> form("loop", "", <<"loop", "{", "Stmts", "}">>)
      [] ts[i] \in {"break", "continue"} -> Jump(ts, i)
      [] ts[i] = "self" ->
           IF ts[i + 1] = "." /\ ts[i + 2] \in Names /\ ts[i + 3] = "="
           THEN form("setField", "self", <<"self", ".", "Name", "=", "Expr">>)
           ELSE form("expr", "", <<"Postfixed">>)
      [] ts[i] \in Idents /\ ts[i + 1] = "=" -> form("assign", "", <<"Name", "=", "Expr">>)
      [] OTHER -> form("expr", "", <<"Expr">>)

Unary(ts, i) == IF ts[i] \in {"!", "-"} THEN form("unary", ts[i], <<ts[i], "Unary">>) ELSE Same("Postfixed")

\* A method call reads as the call of a field: parse_postfix builds the same
\* tree for e.f(x) as for (e.f)(x).
Suffix(t) ==
    CASE t = "." -> form("field", "", <<".", "Name">>)
      [] t = "(" -> form("call", "", <<"(", "Args", ")">>)
      [] t = "[" -> form("index", "", <<"[", "Expr", "]">>)

Primary(ts, i) ==
    CASE ts[i] \in Literals \cup Strings \cup Floats \cup {"Unit"} -> Word("literal", ts[i])
      [] ts[i] = "self" -> Word("self", "self")
      [] ts[i] = "wait" -> form("wait", "wait", <<"wait", "Postfixed">>)
      [] ts[i] = "!" -> form("unary", "!", <<"!", "Postfixed">>)
      [] ts[i] = "fn" -> form("closure", "", <<"fn", "(", "Names", ")", "->", "Expr">>)
      [] ts[i] = "if" -> form("ifExpr", "", <<"if", "Expr", "{", "Stmts", "}", "Else">>)
      [] ts[i] = "match" -> form("match", "", <<"match", "Expr", "{", "Arms", "}">>)
      [] ts[i] = "[" -> form("array", "", <<"[", "Elements", "]">>)
      [] ts[i] = "(" -> form("", "", <<"(", "Expr", ")">>)
      [] ts[i] = "{" -> form("block", "", <<"{", "Stmts", "}">>)
      [] ts[i] \in Names ->
           IF ts[i] \in Upper /\ ts[i + 1] = "{" THEN form("struct", "", <<"Name", "{", "Inits", "}">>)
           ELSE IF ts[i] \in Idents /\ ts[i + 1] = "." /\ ts[i + 2] \in Upper
           THEN form("enum", "", <<"Name", ".", "Name", "Payload">>)
           ELSE Same("Name")
      [] OTHER -> NoForm

\* A pattern that binds a name is read as the wildcard: the name is lost.
Pattern(ts, i) ==
    CASE ts[i] \in Literals \cup Strings -> Word("literal", ts[i])
      [] ts[i] \in Idents ->
           IF ts[i] # "_" /\ ts[i + 1] = "." THEN form("variant", "", <<"Name", ".", "Name", "Bindings">>)
           ELSE form("wildcard", "_", <<ts[i]>>)
      [] OTHER -> NoForm

Type(ts, i) ==
    IF ts[i] = "Array" /\ ts[i + 1] = "<" THEN form("type", "Array", <<"Array", "<", "Type", ">">>) ELSE
    CASE ts[i] = "Optional" -> form("type", "Optional", <<"Optional", "<", "Type", ">">>)
      [] ts[i] = "fn" -> form("type", "", <<"fn", "(", "Types", ")", "->", "Type">>)
      [] ts[i] \in (Idents \ {"Optional"}) \cup {"Unit"} -> Word("type", ts[i])     \* Array alone: an Array of Any
      [] OTHER -> NoForm

Declaration(t) ==
    CASE t = "fn" -> form("fn", "", <<"fn", "Name", "(", "Params", ")", "->", "Type", "{", "Body", "Test", "}">>)
      [] t = "struct" -> form("structDef", "", <<"struct", "Name", "{", "Fields", "}", "{", "Methods", "}">>)
      [] t = "enum" -> form("enumDef", "", <<"enum", "Name", "{", "Variants", "}">>)
      [] OTHER -> NoForm

Public(f) == form(f.tag, "pub", <<"pub">> \o f.parts)

Item(ts, i) ==
    CASE ts[i] = "pub" -> Public(Declaration(ts[i + 1]))
      [] ts[i] = "import" -> form("import", "", <<"import", "{", "Imports", "}", "from", "Path">>)
      [] OTHER -> Declaration(ts[i])

Method(ts, i) == IF ts[i] = "pub" THEN Public(Declaration("fn")) ELSE Declaration("fn")

Form(ts, phrase, i) ==
    CASE phrase = "Stmt" -> Statement(ts, i)
      [] phrase = "Unary" -> Unary(ts, i)
      [] phrase = "Primary" -> Primary(ts, i)
      [] phrase = "Pattern" -> Pattern(ts, i)
      [] phrase = "Type" -> Type(ts, i)
      [] phrase = "Item" -> Item(ts, i)
      [] phrase = "Method" -> Method(ts, i)
      [] phrase = "Param" ->
           form("param", "", IF ts[i] \in {"o", "b"} THEN <<"Own", "Name", ":", "Type">> ELSE <<"Name", ":", "Type">>)
      [] phrase = "Field" -> form("fieldDef", "", <<"Name", ":", "Type">>)
      [] phrase = "Variant" ->
           IF ts[i + 1] = "(" THEN form("data", "", <<"Name", "(", "Types", ")">>) ELSE form("unit", "", <<"Name">>)
      [] phrase = "Init" -> form("init", "", <<"Name", ":", "Expr">>)
      [] phrase = "Arm" -> form("arm", "", <<"Pattern", "=>", "Expr">>)
      [] phrase = "Case" -> form("case", "==", <<"self", "(", "Args", ")", "==", "Expr">>)

\* The phrases a single token makes up.
Tokens == [Name |-> Names, Own |-> {"o", "b"}, Path |-> Strings]

\* The lists: their element, what ends them, and whether a comma is eaten
\* after an element.  A list that ends at a brace also ends at the end of the
\* file, where its closing brace is then missed.
List(of, close, comma) == [of |-> of, close |-> close, comma |-> comma]
Lists == [Args |-> List("Expr", {")"}, TRUE),       Elements |-> List("Expr", {"]"}, TRUE),
          Inits |-> List("Init", {"}", "eof"}, TRUE), Names |-> List("Name", {")"}, TRUE),
          Imports |-> List("Name", {"}"}, TRUE),    Params |-> List("Param", {")"}, TRUE),
          Types |-> List("Type", {")"}, TRUE),      Variants |-> List("Variant", {"}", "eof"}, TRUE),
          Stmts |-> List("Stmt", {"}", "eof"}, FALSE),    Arms |-> List("Arm", {"}", "eof"}, FALSE),
          Fields |-> List("Field", {"}", "eof"}, FALSE),  Methods |-> List("Method", {"}", "eof"}, FALSE),
          Cases |-> List("Case", {"}", "eof"}, FALSE),    Items |-> List("Item", {"eof"}, FALSE),
          Body |-> List("Stmt", {"}", "eof", "test"}, FALSE)]

\* The parts that may be missing.
Optionals == [Else |-> <<"else", "{", "Stmts", "}">>,  Test |-> <<"test", "{", "Cases", "}">>,
              Payload |-> <<"(", "Args", ")">>,        Bindings |-> <<"(", "Names", ")">>,
              Spares |-> <<",", "Name", "Spares">>]

\* The arguments of an enum variant forgotten.
BugPresent(phrase, kids) ==
    IF phrase \in {"Spares", "Payload"} THEN Leaf(phrase, "") ELSE Node(phrase, "", kids)

\* Spares are read and forgotten, and a variant without arguments is one with
\* none; a missing else or test is not an empty one.
Present(phrase, kids) ==
    CASE phrase = "Spares" -> Leaf(phrase, "")
      [] phrase \in {"Payload", "Bindings"} -> Node(phrase, "", kids[1].kids)
      [] OTHER -> Node(phrase, "", kids)

-----------------------------------------------------------------------------
(* The descent.                                                            *)

RECURSIVE Parse(_, _, _), Parts(_, _, _, _), Many(_, _, _, _),
          Binary(_, _, _), Climb(_, _, _), Postfix(_, _)

Parse(ts, phrase, i) ==
    CASE phrase = "Expr" -> Binary(ts, 1, i)
      [] phrase = "Postfixed" -> Postfix(ts, Parse(ts, "Primary", i))
      [] phrase \in DOMAIN Tokens -> IF ts[i] \in Tokens[phrase] THEN Done(Leaf("name", ts[i]), i + 1) ELSE Panic(i)
      [] phrase \in DOMAIN Lists -> Many(ts, phrase, i, <<>>)
      [] phrase \in DOMAIN Optionals ->
           IF ts[i] # Optionals[phrase][1] THEN Done(Leaf(phrase, ""), i)
           ELSE LET r == Parts(ts, Optionals[phrase], i, <<>>)
                IN  IF r.ok THEN Done(Present(phrase, r.tree.kids), r.at) ELSE r
      [] OTHER ->
           LET f == Form(ts, phrase, i)
               r == Parts(ts, f.parts, i, <<>>)
           IN  CASE ~r.ok -> r
                 [] r.ok /\ f.tag = "" -> Done(r.tree.kids[1], r.at)
                 [] OTHER -> Done(Node(f.tag, f.word, r.tree.kids), r.at)

Phrases == {"Expr", "Postfixed", "Stmt", "Unary", "Primary", "Pattern", "Type", "Item", "Method", "Param", "Field",
            "Variant", "Init", "Arm", "Case"} \cup DOMAIN Tokens \cup DOMAIN Lists \cup DOMAIN Optionals

\* A sequence of parts: a phrase is parsed, a token expected.
Parts(ts, parts, i, kids) ==
    CASE parts = <<>> -> Done(Node("parts", "", kids), i)
      [] parts # <<>> /\ Head(parts) \in Phrases ->
           LET r == Parse(ts, Head(parts), i)
           IN  IF r.ok THEN Parts(ts, Tail(parts), r.at, Append(kids, r.tree)) ELSE r
      [] OTHER -> IF ts[i] = Head(parts) THEN Parts(ts, Tail(parts), i + 1, kids) ELSE Panic(i)

Many(ts, list, i, kids) ==
    IF ts[i] \in Lists[list].close THEN Done(Node(list, "", kids), i)
    ELSE LET r == Parse(ts, Lists[list].of, i)
             next == IF Lists[list].comma /\ ts[r.at] = "," THEN r.at + 1 ELSE r.at
         IN  IF r.ok THEN Many(ts, list, next, Append(kids, r.tree)) ELSE r

\* parse_or down to parse_mul: the operators of a level, from the left.
Binary(ts, level, i) ==
    IF level > Len(Levels) THEN Parse(ts, "Unary", i) ELSE Climb(ts, level, Binary(ts, level + 1, i))

Climb(ts, level, left) ==
    IF ~left.ok \/ ts[left.at] \notin Levels[level] THEN left
    ELSE LET right == Binary(ts, level + 1, left.at + 1)
         IN  IF right.ok
             THEN Climb(ts, level, Done(Node("binary", ts[left.at], <<left.tree, right.tree>>), right.at))
             ELSE right

Postfix(ts, target) ==
    IF ~target.ok \/ ts[target.at] \notin {".", "(", "["} THEN target
    ELSE LET f == Suffix(ts[target.at])
             r == Parts(ts, f.parts, target.at, <<target.tree>>)
         IN  IF r.ok THEN Postfix(ts, Done(Node(f.tag, "", r.tree.kids), r.at)) ELSE r

ParseText(toks, phrase) == Parse(toks \o <<"eof">>, phrase, 1)

\* The parser read all of the text; it was stopped by nothing but its end.
Whole(r, ts) == r.ok /\ r.at = Len(ts) + 1
Viable(r, ts) == r.at = Len(ts) + 1

-----------------------------------------------------------------------------
(* The behaviours: a text is written from the left.                       *)

Init == /\ language \in DOMAIN Languages
        /\ text = Languages[language].from
        /\ result = ParseText(text, Languages[language].start)

Opening == {"(", "[", "{"}
Nesting(ts) == Len(SelectSeq(ts, LAMBDA t : t \in Opening)) - Len(SelectSeq(ts, LAMBDA t : t \in {")", "]", "}"}))

Next == \E t \in Languages[language].alphabet :
           /\ Viable(result, text)
           /\ Len(text) < Languages[language].length
           /\ t \in Opening => Nesting(text) < MaxNesting
           /\ text' = Append(text, t)
           /\ result' = ParseText(text', Languages[language].start)
           /\ UNCHANGED language

Spec == Init /\ [][Next]_vars

=============================================================================

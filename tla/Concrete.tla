------------------------------ MODULE Concrete ------------------------------
(***************************************************************************)
(* What the parser of Syntax owes its readers.  Written puts a tree back   *)
(* in the concrete syntax the documentation describes                      *)
(* (docs/src/spec/syntax.md): its table of operator precedences, commas in *)
(* the lists it writes with commas, nothing between statements, arms and   *)
(* declarations.  It knows the grammar from there and not from the parser. *)
(* One thing it cannot write: a statement that ends in a capitalised name  *)
(* before a block, which would be taken for the fields of a literal.       *)
(***************************************************************************)
EXTENDS Syntax

Documented == <<{"||"}, {"&&"}, {"==", "!="}, {"<", ">", "<=", ">="}, {"+", "-"}, {"*", "/", "%"}>>

\* How tightly a tree holds together; a closure runs on to its right as far
\* as it can, so that it is always put in parentheses.
Strength(t) == CASE t.tag = "binary" -> CHOOSE l \in 1..6 : t.word \in Documented[l]
                 [] t.tag = "unary" -> 7
                 [] t.tag = "wait" -> 8
                 [] t.tag = "closure" -> 0
                 [] OTHER -> 9

\* The shape of the rest: "#1" is the first kid, "?" the node's own word.
Shapes == [name |-> <<"?">>, literal |-> <<"?">>, self |-> <<"?">>, wildcard |-> <<"?">>,
           break |-> <<"?">>, continue |-> <<"?">>,
           closure |-> <<"fn", "(", "#1", ")", "->", "#2">>, array |-> <<"[", "#1", "]">>,
           block |-> <<"{", "#1", "}">>, struct |-> <<"#1", "{", "#2", "}">>,
           enum |-> <<"#1", ".", "#2", "(", "#3", ")">>, variant |-> <<"#1", ".", "#2", "(", "#3", ")">>,
           ifExpr |-> <<"if", "#1", "{", "#2", "}", "#3">>, match |-> <<"match", "#1", "{", "#2", "}">>,
           const |-> <<"const", "#1", "=", "#2">>, var |-> <<"var", "#1", "=", "#2">>,
           let |-> <<"let", "#1", "=", "#3">>, assign |-> <<"#1", "=", "#2">>,
           setField |-> <<"self", ".", "#1", "=", "#2">>, return |-> <<"return", "#1">>, expr |-> <<"#1">>,
           if |-> <<"if", "#1", "{", "#2", "}", "#3">>, for |-> <<"for", "#1", "in", "#2", "{", "#3", "}">>,
           loop |-> <<"loop", "{", "#1", "}">>, Else |-> <<"else", "{", "#1", "}">>,
           Test |-> <<"test", "{", "#1", "}">>, case |-> <<"self", "(", "#1", ")", "==", "#2">>,
           arm |-> <<"#1", "=>", "#2">>, init |-> <<"#1", ":", "#2">>, fieldDef |-> <<"#1", ":", "#2">>,
           data |-> <<"#1", "(", "#2", ")">>, unit |-> <<"#1">>,
           import |-> <<"import", "{", "#1", "}", "from", "#2">>,
           fn |-> <<"?", "fn", "#1", "(", "#2", ")", "->", "#3", "{", "#4", "#5", "}">>,
           structDef |-> <<"?", "struct", "#1", "{", "#2", "}", "{", "#3", "}">>,
           enumDef |-> <<"?", "enum", "#1", "{", "#2", "}">>]

Kid == "#1" :> 1 @@ "#2" :> 2 @@ "#3" :> 3 @@ "#4" :> 4 @@ "#5" :> 5
WithCommas == {"Args", "Elements", "Inits", "Names", "Imports", "Params", "Types", "Variants", "Payload", "Bindings"}
ListTags == WithCommas \cup {"Stmts", "Body", "Arms", "Fields", "Methods", "Cases", "Items"}

Bracketed(toks) == <<"(">> \o toks \o <<")">>
\* Before a block: a name that begins with a capital would take it for its fields.
Subject(toks) == IF Last(toks) \in Upper THEN Bracketed(toks) ELSE toks
\* An expression as a statement: it must not begin as another statement does.
Alone(t, toks) == IF Head(toks) = "if" \/ (Head(toks) = "self" /\ t.tag = "binary") THEN Bracketed(toks) ELSE toks

RECURSIVE Written(_), Joined(_, _), Filled(_, _)

\* The target of a suffix, an operand: in parentheses if it is held together
\* less tightly than its place.
Operand(t, strength) == IF Strength(t) < strength THEN Bracketed(Written(t)) ELSE Written(t)

Joined(kids, separator) ==
    CASE kids = <<>> -> <<>>
      [] Len(kids) = 1 -> Written(kids[1])
      [] OTHER -> Written(kids[1]) \o separator \o Joined(Tail(kids), separator)

Filled(shape, t) ==
    IF shape = <<>> THEN <<>>
    ELSE LET hole == Head(shape)
             piece ==
                 IF hole = "?" THEN IF t.word = "" THEN <<>> ELSE <<t.word>>
                 ELSE IF hole \notin DOMAIN Kid THEN <<hole>> ELSE
                 CASE t.tag \in {"if", "ifExpr", "match", "for"} /\ Tail(shape) # <<>> /\ shape[2] = "{" ->
                        Subject(Written(t.kids[Kid[hole]]))
                   [] t.tag = "expr" -> Alone(t.kids[1], Written(t.kids[1]))
                   [] OTHER -> Written(t.kids[Kid[hole]])
         IN  piece \o Filled(Tail(shape), t)

Written(t) ==
    CASE t.tag = "binary" ->
           Operand(t.kids[1], Strength(t)) \o <<t.word>> \o Operand(t.kids[2], Strength(t) + 1)
      [] t.tag \in {"unary", "wait"} -> <<t.word>> \o Operand(t.kids[1], Strength(t))
      [] t.tag = "field" ->
           (IF t.kids[1].tag = "name" /\ t.kids[2].word \in Upper   \* not the variant of an enum
            THEN Bracketed(Written(t.kids[1])) ELSE Operand(t.kids[1], 9)) \o <<".">> \o Written(t.kids[2])
      [] t.tag = "call" -> Operand(t.kids[1], 9) \o Bracketed(Written(t.kids[2]))
      [] t.tag = "index" -> Operand(t.kids[1], 9) \o <<"[">> \o Written(t.kids[2]) \o <<"]">>
      [] t.tag = "type" ->
           CASE t.kids = <<>> -> <<t.word>>
             [] Len(t.kids) = 1 -> <<t.word, "<">> \o Written(t.kids[1]) \o <<">">>
             [] OTHER -> <<"fn">> \o Bracketed(Written(t.kids[1])) \o <<"->">> \o Written(t.kids[2])
      [] t.tag = "param" -> Joined(Front(t.kids), <<>>) \o <<":">> \o Written(Last(t.kids))
      [] t.tag \in ListTags -> Joined(t.kids, IF t.tag \in WithCommas THEN <<",">> ELSE <<>>)
      [] t.tag \in {"Else", "Test"} /\ t.kids = <<>> -> <<>>
      [] OTHER -> Filled(Shapes[t.tag], t)

-----------------------------------------------------------------------------
(* The words of a text: what a reader must find again in the tree.         *)

Words == Names \cup Literals \cup Strings \cup Floats \cup {"!"} \cup (UNION Range(Documented) \ {"<", ">"})

RECURSIVE WordsOf(_), WordsOfAll(_)
WordsOfAll(kids) == IF kids = <<>> THEN <<>> ELSE WordsOf(Head(kids)) \o WordsOfAll(Tail(kids))
WordsOf(t) ==
    LET own == IF t.word \in Words THEN <<t.word>> ELSE <<>>
    IN  IF t.tag \in {"binary", "case"} THEN WordsOf(t.kids[1]) \o own \o WordsOf(t.kids[2]) ELSE own \o WordsOfAll(t.kids)

\* The two places where the parser reads a name and forgets it: the second
\* name of a let, and a name alone as a pattern.
ForgetsAName(ts) ==
    \E k \in 1..Len(ts) - 1 : \/ ts[k + 1] = "=>" /\ ts[k] \in Idents \ {"_"}
                              \/ ts[k + 1] = "," /\ k > 1 /\ ts[k - 1] = "let"

\* A text that begins so goes on with the expression before it.
GoesOn(ts) == Head(ts) \in {"-", "(", "["}

start == Languages[language].start
Accepted == Whole(result, text)

\* Every tree the parser builds, written in the documented syntax, is read
\* back as the same tree: operators have the documented precedence and
\* associate to the left, a suffix belongs to the tightest operand, and what
\* the lookahead decides is decided as the documentation says
\* (parser.rs:299-760).
ReadsBack ==
    Accepted => LET written == Written(result.tree)
                    again == ParseText(written, start)
                IN  Whole(again, written) /\ again.tree = result.tree

\* Nothing that was written is lost or moved: the names, literals and
\* operators of a text are those of its tree, in their order, but for the
\* names ForgetsAName tells.
NothingIsLost ==
    Accepted /\ ~ForgetsAName(text) => WordsOf(result.tree) = SelectSeq(text, LAMBDA t : t \in Words)

\* Statements need no separator: two texts that are statements each, written
\* one after the other, are the statements of the first and then those of the
\* second, unless the second begins with what continues an expression
\* (parse_stmt, parser.rs:299-383).
StatementsStandAlone ==
    start = "Stmts" =>
        \A k \in 1..Len(text) - 1 :
            LET one == SubSeq(text, 1, k)
                two == SubSeq(text, k + 1, Len(text))
                first == ParseText(one, start)
                second == ParseText(two, start)
            IN  ~GoesOn(two) /\ Whole(first, one) /\ Whole(second, two)
                    => Accepted /\ result.tree.kids = first.tree.kids \o second.tree.kids

=============================================================================

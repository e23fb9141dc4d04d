------------------------------ MODULE MCSyntax ------------------------------
EXTENDS Concrete

Language(begin, from, length, alphabet) ==
    [start |-> begin, from |-> from, length |-> Len(from) + length, alphabet |-> alphabet]

TheLanguages ==
    <<Language("Expr", <<>>, 7, {"a", "-", "*", "!", "(", ")"}),
      Language("Expr", <<"(">>, 6, {"a", "||", "&&", "==", "<", "+", "*", ")"}),
      Language("Expr", <<>>, 6, {"a", "A", ".", "(", ")", "[", "]", ","}),
      Language("Expr", <<>>, 5, {"a", "b", "wait", "!", "-", ".", "(", ")"}),
      Language("Expr", <<"fn">>, 7, {"a", "fn", "(", ")", "->", ",", "+"}),
      Language("Expr", <<>>, 7, {"a", "A", "{", "}", ":", ","}),
      Language("Expr", <<"match">>, 7, {"1", "A", "_", "{", "}", "=>"}),
      Language("Expr", <<"match", "1", "{", "A", ".">>, 7, {"1", "A", "_", "}", "=>", "(", ")", ","}),
      Language("Stmts", <<>>, 6, {"a", "=", "let", "return", "break", "self", ".", "-"}),
      Language("Stmts", <<>>, 6, {"a", "if", "else", "loop", "{", "}"}),
      Language("Stmts", <<"let", "a">>, 6, {"a", ",", "="}),
      Language("Stmts", <<"for">>, 8, {"a", "in", "const", "continue", "=", "{", "}"}),
      Language("Items", <<"fn">>, 11, {"a", "(", ")", "->", "{", "}", "o", ":", ","}),
      Language("Items", <<"fn", "a", "(", ")", "->", "A", "{", "test", "{">>, 9, {"1", "self", "}", "(", ")", "=="}),
      Language("Items", <<>>, 10, {"struct", "enum", "pub", "A", "{", "}", "(", ")", ":", ","}),
      Language("Items", <<"struct", "A", "{", "}", "{">>, 12, {"pub", "fn", "a", "(", ")", "->", "{", "}"}),
      Language("Items", <<>>, 8, {"import", "from", "a", "{", "}", ",", "path"}),
      Language("Items", <<"struct", "A", "{", "a", ":">>, 8, {"A", "Array", "Optional", "fn", "<", ">", "(", ")", "->", "}"})>>
=============================================================================

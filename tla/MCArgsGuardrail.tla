--------------------------- MODULE MCArgsGuardrail ---------------------------
(* Three queryable spellings, two synonyms, one of them ambiguous, and a name *)
(* nobody knows; requests that vary the fields, and requests that vary the    *)
(* rest around a few fields.                                                  *)
EXTENDS ArgsGuardrail

MCNames == {"Sales", "sales", "Ratio", "turnover", "money", "Ghost"}
MCCanonical == [n \in MCNames |-> CASE n \in {"Sales", "sales"} -> "Sales"
                                     [] n = "Ratio" -> "Ratio"
                                     [] OTHER -> None]
MCSynonyms == [n \in MCNames |-> CASE n = "turnover" -> {"Ratio"}
                                    [] n = "money" -> {"Sales", "Ratio"}
                                    [] OTHER -> {}]
MCWords == {"SUM", "sum", "YEAR", "DESC", "desc", "bad"}
MCProper == [w \in MCWords |-> CASE w \in {"SUM", "sum"} -> "SUM"
                                  [] w \in {"DESC", "desc"} -> "DESC"
                                  [] w = "YEAR" -> "YEAR"
                                  [] OTHER -> None]

Field == [caption : MCNames \cup {None}, alias : {None, "Sales", "turnover"},
          function : {None, "SUM", "sum", "YEAR", "bad"}, agg : {None, "sum", "YEAR"}]
Plain(name, f) == [caption |-> name, alias |-> None, function |-> f, agg |-> None]
Few == {Plain("Sales", "SUM"), Plain("sales", None), Plain("turnover", "sum")}

Request(fields, limit, own, timeout, order, detail, question, foreign, filters) ==
    [query |-> [fields |-> fields, limit |-> own, order |-> order, detail |-> detail, filters |-> filters],
     limit |-> limit, timeout |-> timeout, question |-> question, foreign |-> foreign]

As(n, t) == [n |-> n, text |-> t]

MCArguments ==
    {Request(f, As(1, FALSE), None, None, None, FALSE, "plain", FALSE, <<>>) :
        f \in {<<x>> : x \in Field} \cup {<<x, y>> : x \in Field, y \in Few}
             \cup {<<x, x, x>> : x \in Few}}
    \cup
    {Request(<<f>>, limit, own, timeout, order, detail, question, foreign, filters) :
        f \in Few,
        limit \in {None, As(0, FALSE), As(1, FALSE), As(1, TRUE), As(2, FALSE), As(3, FALSE), As(3, TRUE)},
        own \in {None, As(1, TRUE), As(3, FALSE)},
        timeout \in {None, As(0, FALSE), As(3, TRUE)},
        order \in {None, "desc", "bad"},
        detail \in BOOLEAN, question \in {"plain", "sum", "negative"}, foreign \in BOOLEAN,
        filters \in {<<>>, <<"sales">>, <<"Ghost">>}}
=============================================================================

---------------------------- MODULE ArgsGuardrail ----------------------------
(***************************************************************************)
(* validate_mcp_args of services/data_agent/mcp_args_guardrail.py: the     *)
(* arguments of a query-datasource call pass its stages in order, each of  *)
(* which leaves them alone, repairs them and says so, or rejects them.     *)
(* Callers that know the metadata give synonyms and formulas along; the    *)
(* others (_execute_vizql) hand what passed to execute_query, which guards *)
(* it once more: the second pass.                                          *)
(*                                                                         *)
(* Names are abstract: Canonical says to which queryable field a name is   *)
(* normalised, Proper to which spelling a word belongs.                    *)
(***************************************************************************)
EXTENDS Naturals, Sequences, FiniteSets

CONSTANTS None,
          Names,       \* captions as callers write them
          Queryable,   \* the datasource's queryable fields
          Canonical,   \* [Names -> Queryable \cup {None}]: _normalize_field
          Synonyms,    \* [Names -> SUBSET Queryable]: field_synonyms
          AggregateCalcs, \* queryable fields whose formula aggregates
          Words,       \* aggregations as callers write them
          Proper,      \* [Words -> Words \cup {None}]: _normalize_token
          Sums,        \* aggregations that sum up (_has_aggregate_field)
          Arguments,   \* the arguments callers send
          MaxLimit,    \* 100 in the code
          MaxTimeout,  \* 60 in the code
          MaxWidth     \* 20 in the code

ASSUME NamesAssumption ==
    /\ Queryable \subseteq Names /\ AggregateCalcs \subseteq Queryable
    /\ None \notin Names \cup Words
    /\ Canonical \in [Names -> Queryable \cup {None}]
    /\ \A q \in Queryable : Canonical[q] = q
    /\ Synonyms \in [Names -> SUBSET Queryable]
    /\ Proper \in [Words -> Words \cup {None}]
    /\ Sums \subseteq Words
    /\ \A w \in Words : Proper[w] # None => Proper[Proper[w]] = Proper[w]

\* A number as the caller wrote it.
NumberText == [n : Nat, text : BOOLEAN]

\* A field, under each of the keys that callers use, and the arguments of a query.
FieldType == [caption : Names \cup {None}, alias : Names \cup {None},
              function : Words \cup {None}, agg : Words \cup {None}]
QueryType == [fields : Seq(FieldType), limit : NumberText \cup {None}, order : Words \cup {None},
              detail : BOOLEAN, filters : Seq(Names)]
ArgumentsType == [query : QueryType, limit : NumberText \cup {None}, timeout : NumberText \cup {None},
                  question : {"plain", "sum", "negative"}, foreign : BOOLEAN]

ASSUME ArgumentsAssumption == Arguments \subseteq ArgumentsType /\ None \notin NumberText
ASSUME BoundsAssumption == MaxLimit \in Nat \ {0} /\ MaxTimeout \in Nat \ {0} /\ MaxWidth \in Nat

VARIABLES informed, \* the caller knows synonyms and formulas
          asked,    \* the arguments of this pass
          args,     \* the copy that is repaired
          repairs,  \* what was repaired: a set of <<kind, where>>
          stage,    \* the next stage, or how the pass ended
          pass,     \* 1, or 2 for the guard of the executing service
          verdicts  \* the decisions of the passes that ended

guardVars == <<informed, asked, args, repairs, stage, pass, verdicts>>

GuardInit == /\ informed \in BOOLEAN
             /\ asked \in Arguments
             /\ args = asked
             /\ repairs = {}
             /\ stage = "unsafe"
             /\ pass = 1
             /\ verdicts = <<>>

\* A stage that lets the arguments through as `new', repaired where `done' says.
Repairs(new, done, next) == /\ args' = new
                            /\ repairs' = repairs \cup done
                            /\ stage' = next
                            /\ UNCHANGED <<informed, asked, pass, verdicts>>

Reject == /\ stage' = "over"
          /\ verdicts' = Append(verdicts, "reject")
          /\ UNCHANGED <<informed, asked, args, repairs, pass>>

\* A stage: rejects when `bad', otherwise repairs.
Stage(name, bad, new, done, next) ==
    /\ stage = name
    /\ \/ bad /\ Reject
       \/ ~bad /\ Repairs(new, done, next)

Checked(name, bad, next) == Stage(name, bad, args, {}, next)

-----------------------------------------------------------------------------
\* A dangerous operation or word, a datasource or connection that is not the
\* session's.
Unsafe == Checked("unsafe", args.foreign, "limit")

\* The first key found in the arguments, and the query comes before the limit.
LimitKey == IF args.query.limit # None THEN "query" ELSE IF args.limit # None THEN "limit" ELSE "none"
LimitFound == CASE LimitKey = "query" -> args.query.limit
                [] LimitKey = "limit" -> args.limit
                [] OTHER -> None
WithLimit(key, v) == IF key = "query" THEN [args EXCEPT !.query.limit = v] ELSE [args EXCEPT !.limit = v]

Number(n) == [n |-> n, text |-> FALSE]

\* Mutant: the clamp is one too high.
ClampedLoosely(v, max) == IF v.n > max THEN Number(max + 1) ELSE v

Clamped(v, max) == IF v.n > max THEN Number(max) ELSE v

\* Mutant: the default is above the maximum, as it is elsewhere in the code.
GenerousDefault == Number(MaxLimit + 1)

DefaultLimit == Number(MaxLimit)

Limit ==
    \/ LimitKey = "none" /\ Stage("limit", FALSE, WithLimit("limit", DefaultLimit),
                                  {<<"limit_default", "limit">>}, "timeout")
    \/ /\ LimitKey # "none"
       /\ LET v == Clamped(LimitFound, MaxLimit)
          IN Stage("limit", LimitFound.n = 0, WithLimit(LimitKey, v),
                   IF v # LimitFound THEN {<<"limit_clamp", LimitKey>>} ELSE {}, "timeout")

Timeout ==
    \/ args.timeout = None /\ Checked("timeout", FALSE, "aggregations")
    \/ /\ args.timeout # None
       /\ LET v == Clamped(args.timeout, MaxTimeout)
          IN Stage("timeout", args.timeout.n = 0, [args EXCEPT !.timeout = v],
                   IF v # args.timeout THEN {<<"timeout_clamp", "timeout">>} ELSE {}, "aggregations")

-----------------------------------------------------------------------------
Fields == args.query.fields
Positions == DOMAIN Fields
WithFields(f) == [args EXCEPT !.query.fields = f]

Spelt(w) == IF w = None THEN None ELSE Proper[w]
Misspelt(w) == w # None /\ Proper[w] = None

\* `function' and its aliases `aggregation', `agg', in the fields.
Aggregations ==
    LET new == [i \in Positions |-> [Fields[i] EXCEPT !.function = Spelt(@), !.agg = Spelt(@)]]
    IN Stage("aggregations",
             \E i \in Positions : Misspelt(Fields[i].function) \/ Misspelt(Fields[i].agg),
             WithFields(new),
             {<<"aggregation_case", i>> : i \in {j \in Positions : new[j] # Fields[j]}},
             "filters")

\* The type of a filter and the direction of a sort.
FilterSort ==
    Stage("filters", Misspelt(args.query.order), [args EXCEPT !.query.order = Spelt(@)],
          IF Spelt(args.query.order) # args.query.order THEN {<<"sort_direction_case", "order">>} ELSE {},
          "shapes")

-----------------------------------------------------------------------------
IsAggregateCalc(name) == informed /\ Canonical[name] # None /\ Canonical[name] \in AggregateCalcs

\* Mutant: the alias wins over the caption.
AliasCaption(f) == IF f.alias = None THEN f.caption ELSE f.alias

Caption(f) == IF f.caption = None THEN f.alias ELSE f.caption

Function(f) == IF f.function = None THEN f.agg ELSE f.function
Conflict(f) == f.function # None /\ f.agg # None /\ f.function # f.agg

Shaped(f) == [caption |-> Caption(f), alias |-> None, agg |-> None,
              function |-> IF Caption(f) # None /\ IsAggregateCalc(Caption(f)) THEN None ELSE Function(f)]

\* Field objects get the keys of the tool's schema.
Shapes ==
    Stage("shapes", \E i \in Positions : Conflict(Fields[i]) \/ Caption(Fields[i]) = None,
          WithFields([i \in Positions |-> Shaped(Fields[i])]),
          {<<"field_object", i>> : i \in {j \in Positions : Shaped(Fields[j]) # Fields[j]}},
          "fields")

-----------------------------------------------------------------------------
\* Mutant: a repaired name is not reported.
SilentMapping(name) == FALSE

Unique(S) == Cardinality(S) = 1
SynonymOf(name) == IF informed /\ Unique(Synonyms[name]) THEN CHOOSE q \in Synonyms[name] : TRUE ELSE None
Mapped(name) == IF Canonical[name] # None THEN Canonical[name] ELSE SynonymOf(name)

\* Mutant: any name goes.
AnythingGoes(name) == FALSE

\* Only in the catalog, or nowhere.
Unknown(name) == Mapped(name) = None

Reported(name) == Mapped(name) # name

\* The captions of the fields and of the filters.
FieldNames ==
    LET captions == [i \in Positions |-> [Fields[i] EXCEPT !.caption = Mapped(@)]]
        filters == [i \in DOMAIN args.query.filters |-> Mapped(args.query.filters[i])]
        named == [fields |-> {i \in Positions : Reported(Fields[i].caption)},
                  filters |-> {i \in DOMAIN args.query.filters : Reported(args.query.filters[i])}]
    IN Stage("fields",
             \/ \E i \in Positions : Unknown(Fields[i].caption)
             \/ \E i \in DOMAIN args.query.filters : Unknown(args.query.filters[i]),
             [args EXCEPT !.query.fields = captions, !.query.filters = filters],
             UNION {{<<"field_name", where, i>> : i \in named[where]} : where \in DOMAIN named},
             "detail")

-----------------------------------------------------------------------------
HasAggregate == \E i \in Positions : Fields[i].function \in Sums
LimitAsked == asked.query.limit # None \/ asked.limit # None

\* Rows instead of sums: only with a limit of the caller's own, below the maximum.
DetailScan ==
    Checked("detail",
            /\ args.query.detail
            /\ \/ ~LimitAsked
               \/ LimitFound.n >= MaxLimit
               \/ args.question = "sum" /\ ~HasAggregate,
            "width")

Width == Checked("width", Len(Fields) > MaxWidth, "direction")

\* "Who did not buy" with the sort of the best sellers.
Direction == Checked("direction", args.question = "negative" /\ args.query.order = "DESC", "schema")

AsText(v) == v # None /\ v.text

\* jsonschema.validate: numbers at the top are numbers.
Schema ==
    /\ stage = "schema"
    /\ IF AsText(args.limit) \/ AsText(args.timeout) \/ (args.limit # None /\ args.limit.n = 0)
          THEN Reject
          ELSE /\ stage' = "over"
               /\ verdicts' = Append(verdicts, IF repairs = {} THEN "allow" ELSE "repair")
               /\ UNCHANGED <<informed, asked, args, repairs, pass>>

\* _execute_vizql hands what passed to execute_query, which guards it again.
GuardAgain ==
    /\ stage = "over" /\ pass = 1 /\ verdicts[1] # "reject"
    /\ ~informed
    /\ asked' = args
    /\ repairs' = {}
    /\ stage' = "unsafe"
    /\ pass' = 2
    /\ UNCHANGED <<informed, args, verdicts>>

GuardNext == \/ Unsafe \/ Limit \/ Timeout \/ Aggregations \/ FilterSort \/ Shapes \/ FieldNames
             \/ DetailScan \/ Width \/ Direction \/ Schema \/ GuardAgain

GuardSpec == GuardInit /\ [][GuardNext]_guardVars

-----------------------------------------------------------------------------
Passed == stage = "over" /\ verdicts[Len(verdicts)] # "reject"

\* What runs uses the exact names of queryable fields, each with a known
\* aggregation, whatever spelling, key or synonym was sent.
ExecutesKnownFields ==
    Passed => /\ \A i \in Positions : /\ Fields[i].caption \in Queryable
                                      /\ Fields[i].function # None => Proper[Fields[i].function] = Fields[i].function
              /\ \A i \in DOMAIN args.query.filters : args.query.filters[i] \in Queryable

\* "Limit exceeds guardrail maximum": what runs has a limit of at most MaxLimit,
\* unless the query carried a limit of its own, which is then the one that is looked at.
ExecutesWithinBounds ==
    Passed => /\ args.query.limit # None \/ args.limit.n <= MaxLimit
              /\ args.query.limit # None => args.query.limit.n <= MaxLimit
              /\ args.timeout # None => args.timeout.n <= MaxTimeout

GuardTypeOK ==
    /\ informed \in BOOLEAN
    /\ stage \in {"unsafe", "limit", "timeout", "aggregations", "filters", "shapes", "fields",
                  "detail", "width", "direction", "schema", "over"}
    /\ pass \in {1, 2}
    /\ verdicts \in Seq({"allow", "repair", "reject"}) 
    /\ Len(verdicts) = IF stage = "over" THEN pass ELSE pass - 1
    /\ Positions = DOMAIN asked.query.fields

\* What runs, after any repairs of any stage and one or two guards, is known and bounded.
ExecutesSafely == GuardTypeOK /\ ExecutesKnownFields /\ ExecutesWithinBounds

\* "It never adds business metrics [...] or changes business operators" (docstring
\* of validate_mcp_args): what runs has the fields that were asked, in their order,
\* each under the caption it was given (an alias counts only without a caption), and
\* the aggregation it was given, which is only taken off a formula that aggregates.
Asked(i) == asked.query.fields[i]
SameField(i) ==
    /\ Asked(i).caption # None => Fields[i].caption = Mapped(Asked(i).caption)
    /\ Asked(i).caption = None => Fields[i].caption = Mapped(Asked(i).alias)
    /\ \/ Fields[i].function = Spelt(Asked(i).function)
       \/ Asked(i).function = None /\ Fields[i].function = Spelt(Asked(i).agg)
       \/ Fields[i].function = None /\ Fields[i].caption \in AggregateCalcs
AddsNothing ==
    Passed => /\ Len(Fields) = Len(asked.query.fields)
              /\ \A i \in Positions : SameField(i)
              /\ Len(args.query.filters) = Len(asked.query.filters)

\* The decision tells whether the arguments are still those that were asked, and
\* so what the trace and the answer tell of the call that ran.
AllowMeansUnchanged ==
    Passed => (verdicts[Len(verdicts)] = "allow" <=> args = asked)

\* What one guard let through the next one allows, as it is, and allowing tells the
\* truth: a repaired call does not fail, or change again, at the service that executes it.
GuardsAgree ==
    /\ pass = 2 /\ stage = "over" => verdicts[2] = "allow"
    /\ AllowMeansUnchanged
=============================================================================

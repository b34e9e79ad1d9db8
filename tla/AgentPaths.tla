---------------------------- MODULE AgentPaths ----------------------------
(***************************************************************************)
(* The generators that answer a question of the Data Agent, each a source  *)
(* of events for the runner (services/data_agent):                         *)
(*   "engine"    the ReAct loop (engine.py);                               *)
(*   "proxy"     the MCP proxy path (mcp_proxy_main.py): lists and         *)
(*               metadata, a deterministic compiler, else a planner;       *)
(*   "first"     the MCP-first path (mcp_first_main.py): a preflight       *)
(*               query, the host loop, the thin fallback;                  *)
(*   "transform" the previous result, reworked (runner.py).                *)
(*                                                                         *)
(* `out' is what a path yields before it awaits again: it awaits nothing   *)
(* while `out' is not empty.  The two MCP paths collect the events of      *)
(* several awaited calls and yield them together; a cancellation in        *)
(* between loses them, so they are put in `out' when the last call is over. *)
(***************************************************************************)
EXTENDS Naturals, Sequences

CONSTANTS MaxSteps,        \* ReActEngine.max_steps
          MaxToolRetries,  \* ReActEngine.max_tool_retries
          PreflightSteps,  \* the longest plan of a semantic operator: root_cause has 12 steps
          MaxToolCalls,    \* MCP_HOST_MAX_TOOL_CALLS
          RepairBudget,    \* MCP_HOST_REPAIR_BUDGET
          ThinFallback     \* MCP_HOST_ENABLE_THIN_FALLBACK

ASSUME EngineAssumption == MaxSteps \in Nat \ {0} /\ MaxToolRetries \in Nat
ASSUME PreflightAssumption == PreflightSteps \in Nat \ {0}
ASSUME HostAssumption == MaxToolCalls \in Nat \ {0} /\ RepairBudget \in Nat /\ ThinFallback \in BOOLEAN

VARIABLES kind,     \* which path, "none" before it starts
          at,       \* where it is
          step,     \* turns of the engine's or the host's loop, steps of the preflight's plan
          attempt,  \* retries of the tool call under way
          budget,   \* repairs the host may still make
          calls,    \* history: the engine's tool calls; what the MCP paths ask of the MCP client,
                    \* metadata lookups included (tools/list, cached, and the client's own
                    \* re-sends are not counted: McpBridge)
          out       \* events to yield

pathVars == <<kind, at, step, attempt, budget, calls, out>>
----------------------------------------------------------------------------
Kinds == {"engine", "proxy", "first", "transform"}

\* A query's result: failed, or rows that the size and quality checks pass or block.
Results == {"fails", "fits", "large"}

Rows(result) == IF result = "large" THEN "blocked" ELSE "rows"

\* Where the path awaits: a cancellation arrives here.
AwaitsEngine == {"think", "tool", "forced"}
AwaitsProxy == {"assetCall", "compiledCall", "plan", "plannedCall"}
AwaitsFirst == {"preflight", "components", "metaCall", "planner", "hostCall", "thin", "thinCall"}
Awaits == at \in AwaitsEngine \cup AwaitsProxy \cup AwaitsFirst /\ out = <<>>

PathInit == /\ kind = "none" /\ at = "over" /\ step = 0 /\ attempt = 0
            /\ budget = RepairBudget /\ calls = 0 /\ out = <<>>

Entry == [engine |-> "head", proxy |-> "open", first |-> "open", transform |-> "transform"]

StartPath(k) == /\ kind = "none"
                /\ kind' = k /\ at' = Entry[k]
                /\ UNCHANGED <<step, attempt, budget, calls, out>>

\* The events of a path that is over, or that goes on at `next'.
Ends(events) == at' = "over" /\ out' = events \o <<"end">>
Raises == at' = "over" /\ out' = <<"raise">>
Continues(events, next) == at' = next /\ out' = events
Quietly(next) == Continues(<<>>, next)

NoCall == calls' = calls
OneCall == calls' = calls + 1

\* Metadata lookups that a cache, a missing connection or an earlier answer may spare.
Calls(fewest, most) == calls' \in (calls + fewest)..(calls + most)

Turn == /\ out = <<>> /\ UNCHANGED kind
----------------------------------------------------------------------------
(* ReActEngine.run *)
LoopHead ==
    /\ at = "head" /\ Turn
    /\ \/ Ends(<<"answer">>) /\ NoCall  \* max_steps, or the total timeout
       \/ /\ step = 0 /\ \/ Ends(<<"error">>) /\ NoCall  \* the forced tool is not allowed
                         \/ Continues(<<"step">>, "forced") /\ OneCall
       \/ step < MaxSteps /\ Quietly("think") /\ NoCall
    /\ attempt' = 0
    /\ UNCHANGED <<step, budget>>

Think ==
    /\ at = "think" /\ Turn
    /\ \/ Ends(<<"error">>) /\ NoCall
       \/ Ends(<<"step", "answer">>) /\ NoCall
       \/ Ends(<<"step", "error">>) /\ NoCall  \* no tool, not allowed, unknown, bad parameters
       \/ Continues(<<"step">>, "tool") /\ OneCall
    /\ UNCHANGED <<step, attempt, budget>>

MayRetry == attempt < MaxToolRetries

\* A timeout or an exception: the tool is called again, whatever the first call did.
ToolAgain ==
    /\ at \in {"tool", "forced"} /\ Turn
    /\ MayRetry
    /\ attempt' = attempt + 1 /\ OneCall
    /\ UNCHANGED <<at, step, budget, out>>

ToolFails ==
    /\ at \in {"tool", "forced"} /\ Turn
    /\ ~MayRetry
    /\ \/ at = "tool" /\ Ends(<<"error">>)
       \/ at = "forced" /\ Ends(<<"step", "error">>)
    /\ NoCall /\ UNCHANGED <<step, attempt, budget>>

\* The tool returned: a success, or a result that says it failed.
ToolReturns ==
    /\ at \in {"tool", "forced"} /\ Turn
    /\ \/ /\ at = "forced" /\ UNCHANGED step
          /\ \/ Ends(<<"step", "answer">>) \/ Ends(<<"step", "rows", "answer">>)
       \/ /\ at = "tool" /\ UNCHANGED step
          /\ Ends(<<"step", "answer">>)  \* an inventory answer
       \/ UNCHANGED step /\ Ends(<<"step", "error">>)  \* a failed data query
       \/ \E e \in {"step", "rows"} : Continues(<<e>>, "head") /\ step' = step + 1
    /\ NoCall /\ UNCHANGED <<attempt, budget>>

EngineStep == LoopHead \/ Think \/ ToolAgain \/ ToolFails \/ ToolReturns
----------------------------------------------------------------------------
(* run_mcp_proxy_main_path *)
OpenProxy ==
    /\ at = "open" /\ kind = "proxy" /\ Turn
    /\ \/ Ends(<<"step", "error">>) /\ NoCall  \* no data source selected
       \/ \E next \in {"assets", "compile"} : Continues(<<"step">>, next) /\ NoCall
       \/ Continues(<<"step">>, "plan") /\ Calls(0, 1)  \* the planner looks the fields up
    /\ UNCHANGED <<step, attempt, budget>>

\* The list of data sources, or the metadata of the one that is named.
Assets ==
    /\ at = "assets" /\ Turn
    /\ \/ Ends(<<"error">>) /\ NoCall          \* no connection, or no access
       \/ Ends(<<"step", "error">>) /\ NoCall  \* the list is refused by the guardrail
       \/ Ends(<<"step", "answer">>) /\ NoCall \* none or several candidates, or refused
       \/ Continues(<<"step">>, "assetCall") /\ OneCall
    /\ UNCHANGED <<step, attempt, budget>>

\* A failed call is answered from the catalog cache, or with an explanation.
AssetCall ==
    /\ at = "assetCall" /\ Turn
    /\ Ends(<<"step", "answer">>)
    /\ NoCall /\ UNCHANGED <<step, attempt, budget>>

\* The compiler looks the fields up, and the planner looks them up again.
Compile ==
    /\ at = "compile" /\ Turn
    /\ \/ Continues(<<"step">>, "plan") /\ Calls(0, 2)  \* unsupported, or softly ambiguous
       \/ Ends(<<"step", "answer">>) /\ Calls(0, 1)     \* ambiguous: asks back
       \/ Quietly("compiledCall") /\ Calls(1, 2)
    /\ UNCHANGED <<step, attempt, budget>>

Plan ==
    /\ at = "plan" /\ Turn
    /\ \/ Raises /\ NoCall
       \/ Ends(<<"step", "answer">>) /\ NoCall  \* asks back, or nothing to execute
       \/ Quietly("plannedCall") /\ OneCall
    /\ UNCHANGED <<step, attempt, budget>>

\* Mutant: the size of the result is not looked at.
AnySize(result) == FALSE

TooLarge(result) == result = "large"

QueryCall(result) ==
    /\ at \in {"compiledCall", "plannedCall"} /\ Turn
    /\ \/ result = "fails" /\ Ends(<<"step", "answer">>)
       \/ result # "fails" /\ TooLarge(result) /\ Ends(<<"step", "error">>)
       \/ result # "fails" /\ ~TooLarge(result) /\ Ends(<<"step", Rows(result), "answer">>)
    /\ NoCall /\ UNCHANGED <<step, attempt, budget>>

ProxyStep == \/ OpenProxy \/ Assets \/ AssetCall \/ Compile \/ Plan
             \/ \E result \in Results : QueryCall(result)
----------------------------------------------------------------------------
(* run_mcp_first_main_path: it looks the fields up, then asks the preflight's first query. *)
OpenFirst ==
    /\ at = "open" /\ kind = "first" /\ Turn
    /\ \/ Ends(<<"step", "error">>) /\ Calls(0, 1)  \* no data source, or a field of the catalog only
       \/ Continues(<<"step">>, "preflight") /\ Calls(1, 2)
       \/ Continues(<<"step">>, "components") /\ Calls(0, 1)
    /\ UNCHANGED <<step, attempt, budget>>

\* Mutant: the path goes on after its answer.
PreflightGoesOn ==
    /\ at = "preflight" /\ Turn
    /\ Continues(<<"step", "rows", "answer">>, "components")
    /\ step' = 0 /\ attempt' = 0
    /\ NoCall /\ UNCHANGED budget

\* The operator's plan, compiled from the question, one query after the other; no check
\* looks at the size of the result that is reduced from them.
PreflightReturns ==
    /\ at = "preflight" /\ Turn
    /\ \/ step + 1 < PreflightSteps /\ Quietly("preflight") /\ step' = step + 1 /\ OneCall
       \/ Ends(<<"step", "rows", "answer">>) /\ step' = 0 /\ NoCall
    /\ attempt' = 0 /\ UNCHANGED budget

\* The server does not know the date field: the metadata is looked up and the query is
\* asked again with another one, once.
PreflightDate ==
    /\ at = "preflight" /\ Turn
    /\ attempt = 0
    /\ Quietly("preflight") /\ attempt' = 1 /\ calls' = calls + 2
    /\ UNCHANGED <<step, budget>>

\* A query failed, the guardrail refused the next one, or the lookup names no other date
\* field: the failure is shown, and the host asks the question again.
PreflightFails ==
    /\ at = "preflight" /\ Turn
    /\ Continues(<<"step">>, "components")
    /\ NoCall \/ (attempt = 0 /\ OneCall)
    /\ step' = 0 /\ attempt' = 0 /\ UNCHANGED budget

\* Mutant: the thin route also takes over a result that was blocked.
FallsBackAlways(reason) == ThinFallback

FallsBack(reason) == ThinFallback /\ reason # "blocked"

\* The host route gave up.
GivesUp(reason, events) ==
    \/ FallsBack(reason) /\ Continues(events, "thin")
    \/ ~FallsBack(reason) /\ Ends(events \o <<"error">>)

\* The fields are looked up again when the first lookup found none.
Components ==
    /\ at = "components" /\ Turn
    /\ \/ Ends(<<"error">>) /\ Calls(0, 1)  \* a field of the catalog only
       \/ GivesUp("unavailable", <<"step">>) /\ Calls(0, 1)  \* no runtime, or no tools/list
       \/ Quietly("metaCall") /\ Calls(1, 2)
       \/ Quietly("planner") /\ Calls(0, 1)
    /\ UNCHANGED <<step, attempt, budget>>

MetaCall ==
    /\ at = "metaCall" /\ Turn
    /\ GivesUp("failed", <<"step">>) \/ Quietly("planner")
    /\ NoCall /\ UNCHANGED <<step, attempt, budget>>

\* Mutant: the repair is not paid for.
RepairsForFree == budget > 0 /\ budget' = budget

Repairs == budget > 0 /\ budget' = budget - 1

\* One turn of the loop: no plan, no usable action, a tool that does not exist, or a
\* call.  "final" before any query is either rescued into a call or given up.
Planner ==
    /\ at = "planner" /\ Turn
    /\ \/ step = MaxToolCalls /\ GivesUp("budget", <<"step">>) /\ NoCall /\ UNCHANGED <<step, budget>>
       \/ step < MaxToolCalls /\ Repairs /\ Quietly("planner") /\ step' = step + 1 /\ NoCall
       \/ step < MaxToolCalls /\ GivesUp("failed", <<"step">>) /\ NoCall /\ UNCHANGED <<step, budget>>
       \/ step < MaxToolCalls /\ Quietly("hostCall") /\ OneCall /\ UNCHANGED <<step, budget>>
    /\ attempt' = 0

\* A transient failure is called again at once, if the budget allows.
HostRetry ==
    /\ at = "hostCall" /\ Turn
    /\ attempt = 0 /\ Repairs
    /\ attempt' = 1 /\ OneCall /\ Quietly("hostCall")
    /\ UNCHANGED step

HostFails ==
    /\ at = "hostCall" /\ Turn
    /\ \/ Repairs /\ Quietly("planner") /\ step' = step + 1  \* the arguments can be repaired
       \/ GivesUp("failed", <<"step">>) /\ UNCHANGED <<step, budget>>
    /\ NoCall /\ UNCHANGED attempt

\* A metadata call goes on; a query ends the loop, with an answer or blocked.  Its rows
\* are in the events either way.
HostReturns(result) ==
    /\ at = "hostCall" /\ Turn
    /\ \/ Quietly("planner") /\ step' = step + 1
       \/ result = "fits" /\ Ends(<<"step", Rows(result), "answer">>) /\ UNCHANGED step
       \/ result = "large" /\ GivesUp("blocked", <<"step", Rows(result)>>) /\ UNCHANGED step
    /\ NoCall /\ UNCHANGED <<attempt, budget>>

Thin ==
    /\ at = "thin" /\ Turn
    /\ \/ Ends(<<"step", "error">>) /\ NoCall  \* no such tool
       \/ Quietly("thinCall") /\ OneCall
    /\ UNCHANGED <<step, attempt, budget>>

ThinCall(result) ==
    /\ at = "thinCall" /\ Turn
    /\ \/ result = "fails" /\ Ends(<<"step", "error">>)
       \/ result = "fits" /\ Ends(<<"step", Rows(result), "answer">>)
       \/ result = "large" /\ Ends(<<"step", Rows(result), "error">>)
    /\ NoCall /\ UNCHANGED <<step, attempt, budget>>

FirstStep ==
    \/ OpenFirst \/ PreflightReturns \/ PreflightDate \/ PreflightFails
    \/ Components \/ MetaCall \/ Planner \/ HostRetry \/ HostFails
    \/ \E result \in Results : HostReturns(result) \/ ThinCall(result)
    \/ Thin
----------------------------------------------------------------------------
(* The transform branch of run_agent awaits nothing. *)
Transform ==
    /\ at = "transform" /\ Turn
    /\ \/ Raises
       \/ Ends(<<"step", "rows", "answer">>)
    /\ NoCall /\ UNCHANGED <<step, attempt, budget>>

PathStep == EngineStep \/ ProxyStep \/ FirstStep \/ Transform

Yields == out # <<>> /\ out' = Tail(out) /\ UNCHANGED <<kind, at, step, attempt, budget, calls>>

PathNext == (\E k \in Kinds : StartPath(k)) \/ PathStep \/ Yields

PathSpec == PathInit /\ [][PathNext]_pathVars
----------------------------------------------------------------------------
CallLimit == [none |-> 0, transform |-> 0, proxy |-> 3,
              engine |-> MaxSteps * (MaxToolRetries + 1),
              first |-> MaxToolCalls + RepairBudget + 3 * PreflightSteps + 4]

\* However the calls fail, a question costs a bounded number of them: the engine's
\* retries, the preflight's queries with their date fallbacks, the host's repairs and the
\* thin fallback add up, they do not multiply (engine.py, _execute_tool_with_retry;
\* query_tool.py, _execute_query_with_date_fallback; mcp_first_main.py, _run_mcp_host_route).
CallsAreBounded == calls <= CallLimit[kind]
============================================================================

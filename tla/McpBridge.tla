---------------------------- MODULE McpBridge ----------------------------
(***************************************************************************)
(* The backend's side of the gateway (services/tableau/mcp_client.py): the *)
(* calls of several threads share one MCP session per site, built lazily   *)
(* by whoever finds none, thrown away by whoever is told that it expired.  *)
(*                                                                         *)
(* A call ensures the session, builds its headers from the shared state,   *)
(* sends, and retries on three levels: the same request once more after a  *)
(* broken connection (_post_mcp), once more with a new session after a 400 *)
(* (_send_jsonrpc), and the whole again for transient errors and timeouts  *)
(* (_query_datasource_with_retry).  The lock of the session's state covers *)
(* each reading and writing of it, none of the HTTP requests.              *)
(***************************************************************************)
EXTENDS McpGateway

CONSTANTS Queries,     \* calls of query_datasource; the others list or call tools
          MaxAttempts  \* _TRANSPORT_RETRY_MAX_ATTEMPTS, the larger of the two limits, as far
                       \* as the time budget allows

ASSUME ClientAssumption == Queries \subseteq Calls /\ MaxAttempts \in Nat \ {0}
ASSUME ReplyAssumption == Calls \cap {"none", "error", "expired"} = {}

VARIABLES pc,        \* where each call's thread is
          sid,       \* _MCPSessionState.session_id, 0 for None
          token,     \* per call: the session id in its headers, or the one it was given
          again,     \* the request is sent a second time (_post_mcp)
          rebuilt,   \* the session was rebuilt for this attempt (_send_jsonrpc)
          attempt,   \* of _query_datasource_with_retry
          post,      \* the handler it waits for
          reply,     \* how the call ended: the call whose answer it got, or an error
          hurt,      \* history: per call, the failures after which its request may be sent again
          author,    \* history: the call that wrote session_id last
          crossed    \* history: per call, its headers hold another call's session, or none

threadVars == <<token, again, rebuilt, attempt, post>>
historyVars == <<hurt, author, crossed>>
clientVars == <<pc, sid, threadVars, reply, historyVars>>
vars == <<gatewayVars, clientVars>>
----------------------------------------------------------------------------
Places == {"idle", "ensure", "init", "store", "headers", "resend", "wait", "over"}

Init ==
    /\ GatewayInit
    /\ pc = [c \in Calls |-> "idle"] /\ sid = 0
    /\ token = [c \in Calls |-> 0] /\ again = [c \in Calls |-> FALSE]
    /\ rebuilt = [c \in Calls |-> FALSE] /\ attempt = [c \in Calls |-> 1]
    /\ post = [c \in Calls |-> 0] /\ reply = [c \in Calls |-> "none"]
    /\ hurt = [c \in Calls |-> 0] /\ author = NoOne
    /\ crossed = [c \in Calls |-> FALSE]

Goto(c, place) == pc' = [pc EXCEPT ![c] = place]

NoPost(c) == post' = [post EXCEPT ![c] = 0]
Fresh(c) == token' = [token EXCEPT ![c] = 0] /\ again' = [again EXCEPT ![c] = FALSE] /\ NoPost(c)

\* The call returns or raises.
Returns(c, how) ==
    /\ reply' = [reply EXCEPT ![c] = how] /\ Goto(c, "over")
    /\ Fresh(c) /\ rebuilt' = [rebuilt EXCEPT ![c] = FALSE] /\ attempt' = [attempt EXCEPT ![c] = 1]
    /\ crossed' = [crossed EXCEPT ![c] = @ /\ how = "expired"] /\ UNCHANGED sid

Hurts(c) == hurt' = [hurt EXCEPT ![c] = @ + 1]

----------------------------------------------------------------------------
(* _ensure_session *)
Ensure(c) ==
    /\ pc[c] \in {"idle", "ensure"}
    /\ Goto(c, IF sid # 0 THEN "headers" ELSE "init")
    /\ UNCHANGED <<gatewayVars, sid, threadVars, reply, historyVars>>

Initialize(c) ==
    /\ pc[c] = "init" /\ Initialized
    /\ token' = [token EXCEPT ![c] = sidSeq'] /\ Goto(c, "store")
    /\ UNCHANGED <<sid, again, rebuilt, attempt, post, reply, historyVars>>

\* No session id in the answer, or no answer: an error that no level retries.
NotInitialized(c) ==
    /\ pc[c] = "init"
    /\ Returns(c, "error") /\ UNCHANGED <<gatewayVars, hurt, author>>

Store(c) ==
    /\ pc[c] = "store"
    /\ sid' = token[c] /\ author' = c /\ Goto(c, "headers")
    /\ UNCHANGED <<gatewayVars, threadVars, reply, hurt, crossed>>
----------------------------------------------------------------------------
(* _post_mcp *)
Sends(c) == /\ post' = [post EXCEPT ![c] = Newest + 1] /\ Goto(c, "wait")
            /\ UNCHANGED <<sid, again, rebuilt, attempt, reply, hurt, author, faults>>

\* The headers take the session id as the state has it now, which may be none.
Post(c) ==
    /\ pc[c] = "headers" /\ Sends(c)
    /\ token' = [token EXCEPT ![c] = sid] /\ crossed' = [crossed EXCEPT ![c] = author # c]
    /\ Receive(c, sid)

\* Once more, with the same headers.
PostAgain(c) ==
    /\ pc[c] = "resend" /\ Sends(c)
    /\ Receive(c, token[c]) /\ UNCHANGED <<token, crossed>>

SendsAgain(c) == ~again[c]

\* A query once more from the start, while the budget lasts: after transport errors and
\* timeouts, and after whatever else reads like one (_retry_kind_for_mcp_error looks for
\* `connection reset', `service unavailable', `timed out' in the error's text).
Retries(c) ==
    /\ c \in Queries /\ attempt[c] < MaxAttempts
    /\ attempt' = [attempt EXCEPT ![c] = @ + 1] /\ rebuilt' = [rebuilt EXCEPT ![c] = FALSE]
    /\ Fresh(c) /\ Goto(c, "ensure") /\ UNCHANGED <<sid, reply, crossed>>

\* The connection broke: by a fault, or because the gateway restarted.
Broken(c) ==
    /\ \/ /\ SendsAgain(c)
          /\ again' = [again EXCEPT ![c] = TRUE] /\ Goto(c, "resend")
          /\ NoPost(c) /\ UNCHANGED <<sid, token, rebuilt, attempt, reply, crossed>>
       \/ ~SendsAgain(c) /\ (Retries(c) \/ Returns(c, "error"))
    /\ Hurts(c) /\ UNCHANGED author

LosesConnection(c) ==
    /\ pc[c] = "wait" /\ Fault /\ Leave(post[c]) /\ Broken(c)

Connected(c, stage) == pc[c] = "wait" /\ posts[post[c]].stage = stage

SeesReset(c) == Connected(c, "reset") /\ Leave(post[c]) /\ Broken(c) /\ UNCHANGED faults

\* Mutant: the request has no timeout.
NeverTimesOut(c) == FALSE

\* The client's read timeout, after which the gateway's handler goes on.  A handler that
\* holds the lock has less time than its client, but not the time it has queued or drained:
\* the client leaves by then.
ReadTimesOut(c) ==
    /\ pc[c] = "wait" /\ posts[post[c]].stage \in {"queued", "writing"} /\ Leave(post[c])
    /\ Retries(c) \/ Returns(c, "error")
    /\ Hurts(c) /\ UNCHANGED <<author, faults>>

(* _send_jsonrpc *)
\* Mutant: the session is kept as it is.
KeptSession == sid

Cleared == 0

\* 400: the session is thrown away, whoever has built it, and built again once.
Refused(c) ==
    /\ Connected(c, "refused") /\ Leave(post[c])
    /\ \/ /\ ~rebuilt[c]
          /\ sid' = Cleared /\ author' = c /\ rebuilt' = [rebuilt EXCEPT ![c] = TRUE] /\ Goto(c, "ensure")
          /\ Fresh(c) /\ UNCHANGED <<attempt, reply, crossed>>
       \/ rebuilt[c] /\ Returns(c, "expired") /\ UNCHANGED author
    /\ UNCHANGED <<hurt, faults>>

(* _parse_jsonrpc_response *)
Answered(c) ==
    /\ Connected(c, "answered") /\ Leave(post[c])
    /\ \/ Returns(c, posts[post[c]].got) /\ UNCHANGED hurt
       \/ Returns(c, "error") /\ UNCHANGED hurt  \* the tool's own error
       \/ Retries(c) /\ Hurts(c)               \* one that reads like a transient failure
    /\ UNCHANGED <<author, faults>>

TimedOut(c) ==
    /\ Connected(c, "timedOut") /\ Leave(post[c])
    /\ Retries(c) \/ Returns(c, "error")
    /\ Hurts(c) /\ UNCHANGED <<author, faults>>

\* The gateway's own errors: a broken pipe may read like a reset connection.
Failed(c) ==
    /\ Connected(c, "broken") \/ Connected(c, "notReady")
    /\ Leave(post[c])
    /\ \/ Returns(c, "error") /\ UNCHANGED hurt
       \/ posts[post[c]].stage = "broken" /\ Retries(c) /\ Hurts(c)
    /\ UNCHANGED <<author, faults>>
----------------------------------------------------------------------------
Client(c) == \/ Ensure(c) \/ Initialize(c) \/ NotInitialized(c) \/ Store(c) \/ Post(c) \/ PostAgain(c)
             \/ SeesReset(c) \/ ReadTimesOut(c) \/ Refused(c) \/ Answered(c) \/ TimedOut(c)
             \/ Failed(c)

Next == \/ \E c \in Calls : Client(c) \/ LosesConnection(c)
        \/ (Handlers \/ Server \/ Die \/ ReaderFails \/ Restart) /\ UNCHANGED clientVars

\* Threads that have begun run on, the gateway's event loop resumes who can go on, and
\* wait_for ends: that one of them goes on is enough, as each takes finitely many steps.
\* Nothing is assumed of the child.
Spec == /\ Init /\ [][Next]_vars
        /\ WF_vars(\/ \E c \in Calls : pc[c] # "idle" /\ Client(c)
                   \/ Handlers /\ UNCHANGED clientVars)
----------------------------------------------------------------------------
TypeOK ==
    /\ DOMAIN posts \subseteq Nat \ {0} /\ holder \in Live \cup {0}
    /\ \A p \in DOMAIN posts : posts[p] \in [caller : Calls \cup {NoOne}, of : Calls,
           stage : Waits \cup Finals, id : Nat, got : Calls \cup {NoOne}]
    /\ idSeq \in Nat /\ sidSeq \in Nat /\ restarts \in Nat
    /\ \A id \in DOMAIN pending : id \in 2..idSeq /\ pending[id] \in Nat
    /\ Lines \subseteq [id : 2..idSeq, of : Calls]
    /\ child \in {"up", "gone"} /\ ready \in BOOLEAN
    /\ sessions \subseteq 1..sidSeq /\ sid \in 0..sidSeq
    /\ pc \in [Calls -> Places] /\ token \in [Calls -> 0..sidSeq]
    /\ again \in [Calls -> BOOLEAN] /\ rebuilt \in [Calls -> BOOLEAN]
    /\ attempt \in [Calls -> 1..MaxAttempts] /\ post \in [Calls -> DOMAIN posts \cup {0}]
    /\ reply \in [Calls -> Calls \cup {"none", "error", "expired"}]
    /\ ran \in [Calls -> Nat] /\ hurt \in [Calls -> Nat]
    /\ author \in Calls \cup {NoOne} /\ crossed \in [Calls -> BOOLEAN]
    /\ faults \in 0..MaxFaults

\* The gateway's tables keep their types and each other's promises: one request flies that
\* somebody waits for, and nobody waits for a future that is not there.
GatewayIsSound == TypeOK /\ OneLiveCall /\ PendingIsAwaited

\* Routing by id (proxy.py:176) through time-outs, abandoned handlers, retries and
\* restarts: whoever is answered is answered once, with what the server computed for
\* this very call.  The refinement of McpPromise.
Promise == INSTANCE McpPromise WITH Calls <- Calls, ran <- ran, reply <- reply
KeepsPromise == Promise!Spec

\* A request is executed again only after its call has seen a failure, a broken connection,
\* a time-out or an answered error that reads like one (mcp_client.py:1492): never behind
\* the back of a call that sees none.
RunsAreExplained == \A c \in Calls : ran[c] <= hurt[c] + 1

\* `Session expired: rebuilt and sent once more' (mcp_client.py:1789): a call fails with
\* the bare marker of an expired session only if its second headers held another call's
\* session, or none because another call had thrown its own away.
LoneCallRecovers == \A c \in Calls : reply[c] = "expired" => crossed[c] \/ restarts > 1

\* Every call that began returns, whatever happened to the child and to its requests:
\* time and again there is a moment when none is under way.
Rests(c) == pc[c] \in {"idle", "over"}
CallsReturn == []<>(\A c \in Calls : Rests(c))
============================================================================

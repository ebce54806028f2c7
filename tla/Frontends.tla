----------------------------- MODULE Frontends -----------------------------
(***************************************************************************)
(* The two front ends over one service, from startup to the reply: the     *)
(* dispatcher of server.py (MCP), and the hook, routes and error handlers  *)
(* of api/ (REST).  Registry is the startup and the account table, Enrich  *)
(* what the service does once it has the account.  A caller is a thread,   *)
(* and makes one call.                                                     *)
(*                                                                         *)
(* Three ways to run them: "mcp" (asyncio.to_thread), "flask" (the         *)
(* development server, a thread per request) and "gunicorn" (a sync        *)
(* worker, which takes one request at a time).                             *)
(***************************************************************************)
EXTENDS Registry, Enrich

CONSTANTS
    Requests,    \* [op, account, id, option, rollup, body, bearer, header]
    NoCred,      \* the credential's header is missing or blank
    NotAscii     \* a credential with a character that compare_digest rejects

ASSUME CredentialsAssumption ==
    \A s \in Settings : NoCred \notin s.tokens /\ NotAscii \notin s.tokens

ASSUME RequestsAssumption == \A r \in Requests : r.account \in Names \cup {NoName, NotText}

\* Enrich has the sweeps and the refusals that this service leads to.  The client
\* raises no KlaviyoServiceError of the code that unclassified exceptions get.
ASSUME ServiceAssumption ==
    /\ {"campaigns", "messages", "structure", "lists", "plain"} \subseteq Tools
    /\ {"INVALID_ARGUMENT", "UNKNOWN_ACCOUNT", "CONFIG_ERROR", "INTERNAL_ERROR"} \subseteq Refusals
    /\ "INTERNAL_ERROR" \notin Failures

VARIABLES
    deployment,
    stage,     \* per thread: "idle", "sent", "called" or "replied"
    request,
    call,      \* what the service was called with
    account,   \* the account the call resolved to
    reply      \* the code of the envelope, or "OK"

calls == <<stage, request, call, account, reply>>
frontends == <<registry, vars, deployment, calls>>

NoCall == [op |-> "none", option |-> "absent", rollup |-> "absent"]
NoAccount == [name |-> NoName, key |-> NoKey, metric |-> FALSE]
NoRequest == [op |-> "none"]

FrontendsInit ==
    /\ RegistryInit
    /\ EnrichInit
    /\ deployment \in (IF rest THEN {"gunicorn", "flask"} ELSE {"mcp"})
    /\ stage = [t \in Threads |-> "idle"]
    /\ request = [t \in Threads |-> NoRequest]
    /\ call = [t \in Threads |-> NoCall]
    /\ account = [t \in Threads |-> NoAccount]
    /\ reply = [t \in Threads |-> "NONE"]

-----------------------------------------------------------------------------
(* Translating a request                                                   *)

OptionOps == {"campaigns", "flow_report"}
EntityOps == {"series", "compare"}           \* id is the entity, which is required
ReportOps == OptionOps \cup EntityOps        \* with a conversion metric
BodyOps == ReportOps \cup {"growth"}         \* a JSON body; the others take a query

\* bool() of a JSON value: a text is true whatever it says.
Truthy_Given(v) == IF v = "absent" THEN "false" ELSE "true"
Truthy(v) == IF v \in {"true", "text"} THEN "true" ELSE "false"

\* The options of a report are coerced by both front ends; the archived filter of
\* a flow listing is a query parameter that must say true or false in REST, and is
\* passed as it is by MCP, for the service to coerce.
Coerced(r) ==
    CASE r.op \in OptionOps -> [op |-> r.op, option |-> Truthy(r.option), rollup |-> Truthy(r.rollup)]
      [] r.op = "flows" /\ r.option # "absent" ->
             [op |-> r.op, option |-> Truthy(r.option), rollup |-> "absent"]
      [] OTHER -> [op |-> r.op, option |-> "absent", rollup |-> "absent"]

\* _presented_credential: Bearer if there is one, else X-API-Key.
Presented(r) == IF r.bearer # NoCred THEN r.bearer ELSE r.header

\* _require_api_key, before the route is looked at.
Barred(r) ==
    LET p == Presented(r)
    IN  CASE r.op = "health" \/ p \in settings.tokens -> "OK"
          [] r.op # "health" /\ p = NoCred             -> "MISSING_API_KEY"
          [] r.op # "health" /\ p = NotAscii           -> "INTERNAL_ERROR"
          [] OTHER                                     -> "INVALID_API_KEY"

\* The errors of the REST handlers; a path that has no route is a werkzeug
\* exception, which ends in the handler for all others.
RestRejects(r) ==
    CASE r.op = "unknown"                          -> "INTERNAL_ERROR"
      [] r.op \in BodyOps /\ ~r.body               -> "INVALID_ARGUMENT"
      [] r.op \in EntityOps /\ r.id = "absent"     -> "INVALID_ARGUMENT"
      [] r.op = "flows" /\ r.option = "text"       -> "INVALID_ARGUMENT"
      [] OTHER                                     -> "OK"

\* Those of the dispatcher and the MCP handlers.
McpRejects(r) ==
    CASE r.op = "unknown"                          -> "UNKNOWN_TOOL"
      [] r.op \in EntityOps \cup {"structure"} /\ r.id = "absent"
                                                   -> "INVALID_ARGUMENT"
      [] OTHER                                     -> "OK"

Turned(r) == IF deployment = "mcp" THEN McpRejects(r)
             ELSE IF Barred(r) # "OK" THEN Barred(r) ELSE RestRejects(r)

-----------------------------------------------------------------------------
(* The service, up to its first request                                    *)

NeedsAccount(c) == c.op \notin {"list_accounts", "health"}

\* Account first, then the entity or the id; a report finds out about the
\* conversion metric when it builds its body.  Dates are those of Pipeline.
ServiceRejects(r) ==
    LET resolution == Resolution(r.account)
    IN  CASE resolution # "OK" -> resolution
          [] resolution = "OK" /\ r.op \in EntityOps \cup {"structure", "list_health"}
                               /\ r.id = "malformed"
                -> "INVALID_ARGUMENT"
          [] resolution = "OK" /\ r.op \in ReportOps /\ ~Resolve(r.account).metric
                -> "CONFIG_ERROR"
          [] OTHER -> "OK"

\* Which sweep a call leads to.  A roll-up drops the messages, and their names.
Sweeps(c, r) ==
    CASE c.op = "campaigns" /\ c.option = "true"                          -> "campaigns"
      [] c.op = "flow_report" /\ c.option = "true" /\ c.rollup = "false"  -> "messages"
      [] c.op = "structure"                                               -> "structure"
      [] c.op = "list_health" /\ r.id = "absent"                          -> "lists"
      [] OTHER                                                            -> "plain"

-----------------------------------------------------------------------------
Send(t, r) ==
    /\ boot = "serving" /\ stage[t] = "idle"
    /\ stage' = [stage EXCEPT ![t] = "sent"]
    /\ request' = [request EXCEPT ![t] = r]
    /\ UNCHANGED <<registry, vars, deployment, call, account, reply>>

\* A sync worker has no thread for a second request.
Free_Always(t) == TRUE
Free(t) == deployment = "gunicorn" => \A u \in Threads : stage[u] # "called"

Replied(t, c) ==
    /\ stage' = [stage EXCEPT ![t] = "replied"]
    /\ reply' = [reply EXCEPT ![t] = c]

\* The front end answers by itself: an error, the health probe, or the account
\* list, for which the service asks nobody.
TurnAway(t) ==
    LET r == request[t]
    IN  /\ stage[t] = "sent" /\ Free(t)
        /\ Turned(r) # "OK" \/ ~NeedsAccount(r)
        /\ Replied(t, Turned(r))
        /\ UNCHANGED <<registry, vars, deployment, request, call, account>>

Called_Unmarked(t) ==
    /\ stage' = stage
    /\ call' = [call EXCEPT ![t] = Coerced(request[t])]
Called(t) ==
    /\ stage' = [stage EXCEPT ![t] = "called"]
    /\ call' = [call EXCEPT ![t] = Coerced(request[t])]

CallService(t) ==
    LET r == request[t]
    IN  /\ stage[t] = "sent" /\ Free(t)
        /\ Turned(r) = "OK" /\ NeedsAccount(r)
        /\ Called(t)
        /\ IF ServiceRejects(r) = "OK"
           THEN /\ account' = [account EXCEPT ![t] = Resolve(r.account)]
                /\ Accept(t, Sweeps(Coerced(r), r))
           ELSE /\ Refuse(t, ServiceRejects(r))
                /\ UNCHANGED account
        /\ UNCHANGED <<registry, deployment, request, reply>>

ServiceWorks(t) == stage[t] = "called" /\ Works(t) /\ UNCHANGED <<registry, deployment, calls>>

\* The result, or the one envelope that every exception ends in.
Reply(t) ==
    /\ stage[t] = "called" /\ pc[t] = "answered"
    /\ Replied(t, code[t])
    /\ UNCHANGED <<registry, vars, deployment, request, call, account>>

StartUp == Boot /\ UNCHANGED <<vars, deployment, calls>>

\* Nothing is left to do: startup failed, or everyone has a reply.
Over ==
    /\ boot = "exited" \/ \A t \in Threads : stage[t] = "replied"
    /\ UNCHANGED frontends

FrontendsNext ==
    \/ StartUp
    \/ \E t \in Threads :
          \/ \E r \in Requests : Send(t, r)
          \/ TurnAway(t) \/ CallService(t) \/ ServiceWorks(t) \/ Reply(t)
    \/ Over

FrontendsSpec == FrontendsInit /\ [][FrontendsNext]_frontends

\* Every thread is scheduled, and every request to Klaviyo ends (Client).
Handles(t) == TurnAway(t) \/ CallService(t) \/ ServiceWorks(t) \/ Reply(t)
FairFrontends == FrontendsSpec /\ \A t \in Threads : WF_frontends(Handles(t))

-----------------------------------------------------------------------------
TypeOK ==
    /\ EnrichTypeOK
    /\ boot \in {"config", "manifest", "loading", "serving", "exited"}
    /\ stage \in [Threads -> {"idle", "sent", "called", "replied"}]
    /\ \A t \in Threads : stage[t] # "idle" => request[t] \in Requests
    /\ \A t \in Threads : stage[t] = "called" <=> pc[t] # "idle" /\ reply[t] = "NONE"

\* What documented arguments mean does not depend on the front end: an option is
\* on when it is true and off when it is false or left out, names are looked up
\* when they were asked for and are not dropped by a roll-up, and a listing is
\* filtered by what the filter says (README.md:70, TRD.md:52).
Documented(r) == r.option # "text" /\ r.rollup # "text"
On(v) == v = "true"

SameCall ==
    \A t \in Threads :
        LET r == request[t]
            c == call[t]
        IN  pc[t] \in {"listing", "looking"} /\ Documented(r) =>
                /\ r.op \in OptionOps =>
                      (tool[t] # "plain" <=> On(r.option) /\ ~(r.op = "flow_report" /\ On(r.rollup)))
                /\ r.op = "flows" =>
                      /\ c.option = "absent" <=> r.option = "absent"
                      /\ On(c.option) <=> On(r.option)

\* Klaviyo is asked with the key of the account that the caller named, and of no
\* other: blanks do not matter, and an omitted name is one that the manifest leaves
\* no choice about (registry.py:60-66).
OwnAccount ==
    \A t \in Threads :
        pc[t] \in {"listing", "looking"} =>
            LET n == request[t].account
                same == {i \in 1 .. Len(manifest) :
                            n # NoName => Trimmed[manifest[i].name] = Trimmed[n]}
            IN  /\ same # {}
                /\ \E i \in same : /\ account[t].key = manifest[i].key
                                   /\ \A j \in same : j <= i
                /\ \A i, j \in same : Trimmed[manifest[i].name] = Trimmed[manifest[j].name]

\* Under the sync workers of the Dockerfile no call is lost to a collision in the
\* cache: an INTERNAL_ERROR has a cause in the request itself.
OneAtATime ==
    \A t \in Threads :
        deployment = "gunicorn" /\ reply[t] = "INTERNAL_ERROR" =>
            \/ request[t].op = "unknown"
            \/ request[t].account = NotText
            \/ Presented(request[t]) = NotAscii

\* Every call gets a reply, also one that waits for a worker.
EveryCallAnswered == \A t \in Threads : stage[t] = "sent" ~> stage[t] = "replied"
=============================================================================

------------------------------- MODULE Client -------------------------------
(***************************************************************************)
(* KlaviyoClient (klaviyo_analytics/client.py) shared by the threads that  *)
(* run tool calls: the cache lookup, one pooled httpx client per API key,  *)
(* the retry loop with backoff, cursor pagination, and the cache fill.     *)
(*                                                                         *)
(* The cache is the one ResponseCache promises: a lookup may miss whatever *)
(* was stored, and may raise when another thread is inside the client.     *)
(* Klaviyo is a fixed graph of pages; each request to it may be answered,  *)
(* answered with an error status, throttled, or lost.                      *)
(***************************************************************************)
EXTENDS Naturals, FiniteSets, Sequences

CONSTANTS
    Threads,
    Accounts,      \* API keys
    Paths,         \* request targets; the pages of the collections among them
    Roots,         \* the targets that callers ask for
    NextOf,        \* NextOf[p]: the links.next of page p, or End
    End,
    MaxRetries,    \* KLAVIYO_MAX_RETRIES
    MaxPages,      \* _MAX_PAGES
    Base,          \* _BACKOFF_BASE_SECONDS, in half seconds
    MaxBackoff,    \* _MAX_BACKOFF_SECONDS, in half seconds
    Hints,         \* the Retry-After values Klaviyo sends, in half seconds
    Nothing

ASSUME ThreadsAssumption == IsFiniteSet(Threads)
ASSUME GraphAssumption == /\ Roots \subseteq Paths
                          /\ NextOf \in [Paths -> Paths \cup {End}]
                          /\ End \notin Paths
ASSUME BoundsAssumption == /\ MaxRetries \in Nat
                           /\ MaxPages \in Nat \ {0}
                           /\ Base \in Nat /\ MaxBackoff \in Nat
                           /\ Hints \subseteq Nat

\* A call, which is also its cache key: cache_key hashes the API key, the
\* method and the target, and a paginated sweep has a method of its own.
Calls == [account : Accounts, path : Roots, paged : BOOLEAN]

\* An httpx client: the API key in its headers, and which of that key's it is.
HttpxClients == [key : Accounts, number : Nat]

ASSUME NothingAssumption == Nothing \notin Calls \cup HttpxClients

VARIABLES
    cached,    \* cached[c]: the body cached under c, or Nothing
    clients,   \* clients[a]: _clients_by_key, an httpx client or Nothing
    built,     \* built[a]: how many httpx clients were built for a
    pc,        \* pc[t]: the next step of thread t
    call,      \* call[t]: the call t is in
    client,    \* client[t]: the httpx client t sends with
    next,      \* next[t]: next_path, the target of the next request
    pages,     \* pages[t]: the pages collected so far, and whose data they are
    sent,      \* sent[t]: requests sent in the current retry loop
    delay,     \* delay[t]: the backoff the loop has reached
    pause,     \* pause[t]: the sleep chosen, and the server's hint if any
    result     \* result[t]: how t's last call ended, and which one a body answers

vars == <<cached, clients, built, pc, call, client, next, pages, sent, delay,
          pause, result>>

loop == <<client, sent, delay, pause>>

\* Klaviyo answers with the data of the API key that the httpx client carries,
\* so a page is known by that key and its target; a body is a row of pages.
Pages == [key : Accounts, page : Paths]
Bodies == Seq(Pages)

Answer(c, ps) == [code |-> "OK", call |-> c, body |-> ps]
Error(code) == [code |-> code, call |-> Nothing, body |-> <<>>]

Init ==
    /\ cached = [c \in Calls |-> Nothing]
    /\ clients = [a \in Accounts |-> Nothing]
    /\ built = [a \in Accounts |-> 0]
    /\ pc = [t \in Threads |-> "idle"]
    /\ call = [t \in Threads |-> Nothing]
    /\ client = [t \in Threads |-> Nothing]
    /\ next = [t \in Threads |-> End]
    /\ pages = [t \in Threads |-> <<>>]
    /\ sent = [t \in Threads |-> 0]
    /\ delay = [t \in Threads |-> Base]
    /\ pause = [t \in Threads |-> [chosen |-> 0, hint |-> 0]]
    /\ result = [t \in Threads |-> Error("none")]

-----------------------------------------------------------------------------
Goto(t, label) == pc' = [pc EXCEPT ![t] = label]

\* The call returns or raises; everything it held is local and gone.
Finish(t, how) ==
    /\ Goto(t, "idle")
    /\ result' = [result EXCEPT ![t] = how]
    /\ call' = [call EXCEPT ![t] = Nothing]
    /\ client' = [client EXCEPT ![t] = Nothing]
    /\ next' = [next EXCEPT ![t] = End]
    /\ pages' = [pages EXCEPT ![t] = <<>>]
    /\ sent' = [sent EXCEPT ![t] = 0]
    /\ delay' = [delay EXCEPT ![t] = Base]
    /\ pause' = [pause EXCEPT ![t] = [chosen |-> 0, hint |-> 0]]

\* The cache raises only when calls of two threads collide in it.
Contended(t) == \E u \in Threads \ {t} : pc[u] # "idle"

-----------------------------------------------------------------------------
(* get, post and get_paginated up to the first request.                    *)

Hit(t, c) ==
    /\ pc[t] = "idle"
    /\ cached[c] # Nothing
    /\ result' = [result EXCEPT ![t] = Answer(c, cached[c])]
    /\ UNCHANGED <<cached, clients, built, pc, call, next, pages, loop>>

Miss(t, c) ==
    /\ pc[t] = "idle"
    /\ call' = [call EXCEPT ![t] = c]
    /\ next' = [next EXCEPT ![t] = c.path]
    /\ result' = [result EXCEPT ![t] = Error("none")]
    /\ Goto(t, "client")
    /\ UNCHANGED <<cached, clients, built, pages, loop>>

LookupRaises(t) ==
    /\ pc[t] = "idle"
    /\ Contended(t)
    /\ result' = [result EXCEPT ![t] = Error("INTERNAL_ERROR")]
    /\ UNCHANGED <<cached, clients, built, pc, call, next, pages, loop>>

\* An entry expires, or is evicted.
Forget(c) ==
    /\ cached[c] # Nothing
    /\ cached' = [cached EXCEPT ![c] = Nothing]
    /\ UNCHANGED <<clients, built, pc, call, next, pages, loop, result>>

-----------------------------------------------------------------------------
(* _client_for: look, and build when there is nothing; no lock in between. *)

FindClient_Any(t) ==
    /\ pc[t] = "client"
    /\ \/ /\ \E a \in Accounts : /\ clients[a] # Nothing
                                 /\ client' = [client EXCEPT ![t] = clients[a]]
          /\ Goto(t, "send")
       \/ (\A a \in Accounts : clients[a] = Nothing) /\ Goto(t, "build")
                                                   /\ UNCHANGED client
    /\ UNCHANGED <<cached, clients, built, call, next, pages, sent, delay, pause,
                   result>>

FindClient(t) ==
    /\ pc[t] = "client"
    /\ IF clients[call[t].account] # Nothing
       THEN /\ client' = [client EXCEPT ![t] = clients[call[t].account]]
            /\ Goto(t, "send")
       ELSE Goto(t, "build") /\ UNCHANGED client
    /\ UNCHANGED <<cached, clients, built, call, next, pages, sent, delay, pause,
                   result>>

BuildClient_Uncached(t) ==
    LET a == call[t].account
        new == [key |-> a, number |-> built[a] + 1]
    IN  /\ pc[t] = "build"
        /\ built' = [built EXCEPT ![a] = @ + 1]
        /\ client' = [client EXCEPT ![t] = new]
        /\ Goto(t, "send")
        /\ UNCHANGED <<cached, clients, call, next, pages, sent, delay, pause, result>>

BuildClient(t) ==
    LET a == call[t].account
        new == [key |-> a, number |-> built[a] + 1]
    IN  /\ pc[t] = "build"
        /\ built' = [built EXCEPT ![a] = @ + 1]
        /\ clients' = [clients EXCEPT ![a] = new]
        /\ client' = [client EXCEPT ![t] = new]
        /\ Goto(t, "send")
        /\ UNCHANGED <<cached, call, next, pages, sent, delay, pause, result>>

-----------------------------------------------------------------------------
(* _request_with_retry                                                     *)

Smaller(m, n) == IF m <= n THEN m ELSE n

Clamp(hint) == Smaller(hint, MaxBackoff)

\* The codes map_exception gives to what Klaviyo can answer for good.
Rejections == {"INVALID_ARGUMENT", "INVALID_API_KEY", "NOT_FOUND", "UPSTREAM_ERROR"}

\* A retryable outcome and the error it ends in when the budget is spent:
\* 429, a 5xx status, or no response at all.
Faults == {"RATE_LIMITED", "UPSTREAM_ERROR", "UPSTREAM_TIMEOUT"}

LastAttempt_Late(t) == sent[t] = MaxRetries + 1
LastAttempt(t) == sent[t] = MaxRetries

Send_Uncounted(t) == pc[t] = "send" /\ UNCHANGED sent
Send(t) == pc[t] = "send" /\ sent' = [sent EXCEPT ![t] = @ + 1]

Answered(t) ==
    /\ Send(t)
    /\ Goto(t, "decode")
    /\ UNCHANGED <<cached, clients, built, call, client, next, pages, delay,
                   pause, result>>

\* A status that is not retried, raised at once.
Rejected(t) ==
    /\ pc[t] = "send"
    /\ \E code \in Rejections : Finish(t, Error(code))
    /\ UNCHANGED <<cached, clients, built>>

\* A retryable outcome with attempts left: sleep for the server's hint, capped,
\* or else for the backoff (plus a jitter of at most a tenth, left out).
Retry(t, fault) ==
    /\ Send(t)
    /\ ~LastAttempt(t)
    /\ \/ pause' = [pause EXCEPT ![t] = [chosen |-> delay[t], hint |-> 0]]
       \/ /\ fault # "UPSTREAM_TIMEOUT"
          /\ \E h \in Hints :
                pause' = [pause EXCEPT ![t] = [chosen |-> Clamp(h), hint |-> h]]
    /\ Goto(t, "sleep")
    /\ UNCHANGED <<cached, clients, built, call, client, next, pages, delay, result>>

\* Gives what has been collected instead of the error.
Exhausted_Partial(t, fault) ==
    /\ pc[t] = "send"
    /\ LastAttempt(t)
    /\ \/ pages[t] # <<>> /\ Goto(t, "keep")
          /\ UNCHANGED <<call, next, pages, loop, result>>
       \/ pages[t] = <<>> /\ Finish(t, Error(fault))
    /\ UNCHANGED <<cached, clients, built>>

Exhausted(t, fault) ==
    /\ pc[t] = "send"
    /\ LastAttempt(t)
    /\ Finish(t, Error(fault))
    /\ UNCHANGED <<cached, clients, built>>

Wake(t) ==
    /\ pc[t] = "sleep"
    /\ delay' = [delay EXCEPT ![t] = Smaller(2 * @, MaxBackoff)]
    /\ Goto(t, "send")
    /\ UNCHANGED <<cached, clients, built, call, client, next, pages, sent, pause,
                   result>>

-----------------------------------------------------------------------------
(* _decode, the pagination loop, and the cache fill.                       *)

\* Each page begins a retry loop of its own.
FreshLoop(t) ==
    /\ client' = [client EXCEPT ![t] = Nothing]
    /\ sent' = [sent EXCEPT ![t] = 0]
    /\ delay' = [delay EXCEPT ![t] = Base]
    /\ pause' = [pause EXCEPT ![t] = [chosen |-> 0, hint |-> 0]]

LastPage(t, ps) == NextOf[next[t]] = End \/ Len(ps) = MaxPages

Decode(t) ==
    LET ps == Append(pages[t], [key |-> client[t].key, page |-> next[t]])
    IN  /\ pc[t] = "decode"
        /\ pages' = [pages EXCEPT ![t] = ps]
        /\ IF call[t].paged /\ ~LastPage(t, ps)
           THEN Goto(t, "client") /\ next' = [next EXCEPT ![t] = NextOf[@]]
           ELSE Goto(t, "keep") /\ UNCHANGED next
        /\ FreshLoop(t)
        /\ UNCHANGED <<cached, clients, built, call, result>>

\* Makes do with the pages before the garbled one.
Garbled_Partial(t) ==
    /\ pc[t] = "decode"
    /\ Finish(t, IF pages[t] = <<>> THEN Error("UPSTREAM_ERROR")
                                    ELSE Answer(call[t], pages[t]))
    /\ UNCHANGED <<cached, clients, built>>

\* A body that is not a JSON object.
Garbled(t) ==
    /\ pc[t] = "decode"
    /\ Finish(t, Error("UPSTREAM_ERROR"))
    /\ UNCHANGED <<cached, clients, built>>

Keep(t) ==
    /\ pc[t] = "keep"
    /\ cached' = [cached EXCEPT ![call[t]] = pages[t]]
    /\ Finish(t, Answer(call[t], pages[t]))
    /\ UNCHANGED <<clients, built>>

\* Caching is off, or the entry is evicted at once: the body is still returned.
Pass(t) ==
    /\ pc[t] = "keep"
    /\ Finish(t, Answer(call[t], pages[t]))
    /\ UNCHANGED <<cached, clients, built>>

\* set raises: the body that was fetched is lost to the caller.
KeepRaises(t) ==
    /\ pc[t] = "keep"
    /\ Contended(t)
    /\ Finish(t, Error("INTERNAL_ERROR"))
    /\ UNCHANGED <<cached, clients, built>>

-----------------------------------------------------------------------------
Begin(t) == (\E c \in Calls : Hit(t, c) \/ Miss(t, c)) \/ LookupRaises(t)

Request(t) ==
    \/ FindClient(t) \/ BuildClient(t)
    \/ Answered(t) \/ Rejected(t)
    \/ \E fault \in Faults : Retry(t, fault) \/ Exhausted(t, fault)
    \/ Wake(t)

Conclude(t) == Decode(t) \/ Garbled(t) \/ Keep(t) \/ Pass(t) \/ KeepRaises(t)

Next ==
    \/ \E c \in Calls : Forget(c)
    \/ \E t \in Threads : Begin(t) \/ Request(t) \/ Conclude(t)

Spec == Init /\ [][Next]_vars

\* A call that has begun goes on: the interpreter schedules every thread, a
\* request ends by an answer or the 30 s timeout, and a sleep ends.
FairSpec == Spec /\ \A t \in Threads : WF_vars(Request(t) \/ Conclude(t))

-----------------------------------------------------------------------------
Codes == {"none", "OK"} \cup Rejections \cup Faults \cup {"INTERNAL_ERROR"}

TypeOK ==
    /\ cached \in [Calls -> Bodies \cup {Nothing}]
    /\ clients \in [Accounts -> HttpxClients \cup {Nothing}]
    /\ built \in [Accounts -> Nat]
    /\ pc \in [Threads -> {"idle", "client", "build", "send", "sleep", "decode", "keep"}]
    /\ call \in [Threads -> Calls \cup {Nothing}]
    /\ client \in [Threads -> HttpxClients \cup {Nothing}]
    /\ next \in [Threads -> Paths \cup {End}]
    /\ pages \in [Threads -> Bodies]
    /\ sent \in [Threads -> 0 .. MaxRetries + 1]
    /\ delay \in [Threads -> Nat]
    /\ pause \in [Threads -> [chosen : Nat, hint : Nat]]
    /\ result \in [Threads -> [code : Codes, call : Calls \cup {Nothing}, body : Bodies]]
    /\ \A t \in Threads :
          /\ pc[t] # "idle" => call[t] \in Calls /\ next[t] \in Paths
          /\ pc[t] \in {"send", "sleep", "decode"} => client[t] \in HttpxClients

\* ps is an unbroken walk along links.next from the target of c, each page
\* fetched with the API key of c.
Walk(c, ps) ==
    /\ \A i \in 1 .. Len(ps) : ps[i].key = c.account
    /\ Len(ps) > 0 => ps[1].page = c.path
    /\ \A i \in 1 .. Len(ps) - 1 : ps[i + 1].page = NextOf[ps[i].page]

Whole(c, ps) ==
    /\ Walk(c, ps)
    /\ Len(ps) \in 1 .. MaxPages
    /\ IF c.paged THEN NextOf[ps[Len(ps)].page] = End \/ Len(ps) = MaxPages
                  ELSE Len(ps) = 1

\* What is cached under a call is what that call fetches, for that account: all
\* pages of the collection in order, or the first MaxPages of them.  A sweep
\* that fails half way, a retried request or another thread's call never leaves
\* a partial or foreign body behind (client.py:128-140, cache.py:100).
CachedIsWhole == \A c \in Calls : cached[c] # Nothing => Whole(c, cached[c])

\* Nor does a caller get one: a call that does not raise returns the whole of what
\* it asked for, of its own account, whether it was fetched or found in the cache,
\* and whether or not the cache would keep it (client.py:95-159).
AnswersWhole ==
    \A t \in Threads : result[t].code = "OK" => Whole(result[t].call, result[t].body)

\* A request of an account is sent with a client that carries its own API key,
\* whichever thread built that client (client.py:10-12, "without ever sharing a
\* key across accounts").
OwnKey ==
    \A t \in Threads : client[t] # Nothing => client[t].key = call[t].account

\* Threads that race in _client_for build a client each, but no thread builds a
\* second one for a key: the leak of connection pools is bounded by the threads.
LeakBounded == \A a \in Accounts : built[a] <= Cardinality(Threads)

\* Every call ends, whatever Klaviyo answers and however its next links run:
\* the retry budget and _MAX_PAGES bound the two loops (client.py:38-40).
EveryCallEnds == \A t \in Threads : pc[t] # "idle" ~> pc[t] = "idle"
=============================================================================

------------------------------- MODULE Enrich -------------------------------
(***************************************************************************)
(* The calls of service.py that take rows from Klaviyo and decorate them   *)
(* with a lookup per row: campaign names and message names on report rows, *)
(* each distinct id once; the messages of a flow's send actions and the    *)
(* sizes of lists, row by row.  A lookup that ends in a                    *)
(* KlaviyoServiceError leaves its row without the value.  A request may    *)
(* also raise a KeyError when another thread is inside the response cache  *)
(* at the same time (Client, TTLCache), and that nothing here catches.     *)
(***************************************************************************)
EXTENDS Naturals, Sequences

CONSTANTS Threads, Tools, Listings, Ids, NoId, BadIds, Refusals, Failures, Null

ASSUME EnrichAssumption ==
    /\ Null \notin Ids /\ NoId \notin Ids /\ BadIds \subseteq Ids
    /\ \A rs \in Listings : rs \in Seq([id : Ids \cup {NoId}, send : BOOLEAN])
    /\ "plain" \in Tools
    /\ "OK" \notin Refusals \cup Failures /\ "NONE" \notin Refusals \cup Failures

VARIABLES
    pc,       \* of each thread: "idle", "listing", "looking" or "answered"
    tool,     \* what the call enriches
    rows,     \* the rows of the report or listing
    found,    \* what each lookup done so far gave, by its key
    asked,    \* the ids looked up
    again,    \* the ids looked up more than once
    lost,     \* the ids a lookup of which failed or gave nothing
    code,     \* how the call ended
    out       \* its rows, by their position in the listing

vars == <<pc, tool, rows, found, asked, again, lost, code, out>>

Phase(p) == CASE p = "listing" -> "asked" [] p = "looking" -> "listed" [] OTHER -> p

S == INSTANCE Sweep WITH phase <- [t \in Threads |-> Phase(pc[t])]

\* Lookups are filed by id, where a name is looked up once for all its rows,
\* and by row where they are made row by row.
Key_ByRow(tl, rs, i) == [id |-> rs[i].id, at |-> i]
Key(tl, rs, i) == [id |-> rs[i].id, at |-> IF S!Once(tl) THEN 0 ELSE i]

Keys(t) == {Key(tool[t], rows[t], i) : i \in S!Sought(tool[t], rows[t])}
Pending(t) == Keys(t) \ DOMAIN found[t]

\* A set of distinct ids is gone through in any order, rows in theirs.
Turn(t, k) == k \in Pending(t) /\ \A l \in Pending(t) : k.at <= l.at

Value(t, i) ==
    LET k == Key(tool[t], rows[t], i)
    IN  IF k \in DOMAIN found[t] THEN found[t][k] ELSE Null

-----------------------------------------------------------------------------
EnrichInit ==
    /\ pc = [t \in Threads |-> "idle"]
    /\ tool = [t \in Threads |-> "plain"]
    /\ rows = [t \in Threads |-> <<>>]
    /\ found = [t \in Threads |-> [k \in {} |-> Null]]
    /\ asked = [t \in Threads |-> {}]
    /\ again = [t \in Threads |-> {}]
    /\ lost = [t \in Threads |-> {}]
    /\ code = [t \in Threads |-> "NONE"]
    /\ out = [t \in Threads |-> <<>>]

Finish(t, c, o) ==
    /\ pc' = [pc EXCEPT ![t] = "answered"]
    /\ code' = [code EXCEPT ![t] = c]
    /\ out' = [out EXCEPT ![t] = o]
    /\ UNCHANGED <<tool, rows, found, asked, again, lost>>

\* The arguments are sound: the call goes on to Klaviyo.
Accept(t, tl) ==
    /\ pc[t] = "idle"
    /\ pc' = [pc EXCEPT ![t] = "listing"]
    /\ tool' = [tool EXCEPT ![t] = tl]
    /\ UNCHANGED <<rows, found, asked, again, lost, code, out>>

Refuse(t, c) == pc[t] = "idle" /\ Finish(t, c, <<>>)

\* The report, or the pages of the listing, arrive.
Listed(t, rs) ==
    /\ pc[t] = "listing"
    /\ pc' = [pc EXCEPT ![t] = "looking"]
    /\ rows' = [rows EXCEPT ![t] = rs]
    /\ UNCHANGED <<tool, found, asked, again, lost, code, out>>

ListingFails(t, c) == pc[t] = "listing" /\ Finish(t, c, <<>>)

\* One lookup has ended with value v.
Note(t, k, v) ==
    /\ found' = [found EXCEPT ![t] = [l \in DOMAIN @ \cup {k} |-> IF l = k THEN v ELSE @[l]]]
    /\ asked' = [asked EXCEPT ![t] = @ \cup {k.id}]
    /\ again' = [again EXCEPT ![t] = @ \cup (asked[t] \cap {k.id})]
    /\ UNCHANGED <<pc, tool, rows, code, out>>

Found(t, k) ==
    /\ pc[t] = "looking" /\ Turn(t, k)
    /\ Note(t, k, k.id)
    /\ UNCHANGED lost

\* The request ended in a KlaviyoServiceError, or its answer has no name, no
\* message, or no data.
Lacks_StartsOver(t, k) ==
    /\ pc[t] = "looking" /\ Turn(t, k)
    /\ found' = [found EXCEPT ![t] = [l \in {} |-> Null]]
    /\ asked' = [asked EXCEPT ![t] = {}]
    /\ UNCHANGED <<pc, tool, rows, again, lost, code, out>>
Lacks_Aborts(t, k) ==
    /\ pc[t] = "looking" /\ Turn(t, k)
    /\ Finish(t, "UPSTREAM_ERROR", <<>>)
Lacks_GivesUp(t, k) ==
    /\ pc[t] = "looking" /\ Turn(t, k)
    /\ found' = [found EXCEPT ![t] =
                    [l \in DOMAIN @ \cup Pending(t) |-> IF l \in DOMAIN @ THEN @[l] ELSE Null]]
    /\ asked' = [asked EXCEPT ![t] = @ \cup {k.id}]
    /\ lost' = [lost EXCEPT ![t] = @ \cup {k.id}]
    /\ UNCHANGED <<pc, tool, rows, again, code, out>>
Lacks(t, k) ==
    /\ pc[t] = "looking" /\ Turn(t, k)
    /\ Note(t, k, Null)
    /\ lost' = [lost EXCEPT ![t] = @ \cup {k.id}]

\* The call is at a request, and so in the cache, before and after it.
Inside(t) == pc[t] = "listing" \/ (pc[t] = "looking" /\ Pending(t) # {})

\* KeyError is not a KlaviyoServiceError: it passes every except up to the
\* adapter, also from a lookup that is meant to degrade.
Raises(t) ==
    /\ Inside(t)
    /\ \E u \in Threads \ {t} : Inside(u)
    /\ Finish(t, "INTERNAL_ERROR", <<>>)

Answer(t) ==
    /\ pc[t] = "looking" /\ Pending(t) = {}
    /\ Finish(t, "OK", [i \in S!Kept(tool[t], rows[t]) |-> Value(t, i)])

\* What the call does between being accepted and its answer.
Works(t) ==
    \/ \E rs \in Listings : Listed(t, rs)
    \/ \E c \in Failures : ListingFails(t, c)
    \/ \E k \in Keys(t) : Found(t, k) \/ Lacks(t, k)
    \/ Raises(t)
    \/ Answer(t)

EnrichNext ==
    \E t \in Threads :
        \/ \E tl \in Tools : Accept(t, tl)
        \/ \E c \in Refusals : Refuse(t, c)
        \/ Works(t)

EnrichSpec == EnrichInit /\ [][EnrichNext]_vars

-----------------------------------------------------------------------------
EnrichTypeOK ==
    /\ pc \in [Threads -> {"idle", "listing", "looking", "answered"}]
    /\ tool \in [Threads -> Tools]
    /\ rows \in [Threads -> Listings \cup {<<>>}]
    /\ DOMAIN found = Threads /\ DOMAIN out = Threads
    /\ \A t \in Threads : DOMAIN found[t] \subseteq Keys(t)
    /\ \A t \in Threads : \A k \in DOMAIN found[t] : found[t][k] \in {k.id, Null}
    /\ asked \in [Threads -> SUBSET Ids] /\ again \in [Threads -> SUBSET Ids]
    /\ lost \in [Threads -> SUBSET Ids]
    /\ code \in [Threads -> {"NONE", "OK", "INTERNAL_ERROR"} \cup Refusals \cup Failures]

\* Rows in order, each with its own value or none, whatever lookups do: only a
\* collision in the cache fails a call whose rows are there (service.py:1778,
\* 1799-1800).
KeepsPromise == S!Spec

\* No name is asked for twice, however many rows share it (service.py:1774,
\* 1908): each lookup is a rate-limited request.
OnceEach == \A t \in Threads : S!Once(tool[t]) => again[t] = {}

\* One lookup that fails takes the value of no other row with it: where an answer
\* lacks a value that was to be looked up, the lookup of that very id gave none
\* (service.py:511-513, 1979-1981).
NullsExplained ==
    \A t \in Threads :
        code[t] = "OK" =>
            \A i \in S!Sought(tool[t], rows[t]) :
                out[t][i] = Null => rows[t][i].id \in lost[t]
=============================================================================

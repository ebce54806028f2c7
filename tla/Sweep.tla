------------------------------- MODULE Sweep -------------------------------
(***************************************************************************)
(* What a tool that decorates rows with looked-up values promises: its     *)
(* answer has every row of the listing, in the listing's order, each with  *)
(* its own value or without one.  Once the rows are there, no lookup can   *)
(* fail the call; only another call inside the shared response cache can   *)
(* (TTLCache).  Enrich implements this module.                             *)
(***************************************************************************)
EXTENDS Naturals, Sequences

CONSTANTS
    Threads,
    Tools,       \* "campaigns", "messages", "structure", "lists"; "plain" looks nothing up
    Listings,    \* sequences of rows [id, send]: what Klaviyo may list
    Ids, NoId,   \* the resource ids of rows; NoId is a row without one
    BadIds,      \* the ids that _RESOURCE_ID_PATTERN does not match
    Refusals,    \* how a call may end before it asks Klaviyo for anything
    Failures,    \* the codes of the KlaviyoServiceErrors a request may end in
    Null

VARIABLES
    phase,    \* of each thread's call: "idle", "asked", "listed" or "answered"
    tool, rows, code, out

vars == <<phase, tool, rows, code, out>>

\* The positions of the rows that have the id their tool needs.  A flow row need
\* not have a message; any other row without an id is dropped.
Kept(tl, rs) == {i \in DOMAIN rs : tl = "messages" \/ rs[i].id # NoId}

\* The rows whose value is looked up: the id fits into a path, and a step of a
\* flow is one that sends.
Sought(tl, rs) ==
    {i \in Kept(tl, rs) : /\ tl # "plain"
                          /\ rs[i].id \in Ids \ BadIds
                          /\ tl = "structure" => rs[i].send}

\* One lookup for all the rows of one campaign or one message.
Once(tl) == tl \in {"campaigns", "messages"}

\* o[i] is the value of row i: Null, or what its own id was found to be.
Fulfils(tl, rs, o) ==
    /\ DOMAIN o = Kept(tl, rs)
    /\ \A i \in Kept(tl, rs) :
          o[i] \in (IF i \in Sought(tl, rs) THEN {rs[i].id, Null} ELSE {Null})
    /\ Once(tl) => \A i, j \in Kept(tl, rs) : rs[i].id = rs[j].id => o[i] = o[j]

-----------------------------------------------------------------------------
Init ==
    /\ phase = [t \in Threads |-> "idle"]
    /\ tool = [t \in Threads |-> "plain"]
    /\ rows = [t \in Threads |-> <<>>]
    /\ code = [t \in Threads |-> "NONE"]
    /\ out = [t \in Threads |-> <<>>]

Finish(t, c, o) ==
    /\ phase' = [phase EXCEPT ![t] = "answered"]
    /\ code' = [code EXCEPT ![t] = c]
    /\ out' = [out EXCEPT ![t] = o]
    /\ UNCHANGED <<tool, rows>>

Accept(t, tl) ==
    /\ phase[t] = "idle"
    /\ phase' = [phase EXCEPT ![t] = "asked"]
    /\ tool' = [tool EXCEPT ![t] = tl]
    /\ UNCHANGED <<rows, code, out>>

Refuse(t, c) == phase[t] = "idle" /\ Finish(t, c, <<>>)

List(t, rs) ==
    /\ phase[t] = "asked"
    /\ phase' = [phase EXCEPT ![t] = "listed"]
    /\ rows' = [rows EXCEPT ![t] = rs]
    /\ UNCHANGED <<tool, code, out>>

Fail(t, c) == phase[t] = "asked" /\ Finish(t, c, <<>>)

\* Only a call that another one overlaps can be lost after its rows are there.
Collide(t) ==
    /\ phase[t] \in {"asked", "listed"}
    /\ \E u \in Threads \ {t} : phase[u] \in {"asked", "listed"}
    /\ Finish(t, "INTERNAL_ERROR", <<>>)

Deliver(t) ==
    /\ phase[t] = "listed"
    /\ Fulfils(tool[t], rows[t], out'[t])
    /\ Finish(t, "OK", out'[t])

Next ==
    \E t \in Threads :
        \/ \E tl \in Tools : Accept(t, tl)
        \/ \E c \in Refusals : Refuse(t, c)
        \/ \E rs \in Listings : List(t, rs)
        \/ \E c \in Failures : Fail(t, c)
        \/ Collide(t)
        \/ Deliver(t)

Spec == Init /\ [][Next]_vars
=============================================================================

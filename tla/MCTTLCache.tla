----------------------------- MODULE MCTTLCache -----------------------------
(***************************************************************************)
(* TTLCache on small instances, with a history of use, which states what   *)
(* "least recently used" promises a caller, and of which calls overlapped, *)
(* which states what a call may rely on that has the cache to itself, as   *)
(* every call of a sync gunicorn worker does.                              *)
(***************************************************************************)
EXTENDS TTLCache, TLC

VARIABLES
    since,    \* since[k]: the other keys hit or stored after k's last use
    alone     \* alone[t]: no other call overlapped with t's current or last one

mcvars == <<vars, since, alone>>

MCInit ==
    /\ Init
    /\ since = [k \in Keys |-> Keys]
    /\ alone = [t \in Threads |-> TRUE]

\* A get that answers with a value uses its key, and so does a set.
Used(t) == pc[t] \in {"touch", "promote"} /\ Present(key[t])

UseStep(t) ==
    since' = IF Used(t)
             THEN [k \in Keys |-> IF k = key[t] THEN {} ELSE since[k] \cup {key[t]}]
             ELSE since

OverlapStep(t) ==
    alone' = [u \in Threads |->
                IF u = t
                THEN IF pc[t] = "idle" THEN \A w \in Threads \ {t} : pc[w] = "idle"
                                       ELSE alone[t]
                ELSE alone[u] /\ pc[u] = "idle"]

MCNext ==
    \/ Tick /\ UNCHANGED <<since, alone>>
    \/ \E t \in Threads : (Get(t) \/ Set(t)) /\ UseStep(t) /\ OverlapStep(t)

MCSpec == MCInit /\ [][MCNext]_mcvars

\* Nothing tells two threads, two keys or two values apart.
Symmetric == Permutations(Threads) \cup Permutations(Keys) \cup Permutations(Values)

-----------------------------------------------------------------------------
\* Only a call that another one overlapped ends in a KeyError: calls that came
\* and went before, however they collided, leave the cache in a sound state
\* (cache.py:75-94).
KeyErrorTakesTwo == \A t \in Threads : alone[t] => reply[t] # "raised"

Gone == DOMAIN store \ DOMAIN store'

\* A call that is alone removes nothing without cause: a get deletes only an entry
\* that has outlived its TTL, and a set evicts only while the cache is over its cap
\* (cache.py:54, 58, "once max_entries is exceeded").
RemovesWithCause ==
    [][\A t \in Threads :
          alone[t] /\ Gone # {} =>
             /\ pc[t] = "drop" /\ pc'[t] # "drop" => \A k \in Gone : now >= store[k].expires
             /\ pc[t] = "pop" /\ pc'[t] # "pop" => Cardinality(DOMAIN store) > MaxEntries]_mcvars

\* A set that is alone evicts an entry only after MaxEntries other keys were used
\* since that entry's last use: what a caller keeps asking for stays cached
\* (cache.py:58, 84).
RecentlyUsedSurvives ==
    [][\A t \in Threads : pc[t] = "pop" /\ pc'[t] # "pop" /\ alone[t] =>
          \A k \in Gone : Cardinality(since[k]) >= MaxEntries]_mcvars
=============================================================================

------------------------------ MODULE TTLCache ------------------------------
(***************************************************************************)
(* TTLCache of klaviyo_analytics/cache.py, shared without a lock by the    *)
(* worker threads that run MCP tool calls (server.py, asyncio.to_thread).  *)
(* The interpreter lock makes one OrderedDict operation atomic and nothing *)
(* more, so each operation on self._store is a step of its own and the     *)
(* steps of several get and set calls interleave.                          *)
(***************************************************************************)
EXTENDS Naturals, FiniteSets, Sequences

CONSTANTS
    Threads, Keys, Values,
    MaxEntries,   \* _max_entries, 256 in production
    TTL,          \* _ttl; build_cache makes a TTLCache only when it is > 0
    MaxTime,      \* bound on the clock, for TLC
    Nothing       \* no entry

ASSUME ThreadsAssumption == IsFiniteSet(Threads)
ASSUME KeysAssumption == IsFiniteSet(Keys)
ASSUME BoundsAssumption ==
    MaxEntries \in Nat \ {0} /\ TTL \in Nat \ {0} /\ MaxTime \in Nat
ASSUME ValuesAssumption == {"none", "miss", "stored", "raised"} \cap Values = {}
ASSUME NothingAssumption == Nothing \notin [expires : Nat, value : Values]

VARIABLES
    store,    \* self._store: the present keys and their (expires_at, value)
    order,    \* the OrderedDict's order, least recently used first
    now,      \* self._time()
    pc,       \* pc[t]: the next step of the call thread t is in
    key,      \* key[t]: the key of that call, or of t's last one
    entry,    \* entry[t]: the entry get has read or set is about to store
    reply     \* reply[t]: how t's last call ended

vars == <<store, order, now, pc, key, entry, reply>>

Entries == [expires : 0 .. MaxTime + TTL, value : Values]

Setting == {"write", "promote", "measure", "pop"}

TypeOK ==
    /\ DOMAIN store \subseteq Keys
    /\ store \in [DOMAIN store -> Entries]
    /\ order \in Seq(Keys)
    /\ now \in 0 .. MaxTime
    /\ pc \in [Threads -> {"idle", "check", "drop", "touch"} \cup Setting]
    /\ key \in [Threads -> Keys \cup {Nothing}]
    /\ entry \in [Threads -> Entries \cup {Nothing}]
    /\ \A t \in Threads : pc[t] # "idle" => key[t] \in Keys
    /\ \A t \in Threads :
          pc[t] \in {"check", "drop", "touch", "write"} => entry[t] \in Entries
    /\ reply \in [Threads -> Values \cup {"none", "miss", "stored", "raised"}]

Init ==
    /\ store = [k \in {} |-> Nothing]
    /\ order = <<>>
    /\ now = 0
    /\ pc = [t \in Threads |-> "idle"]
    /\ key = [t \in Threads |-> Nothing]
    /\ entry = [t \in Threads |-> Nothing]
    /\ reply = [t \in Threads |-> "none"]

-----------------------------------------------------------------------------
(* The OrderedDict operations.                                             *)

Present(k) == k \in DOMAIN store

\* s without its element k; all of s when k is not in it.
Without(s, k) ==
    IF \E i \in DOMAIN s : s[i] = k
    THEN LET at == CHOOSE i \in DOMAIN s : s[i] = k
         IN  SubSeq(s, 1, at - 1) \o SubSeq(s, at + 1, Len(s))
    ELSE s

\* `del self._store[key]` and popitem, for a key that is present.
Remove(k) ==
    /\ store' = [j \in DOMAIN store \ {k} |-> store[j]]
    /\ order' = Without(order, k)

\* move_to_end, for a key that is present.
MoveToEnd(k) == order' = Append(Without(order, k), k) /\ UNCHANGED store

\* `self._store[key] = e`: a new key goes to the end, an old one stays put.
Assign(k, e) ==
    /\ store' = [j \in DOMAIN store \cup {k} |-> IF j = k THEN e ELSE store[j]]
    /\ order' = IF Present(k) THEN order ELSE Append(order, k)

LeastRecent(k) == order # <<>> /\ k = Head(order)

Goto(t, label) == pc' = [pc EXCEPT ![t] = label] /\ UNCHANGED reply

Start(t, label, e) ==
    /\ pc' = [pc EXCEPT ![t] = label]
    /\ entry' = [entry EXCEPT ![t] = e]
    /\ reply' = [reply EXCEPT ![t] = "none"]

Return(t, how) ==
    /\ pc' = [pc EXCEPT ![t] = "idle"]
    /\ reply' = [reply EXCEPT ![t] = how]
    /\ entry' = [entry EXCEPT ![t] = Nothing]

-----------------------------------------------------------------------------
(* get                                                                     *)

\* As if two keys could share a slot, the hash leaving part of the request out.
Lookup_SharedSlot(t, k) ==
    /\ pc[t] = "idle"
    /\ key' = [key EXCEPT ![t] = k]
    /\ \/ \E j \in DOMAIN store : Start(t, "check", store[j])
       \/ DOMAIN store = {} /\ Return(t, "miss")
    /\ UNCHANGED <<store, order, now>>

\* self._store.get(key): a miss returns at once.
Lookup(t, k) ==
    /\ pc[t] = "idle"
    /\ key' = [key EXCEPT ![t] = k]
    /\ \/ Present(k) /\ Start(t, "check", store[k])
       \/ ~Present(k) /\ Return(t, "miss")
    /\ UNCHANGED <<store, order, now>>

Expired(e) == now >= e.expires

Check(t) ==
    /\ pc[t] = "check"
    /\ Goto(t, IF Expired(entry[t]) THEN "drop" ELSE "touch")
    /\ UNCHANGED <<store, order, now, key, entry>>

\* Without the early return the call goes on to move_to_end.
Drop_NoReturn(t) ==
    /\ pc[t] = "drop"
    /\ Present(key[t]) /\ Remove(key[t]) /\ Goto(t, "touch")
    /\ UNCHANGED <<now, key, entry>>

\* `del self._store[key]`, a KeyError when another thread was faster.
Drop(t) ==
    /\ pc[t] = "drop"
    /\ \/ Present(key[t]) /\ Remove(key[t]) /\ Return(t, "miss")
       \/ ~Present(key[t]) /\ Return(t, "raised") /\ UNCHANGED <<store, order>>
    /\ UNCHANGED <<now, key>>

Touch_NoRefresh(t) ==
    /\ pc[t] = "touch"
    /\ Return(t, entry[t].value)
    /\ UNCHANGED <<store, order, now, key>>

\* move_to_end, then the deep copy of the entry read by Lookup.
Touch(t) ==
    /\ pc[t] = "touch"
    /\ \/ Present(key[t]) /\ MoveToEnd(key[t]) /\ Return(t, entry[t].value)
       \/ ~Present(key[t]) /\ Return(t, "raised") /\ UNCHANGED <<store, order>>
    /\ UNCHANGED <<now, key>>

-----------------------------------------------------------------------------
(* set                                                                     *)

Stamp_TwiceTTL(t, k, v) ==
    /\ pc[t] = "idle"
    /\ key' = [key EXCEPT ![t] = k]
    /\ Start(t, "write", [expires |-> now + 2 * TTL, value |-> v])
    /\ UNCHANGED <<store, order, now>>

\* The clock is read, and the value copied, before the entry is stored.
Stamp(t, k, v) ==
    /\ pc[t] = "idle"
    /\ key' = [key EXCEPT ![t] = k]
    /\ Start(t, "write", [expires |-> now + TTL, value |-> v])
    /\ UNCHANGED <<store, order, now>>

Write(t) ==
    /\ pc[t] = "write"
    /\ Assign(key[t], entry[t])
    /\ Goto(t, "promote")
    /\ entry' = [entry EXCEPT ![t] = Nothing]
    /\ UNCHANGED <<now, key>>

\* move_to_end of the key just stored; a KeyError when it is gone again,
\* and then the eviction loop is skipped.
Promote(t) ==
    /\ pc[t] = "promote"
    /\ \/ /\ Present(key[t]) /\ MoveToEnd(key[t])
          /\ Goto(t, "measure") /\ UNCHANGED entry
       \/ ~Present(key[t]) /\ Return(t, "raised") /\ UNCHANGED <<store, order>>
    /\ UNCHANGED <<now, key>>

Over_Late == Cardinality(DOMAIN store) > MaxEntries + 1
Over_AtCap == Cardinality(DOMAIN store) >= MaxEntries
Over == Cardinality(DOMAIN store) > MaxEntries

Measure(t) ==
    /\ pc[t] = "measure"
    /\ \/ Over /\ Goto(t, "pop") /\ UNCHANGED entry
       \/ ~Over /\ Return(t, "stored")
    /\ UNCHANGED <<store, order, now, key>>

\* popitem(last=False), which raises on an empty dict.
Pop(t) ==
    /\ pc[t] = "pop"
    /\ \/ /\ \E k \in DOMAIN store : LeastRecent(k) /\ Remove(k)
          /\ Goto(t, "measure") /\ UNCHANGED entry
       \/ DOMAIN store = {} /\ Return(t, "raised") /\ UNCHANGED <<store, order>>
    /\ UNCHANGED <<now, key>>

-----------------------------------------------------------------------------
Tick ==
    /\ now < MaxTime
    /\ now' = now + 1
    /\ UNCHANGED <<store, order, pc, key, entry, reply>>

Get(t) == (\E k \in Keys : Lookup(t, k)) \/ Check(t) \/ Drop(t) \/ Touch(t)

Set(t) ==
    \/ \E k \in Keys, v \in Values : Stamp(t, k, v)
    \/ Write(t) \/ Promote(t) \/ Measure(t) \/ Pop(t)

Next == Tick \/ \E t \in Threads : Get(t) \/ Set(t)

Spec == Init /\ [][Next]_vars

-----------------------------------------------------------------------------
(* Properties that hold however the calls interleave.                      *)

\* The threads that have stored an entry and not yet finished evicting.
Storing == {t \in Threads : pc[t] \in {"promote", "measure", "pop"}}

\* The cache never exceeds its cap by more than one entry per set in flight;
\* with no set in flight it is within _max_entries (cache.py:93-94), even
\* when a set is cut short by a KeyError before its eviction loop.
BoundedStore == Cardinality(DOMAIN store) <= MaxEntries + Cardinality(Storing)

\* What the protocol sees of the state.
Held(k) == IF Present(k) THEN store[k] ELSE Nothing
Phase(p) == CASE p \in {"check", "drop"}               -> "looking"
              [] p = "touch"                           -> "serving"
              [] p = "write"                           -> "storing"
              [] p \in {"promote", "measure", "pop"}   -> "stored"
              [] OTHER                                 -> "idle"

\* TTLCache keeps the promise of the ResponseCache protocol: a get of a key
\* answers with a miss, or with a value that a set of that very key stored and
\* that was live when the clock was read, whatever other threads overwrite,
\* drop or evict before the call returns (cache.py:33, 37, 75-94).
Contract == INSTANCE ResponseCache WITH
    held <- [k \in Keys |-> Held(k)],
    asked <- key,
    phase <- [t \in Threads |-> Phase(pc[t])],
    pick <- entry

KeepsContract == Contract!Spec

\* A call answers; it does not raise a KeyError (cache.py:33, "Return the
\* cached value for key, or None on a miss/expiry").  Threads that collide
\* break it; MCTTLCache says what remains.
NoKeyError == \A t \in Threads : reply[t] # "raised"
=============================================================================

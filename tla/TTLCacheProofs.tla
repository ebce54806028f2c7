--------------------------- MODULE TTLCacheProofs ---------------------------
(***************************************************************************)
(* Proofs about TTLCache for any number of threads, keys and values and    *)
(* any cap and TTL: its type invariant, that it stays within its cap plus  *)
(* one entry per set in flight, and that it implements ResponseCache; and  *)
(* about MCTTLCache, what a call may rely on that no other overlaps with.  *)
(***************************************************************************)
EXTENDS MCTTLCache, FiniteSetTheorems, SequenceTheorems, TLAPS

\* Removing a key from the use order leaves an order of keys.
LEMMA WithoutType ==
    ASSUME NEW s \in Seq(Keys), NEW k
    PROVE  Without(s, k) \in Seq(Keys)
<1>1. CASE \E i \in DOMAIN s : s[i] = k
  <2> DEFINE at == CHOOSE i \in DOMAIN s : s[i] = k
  <2>1. at \in 1 .. Len(s)  BY <1>1
  <2>2. Without(s, k) = SubSeq(s, 1, at - 1) \o SubSeq(s, at + 1, Len(s))
    BY <1>1 DEF Without
  <2> HIDE DEF at
  <2>3. /\ \A i \in 1 .. at - 1 : s[i] \in Keys
        /\ \A i \in at + 1 .. Len(s) : s[i] \in Keys
    BY <2>1
  <2>4. SubSeq(s, 1, at - 1) \in Seq(Keys)
    <3>1. at - 1 \in Int  BY <2>1
    <3> QED  BY <2>3, <3>1, SubSeqProperties
  <2>5. SubSeq(s, at + 1, Len(s)) \in Seq(Keys)
    <3>1. at + 1 \in Int /\ Len(s) \in Int  BY <2>1
    <3> QED  BY <2>3, <3>1, SubSeqProperties
  <2> QED  BY <2>2, <2>4, <2>5, ConcatProperties
<1>2. CASE ~ \E i \in DOMAIN s : s[i] = k  BY <1>2 DEF Without
<1> QED  BY <1>1, <1>2

\* The state stays well-typed: the store is keyed by Keys, the order is an
\* order of keys, and a thread inside a call has the key and entry it needs.
THEOREM TypeCorrect == Spec => []TypeOK
<1>1. Init => TypeOK
  BY BoundsAssumption, EmptySeq DEF Init, TypeOK, Setting
<1>2. TypeOK /\ [Next]_vars => TypeOK'
  <2> SUFFICES ASSUME TypeOK, [Next]_vars PROVE TypeOK'
    OBVIOUS
  <2> USE BoundsAssumption DEF TypeOK, Setting
  <2>1. CASE UNCHANGED vars  BY <2>1 DEF vars
  <2>2. CASE Tick  BY <2>2 DEF Tick
  <2>3. ASSUME NEW t \in Threads, NEW k \in Keys, Lookup(t, k) PROVE TypeOK'
    BY <2>3 DEF Lookup, Present, Start, Return
  <2>4. ASSUME NEW t \in Threads, Check(t) PROVE TypeOK'
    BY <2>4 DEF Check, Goto
  <2>5. ASSUME NEW t \in Threads, Drop(t) PROVE TypeOK'
    <3>1. CASE Present(key[t]) /\ Remove(key[t]) /\ Return(t, "miss")
      BY <2>5, <3>1, WithoutType DEF Drop, Remove, Return
    <3>2. CASE ~Present(key[t]) /\ Return(t, "raised") /\ UNCHANGED <<store, order>>
      BY <2>5, <3>2 DEF Drop, Return
    <3> QED  BY <2>5, <3>1, <3>2 DEF Drop
  <2>6. ASSUME NEW t \in Threads, Touch(t) PROVE TypeOK'
    <3>1. CASE Present(key[t]) /\ MoveToEnd(key[t]) /\ Return(t, entry[t].value)
      <4>1. order' \in Seq(Keys)
        BY <2>6, <3>1, WithoutType, AppendProperties DEF Touch, MoveToEnd
      <4>2. entry[t].value \in Values  BY <2>6 DEF Touch, Entries
      <4> QED  BY <2>6, <3>1, <4>1, <4>2 DEF Touch, MoveToEnd, Return
    <3>2. CASE ~Present(key[t]) /\ Return(t, "raised") /\ UNCHANGED <<store, order>>
      BY <2>6, <3>2 DEF Touch, Return
    <3> QED  BY <2>6, <3>1, <3>2 DEF Touch
  <2>7. ASSUME NEW t \in Threads, NEW k \in Keys, NEW v \in Values, Stamp(t, k, v)
        PROVE TypeOK'
    BY <2>7 DEF Stamp, Start, Entries
  <2>8. ASSUME NEW t \in Threads, Write(t) PROVE TypeOK'
    <3>1. order' \in Seq(Keys)
      BY <2>8, AppendProperties DEF Write, Assign
    <3>2. DOMAIN store' \subseteq Keys /\ store' \in [DOMAIN store' -> Entries]
      BY <2>8 DEF Write, Assign
    <3> QED  BY <2>8, <3>1, <3>2 DEF Write, Goto
  <2>9. ASSUME NEW t \in Threads, Promote(t) PROVE TypeOK'
    <3>1. CASE Present(key[t]) /\ MoveToEnd(key[t]) /\ Goto(t, "measure")
      <4>1. order' \in Seq(Keys)
        BY <2>9, <3>1, WithoutType, AppendProperties DEF Promote, MoveToEnd
      <4> QED  BY <2>9, <3>1, <4>1 DEF Promote, MoveToEnd, Goto, Return, Present
    <3>2. CASE ~Present(key[t]) /\ Return(t, "raised") /\ UNCHANGED <<store, order>>
      BY <2>9, <3>2 DEF Promote, Return
    <3> QED  BY <2>9, <3>1, <3>2 DEF Promote
  <2>10. ASSUME NEW t \in Threads, Measure(t) PROVE TypeOK'
    BY <2>10 DEF Measure, Goto, Return
  <2>11. ASSUME NEW t \in Threads, Pop(t) PROVE TypeOK'
    <3>1. ASSUME NEW k \in DOMAIN store, Remove(k), Goto(t, "measure"),
                 UNCHANGED <<entry, now>>
          PROVE  TypeOK'
      BY <2>11, <3>1, WithoutType DEF Pop, Remove, Goto
    <3>2. CASE Return(t, "raised") /\ UNCHANGED <<store, order>>
      BY <2>11, <3>2 DEF Pop, Return
    <3> QED  BY <2>11, <3>1, <3>2 DEF Pop
  <2> QED
    BY <2>1, <2>2, <2>3, <2>4, <2>5, <2>6, <2>7, <2>8, <2>9, <2>10, <2>11
       DEF Next, Get, Set
<1> QED  BY <1>1, <1>2, PTL DEF Spec

-----------------------------------------------------------------------------
(* The cap.  Counting threads is not enough for an inductive invariant: a  *)
(* set that raises in move_to_end leaves without evicting anything, which  *)
(* is harmless only because its key has left the store.  So the keys whose *)
(* set still has to promote them are set apart, and the other present keys *)
(* are counted against the threads that are already evicting.              *)

Promoting == {t \in Threads : pc[t] = "promote"}
Evicting == {t \in Threads : pc[t] \in {"measure", "pop"}}
Unpromoted == {k \in DOMAIN store : \E t \in Promoting : key[t] = k}
Settled == DOMAIN store \ Unpromoted

SettledBound == Cardinality(Settled) <= MaxEntries + Cardinality(Evicting)

LEMMA Finiteness ==
    ASSUME TypeOK
    PROVE  /\ IsFiniteSet(DOMAIN store) /\ IsFiniteSet(Unpromoted)
           /\ IsFiniteSet(Settled) /\ IsFiniteSet(Promoting)
           /\ IsFiniteSet(Evicting)
BY KeysAssumption, ThreadsAssumption, FS_Subset
   DEF TypeOK, Unpromoted, Settled, Promoting, Evicting

\* Each unpromoted key has a thread of its own that is about to promote it.
LEMMA UnpromotedBound ==
    ASSUME TypeOK
    PROVE  Cardinality(Unpromoted) <= Cardinality(Promoting)
<1> DEFINE f == [k \in Unpromoted |-> CHOOSE t \in Promoting : key[t] = k]
<1>1. \A k \in Unpromoted : f[k] \in Promoting /\ key[f[k]] = k
  BY DEF Unpromoted
<1>2. f \in Injection(Unpromoted, Promoting)
  BY <1>1 DEF Injection, IsInjective
<1> QED  BY <1>2, Finiteness, FS_Injection

LEMMA DisjointUnion ==
    ASSUME NEW S, NEW T, IsFiniteSet(S), IsFiniteSet(T), S \cap T = {}
    PROVE  Cardinality(S \cup T) = Cardinality(S) + Cardinality(T)
<1>1. Cardinality(S \cup T)
        = Cardinality(S) + Cardinality(T) - Cardinality(S \cap T)
  BY FS_Union
<1>2. Cardinality(S \cap T) = 0  BY FS_EmptySet
<1> QED  BY <1>1, <1>2, FS_CardinalityType

LEMMA SettledImpliesBounded ==
    ASSUME TypeOK, SettledBound
    PROVE  BoundedStore
<1>1. Cardinality(DOMAIN store)
        = Cardinality(Settled) + Cardinality(Unpromoted)
  <2>1. DOMAIN store = Settled \cup Unpromoted /\ Settled \cap Unpromoted = {}
    BY DEF Settled, Unpromoted
  <2> QED  BY <2>1, Finiteness, DisjointUnion
<1>2. Cardinality(Storing) = Cardinality(Promoting) + Cardinality(Evicting)
  <2>1. Storing = Promoting \cup Evicting /\ Promoting \cap Evicting = {}
    BY DEF Storing, Promoting, Evicting
  <2> QED  BY <2>1, Finiteness, DisjointUnion
<1>3. Cardinality(Unpromoted) <= Cardinality(Promoting)
  BY UnpromotedBound
<1> QED
  BY <1>1, <1>2, <1>3, Finiteness, FS_CardinalityType, BoundsAssumption
     DEF SettledBound, BoundedStore

\* A step that settles no key and ends no eviction keeps the bound.
LEMMA FewerSettled ==
    ASSUME TypeOK, TypeOK', SettledBound,
           Settled' \subseteq Settled, Evicting \subseteq Evicting'
    PROVE  SettledBound'
<1>1. /\ IsFiniteSet(Settled) /\ IsFiniteSet(Settled')
      /\ IsFiniteSet(Evicting) /\ IsFiniteSet(Evicting')
  BY KeysAssumption, ThreadsAssumption, FS_Subset
     DEF TypeOK, Unpromoted, Settled, Evicting
<1>2. Cardinality(Settled') <= Cardinality(Settled)  BY <1>1, FS_Subset
<1>3. Cardinality(Evicting) <= Cardinality(Evicting')  BY <1>1, FS_Subset
<1> QED
  BY <1>1, <1>2, <1>3, FS_CardinalityType, BoundsAssumption DEF SettledBound

LEMMA SettledInductive ==
    ASSUME TypeOK, TypeOK', SettledBound, [Next]_vars
    PROVE  SettledBound'
<1> USE DEF Settled, Unpromoted, Promoting, Evicting
<1>1. CASE UNCHANGED vars  BY <1>1, FewerSettled DEF vars
<1>2. CASE Tick  BY <1>2, FewerSettled DEF Tick
<1>3. ASSUME NEW t \in Threads, NEW k \in Keys, Lookup(t, k)
      PROVE  SettledBound'
  BY <1>3, FewerSettled DEF Lookup, Start, Return, TypeOK
<1>4. ASSUME NEW t \in Threads, Check(t) PROVE SettledBound'
  BY <1>4, FewerSettled DEF Check, Goto, TypeOK
<1>5. ASSUME NEW t \in Threads, Drop(t) PROVE SettledBound'
  BY <1>5, FewerSettled DEF Drop, Remove, Return, TypeOK
<1>6. ASSUME NEW t \in Threads, Touch(t) PROVE SettledBound'
  BY <1>6, FewerSettled DEF Touch, MoveToEnd, Return, TypeOK
<1>7. ASSUME NEW t \in Threads, NEW k \in Keys, NEW v \in Values, Stamp(t, k, v)
      PROVE  SettledBound'
  BY <1>7, FewerSettled DEF Stamp, Start, TypeOK
\* The new key is unpromoted, and every other key is settled as before.
<1>8. ASSUME NEW t \in Threads, Write(t) PROVE SettledBound'
  BY <1>8, FewerSettled DEF Write, Assign, Goto, TypeOK
<1>9. ASSUME NEW t \in Threads, Promote(t) PROVE SettledBound'
  \* The key settles, and its thread goes on to evict.
  <2>1. CASE Present(key[t]) /\ MoveToEnd(key[t]) /\ Goto(t, "measure")
                             /\ UNCHANGED entry
    <3>1. Settled' \subseteq Settled \cup {key[t]}
      BY <1>9, <2>1 DEF Promote, MoveToEnd, Goto, TypeOK
    <3>2. Evicting' = Evicting \cup {t} /\ t \notin Evicting
      BY <1>9, <2>1 DEF Promote, Goto, TypeOK
    <3> HIDE DEF Settled, Evicting
    <3>3. IsFiniteSet(Settled \cup {key[t]})
      BY Finiteness, FS_AddElement
    <3>4. IsFiniteSet(Settled')
             /\ Cardinality(Settled') <= Cardinality(Settled \cup {key[t]})
      BY <3>1, <3>3, FS_Subset
    <3>5. Cardinality(Settled \cup {key[t]}) <= Cardinality(Settled) + 1
      <4>1. Cardinality(Settled) \in Nat  BY Finiteness, FS_CardinalityType
      <4>2. Cardinality(Settled \cup {key[t]}) \in
              {Cardinality(Settled), Cardinality(Settled) + 1}
        BY Finiteness, FS_AddElement
      <4> QED  BY <4>1, <4>2
    <3>6. Cardinality(Evicting') = Cardinality(Evicting) + 1
      BY <3>2, Finiteness, FS_AddElement
    <3> QED
      BY <3>3, <3>4, <3>5, <3>6, Finiteness, FS_CardinalityType, BoundsAssumption
         DEF SettledBound
  \* The key is gone, so nothing settles.
  <2>2. CASE ~Present(key[t]) /\ Return(t, "raised") /\ UNCHANGED <<store, order>>
    BY <1>9, <2>2, FewerSettled DEF Promote, Present, Return, TypeOK
  <2> QED  BY <1>9, <2>1, <2>2 DEF Promote
<1>10. ASSUME NEW t \in Threads, Measure(t) PROVE SettledBound'
  <2>1. CASE Goto(t, "pop") /\ UNCHANGED entry
    BY <1>10, <2>1, FewerSettled DEF Measure, Goto, TypeOK
  \* The eviction ends because the whole store is within the cap.
  <2>2. CASE ~Over
    <3>1. Settled' \subseteq DOMAIN store  BY <1>10 DEF Measure
    <3>2. Cardinality(Settled') <= Cardinality(DOMAIN store)
      BY <3>1, Finiteness, FS_Subset
    <3>3. IsFiniteSet(Settled') /\ IsFiniteSet(Evicting')
      BY <3>1, Finiteness, ThreadsAssumption, FS_Subset
    <3>4. Cardinality(DOMAIN store) <= MaxEntries  BY <2>2, Finiteness,
        FS_CardinalityType, BoundsAssumption DEF Over
    <3> HIDE DEF Settled, Evicting
    <3>5. Cardinality(Settled') \in Nat /\ Cardinality(Evicting') \in Nat
             /\ Cardinality(DOMAIN store) \in Nat
      BY <3>3, Finiteness, FS_CardinalityType
    <3>6. Cardinality(Settled') <= MaxEntries + Cardinality(Evicting')
      BY <3>2, <3>4, <3>5, BoundsAssumption
    <3> QED  BY <3>6 DEF SettledBound
  <2> QED  BY <1>10, <2>1, <2>2 DEF Measure
<1>11. ASSUME NEW t \in Threads, Pop(t) PROVE SettledBound'
  <2>1. ASSUME NEW k \in DOMAIN store, Remove(k), Goto(t, "measure"),
               UNCHANGED entry
        PROVE  SettledBound'
    BY <1>11, <2>1, FewerSettled DEF Pop, Remove, Goto, TypeOK
  <2>2. CASE DOMAIN store = {} /\ UNCHANGED <<store, order>>
    <3>1. Settled' = {}  BY <2>2
    <3>2. IsFiniteSet(Evicting')  BY ThreadsAssumption, FS_Subset
    <3> HIDE DEF Settled, Evicting
    <3>3. Cardinality(Settled') = 0 /\ Cardinality(Evicting') \in Nat
      BY <3>1, <3>2, FS_EmptySet, FS_CardinalityType
    <3> QED  BY <3>3, BoundsAssumption DEF SettledBound
  <2> QED  BY <1>11, <2>1, <2>2 DEF Pop
<1> QED
  BY <1>1, <1>2, <1>3, <1>4, <1>5, <1>6, <1>7, <1>8, <1>9, <1>10, <1>11
     DEF Next, Get, Set

\* The memory bound of a long-lived server (cache.py:24-26): however the
\* threads interleave, and even when a set dies of a KeyError before its
\* eviction loop, the store is over its cap by at most the sets in flight.
THEOREM StoreBounded == Spec => []BoundedStore
<1>1. Init => SettledBound
  <2> SUFFICES ASSUME Init PROVE SettledBound
    OBVIOUS
  <2>1. Settled = {}  BY DEF Init, Settled
  <2>2. IsFiniteSet(Evicting)  BY ThreadsAssumption, FS_Subset DEF Evicting
  <2> QED
    BY <2>1, <2>2, FS_EmptySet, FS_CardinalityType, BoundsAssumption
       DEF SettledBound
<1>2. TypeOK /\ TypeOK' /\ SettledBound /\ [Next]_vars => SettledBound'
  BY SettledInductive
<1>3. TypeOK /\ SettledBound => BoundedStore
  BY SettledImpliesBounded
<1> QED  BY TypeCorrect, <1>1, <1>2, <1>3, PTL DEF Spec

-----------------------------------------------------------------------------
(* The protocol.  Each operation on the store is one step of the contract, *)
(* or none of it.                                                          *)

LEMMA Phases ==
    /\ Phase("idle") = "idle" /\ Phase("touch") = "serving" /\ Phase("write") = "storing"
    /\ \A p \in {"check", "drop"} : Phase(p) = "looking"
    /\ \A p \in {"promote", "measure", "pop"} : Phase(p) = "stored"
  BY DEF Phase

\* A step to another line of the code, as the phase of its call.
LEMMA PhaseStep ==
    ASSUME TypeOK, NEW t \in Threads, NEW label, pc' = [pc EXCEPT ![t] = label]
    PROVE  [u \in Threads |-> Phase(pc[u])]' =
              [[u \in Threads |-> Phase(pc[u])] EXCEPT ![t] = Phase(label)]
  BY DEF TypeOK

\* How the steps that begin and end a call look from outside.
LEMMA ContractBegin ==
    ASSUME TypeOK, NEW t \in Threads, NEW label, NEW e, Start(t, label, e)
    PROVE  Contract!Begin(t, Phase(label), e)
  BY PhaseStep DEF Contract!Begin, Start

LEMMA ContractEnd ==
    ASSUME TypeOK, NEW t \in Threads, NEW how, Return(t, how)
    PROVE  Contract!End(t, how)
<1>1. pc' = [pc EXCEPT ![t] = "idle"]  BY DEF Return
<1>2. [u \in Threads |-> Phase(pc[u])]' =
         [[u \in Threads |-> Phase(pc[u])] EXCEPT ![t] = Phase("idle")]
  BY <1>1, PhaseStep
<1> QED  BY <1>2, Phases DEF Contract!End, Return

LEMMA SameHeld ==
    UNCHANGED store => [k \in Keys |-> Held(k)]' = [k \in Keys |-> Held(k)]
  BY DEF Held, Present

LEMMA ContractLetGo ==
    ASSUME TypeOK, NEW k \in DOMAIN store, Remove(k)
    PROVE  Contract!LetGo
<1>1. \A j \in Keys : Held(j)' = IF j \in Keys \ {k} THEN Held(j) ELSE Nothing
  BY DEF Held, Present, Remove
<1>2. Keys \ {k} \in SUBSET Keys  OBVIOUS
<1> QED  BY <1>1, <1>2 DEF Contract!LetGo

\* A step that the protocol does not see leaves these alone.
LEMMA ContractStutter ==
    ASSUME TypeOK, NEW t \in Threads, NEW label, Goto(t, label),
           Phase(label) = Phase(pc[t]), UNCHANGED <<store, now, key, entry>>
    PROVE  UNCHANGED Contract!vars
<1>1. [u \in Threads |-> Phase(pc[u])]' = [u \in Threads |-> Phase(pc[u])]
  BY PhaseStep DEF Goto
<1> QED  BY <1>1, SameHeld DEF Goto, Contract!vars

LEMMA ContractInit == Init => Contract!Init
  BY Phases DEF Init, Contract!Init, Held, Present

LEMMA ContractStep ==
    ASSUME TypeOK, [Next]_vars
    PROVE  [Contract!Next]_Contract!vars
<1>1. CASE UNCHANGED vars
  BY <1>1 DEF vars, Contract!vars, Held, Present
<1>2. CASE Tick
  <2>1. Contract!Tick
    BY <1>2, SameHeld DEF Tick, Contract!Tick
  <2> QED  BY <2>1 DEF Contract!Next
\* A get finds the entry of its own key.
<1>3. ASSUME NEW t \in Threads, NEW k \in Keys, Lookup(t, k) PROVE Contract!Next
  <2>1. Contract!Ask(t, k)
    BY <1>3, Phases DEF Lookup, Contract!Ask
  <2>2. CASE Present(k) /\ Start(t, "check", store[k])
    <3>1. [j \in Keys |-> Held(j)][k] = store[k] /\ store[k] \in Entries
      BY <2>2 DEF Held, Present, TypeOK
    <3>2. store[k] # Nothing
      BY <3>1, NothingAssumption, BoundsAssumption DEF Entries
    <3>3. Contract!Begin(t, "looking", [j \in Keys |-> Held(j)][k])
      BY <2>2, <3>1, ContractBegin, Phases
    <3>4. Contract!Look(t, k)
      BY <1>3, <2>1, <3>1, <3>2, <3>3, SameHeld DEF Lookup, Contract!Look
    <3> QED  BY <3>4 DEF Contract!Next
  <2>3. CASE ~Present(k) /\ Return(t, "miss")
    <3>1. Contract!Look(t, k)
      BY <1>3, <2>1, <2>3, ContractEnd, SameHeld DEF Lookup, Contract!Look
    <3> QED  BY <3>1 DEF Contract!Next
  <2> QED  BY <1>3, <2>2, <2>3 DEF Lookup
<1>4. ASSUME NEW t \in Threads, Check(t) PROVE [Contract!Next]_Contract!vars
  <2>1. CASE Expired(entry[t])
    BY <1>4, <2>1, Phases, ContractStutter DEF Check
  <2>2. CASE ~Expired(entry[t])
    <3>1. Goto(t, "touch") /\ Phase(pc[t]) = "looking"
      BY <1>4, <2>2, Phases DEF Check
    <3>2. now < entry[t].expires
      BY <1>4, <2>2, BoundsAssumption DEF Check, Expired, TypeOK, Entries
    <3>3. [u \in Threads |-> Phase(pc[u])]' =
             [[u \in Threads |-> Phase(pc[u])] EXCEPT ![t] = Phase("touch")]
      BY <3>1, PhaseStep DEF Goto
    <3>4. Contract!Approve(t)
      BY <1>4, <3>1, <3>2, <3>3, Phases, SameHeld DEF Check, Goto, Contract!Approve
    <3> QED  BY <3>4 DEF Contract!Next
  <2> QED  BY <2>1, <2>2
\* A KeyError ends a call that had begun.
<1>5. ASSUME NEW t \in Threads, pc[t] \in {"drop", "touch", "promote", "pop"},
             Return(t, "raised"), UNCHANGED <<store, now, key>>
      PROVE  Contract!Next
  <2>1. Phase(pc[t]) # "idle"  BY <1>5, Phases
  <2>2. Contract!Fail(t)
    BY <1>5, <2>1, ContractEnd, SameHeld DEF Contract!Fail
  <2> QED  BY <2>2 DEF Contract!Next
<1>6. ASSUME NEW t \in Threads, Drop(t) PROVE Contract!Next
  <2>1. CASE Present(key[t]) /\ Remove(key[t]) /\ Return(t, "miss")
    <3>1. Phase(pc[t]) = "looking"  BY <1>6, Phases DEF Drop
    <3>2. Contract!Miss(t)
      BY <1>6, <2>1, <3>1, ContractEnd, ContractLetGo DEF Drop, Present, Contract!Miss
    <3> QED  BY <3>2 DEF Contract!Next
  <2>2. CASE Return(t, "raised") /\ UNCHANGED <<store, order>>
    BY <1>5, <1>6, <2>2 DEF Drop
  <2> QED  BY <1>6, <2>1, <2>2 DEF Drop
\* A hit is the value of the entry that was judged live.
<1>7. ASSUME NEW t \in Threads, Touch(t) PROVE Contract!Next
  <2>1. CASE MoveToEnd(key[t]) /\ Return(t, entry[t].value)
    <3>1. Phase(pc[t]) = "serving"  BY <1>7, Phases DEF Touch
    <3>2. Contract!Serve(t)
      BY <1>7, <2>1, <3>1, ContractEnd, SameHeld DEF Touch, MoveToEnd, Contract!Serve
    <3> QED  BY <3>2 DEF Contract!Next
  <2>2. CASE Return(t, "raised") /\ UNCHANGED <<store, order>>
    BY <1>5, <1>7, <2>2 DEF Touch
  <2> QED  BY <1>7, <2>1, <2>2 DEF Touch
<1>8. ASSUME NEW t \in Threads, NEW k \in Keys, NEW v \in Values, Stamp(t, k, v)
      PROVE  Contract!Next
  <2>1. Contract!Ask(t, k)
    BY <1>8, Phases DEF Stamp, Contract!Ask
  <2>2. Contract!Begin(t, "storing", [expires |-> now + TTL, value |-> v]) /\ TTL \in 0 .. TTL
    BY <1>8, ContractBegin, Phases, BoundsAssumption DEF Stamp
  <2>3. Contract!Bring(t, k, v)
    BY <1>8, <2>1, <2>2, SameHeld DEF Stamp, Contract!Bring
  <2> QED  BY <2>3 DEF Contract!Next
\* A set stores the entry it brought, under its own key.
<1>9. ASSUME NEW t \in Threads, Write(t) PROVE Contract!Next
  <2>1. key[t] \in Keys /\ Phase(pc[t]) = "storing"
    BY <1>9, Phases DEF Write, TypeOK
  <2>2. \A j \in Keys : Held(j)' = IF j = key[t] THEN entry[t] ELSE Held(j)
    BY <1>9 DEF Write, Assign, Held, Present
  <2>3. [u \in Threads |-> Phase(pc[u])]' =
           [[u \in Threads |-> Phase(pc[u])] EXCEPT ![t] = Phase("promote")]
    BY <1>9, PhaseStep DEF Write, Goto
  <2>4. [j \in Keys |-> Held(j)]' = [[j \in Keys |-> Held(j)] EXCEPT ![key[t]] = entry[t]]
    BY <2>1, <2>2
  <2>5. Contract!Put(t)
    BY <1>9, <2>1, <2>3, <2>4, Phases DEF Write, Goto, Contract!Put
  <2> QED  BY <2>5 DEF Contract!Next
<1>10. ASSUME NEW t \in Threads, Promote(t) PROVE [Contract!Next]_Contract!vars
  <2>1. CASE MoveToEnd(key[t]) /\ Goto(t, "measure") /\ UNCHANGED entry
    BY <1>10, <2>1, Phases, ContractStutter DEF Promote, MoveToEnd
  <2>2. CASE Return(t, "raised") /\ UNCHANGED <<store, order>>
    BY <1>5, <1>10, <2>2 DEF Promote
  <2> QED  BY <1>10, <2>1, <2>2 DEF Promote
<1>11. ASSUME NEW t \in Threads, Measure(t) PROVE [Contract!Next]_Contract!vars
  <2>1. CASE Goto(t, "pop") /\ UNCHANGED entry
    BY <1>11, <2>1, Phases, ContractStutter DEF Measure
  <2>2. CASE Return(t, "stored")
    <3>1. Phase(pc[t]) = "stored"  BY <1>11, Phases DEF Measure
    <3>2. Contract!Ack(t)
      BY <1>11, <2>2, <3>1, ContractEnd, SameHeld DEF Measure, Contract!Ack
    <3> QED  BY <3>2 DEF Contract!Next
  <2> QED  BY <1>11, <2>1, <2>2 DEF Measure
<1>12. ASSUME NEW t \in Threads, Pop(t) PROVE Contract!Next
  <2>1. ASSUME NEW k \in DOMAIN store, Remove(k), Goto(t, "measure"), UNCHANGED entry
        PROVE  Contract!Next
    <3>1. Phase("measure") = Phase(pc[t])  BY <1>12, Phases DEF Pop
    <3>2. [u \in Threads |-> Phase(pc[u])]' = [u \in Threads |-> Phase(pc[u])]
      BY <2>1, <3>1, PhaseStep DEF Goto
    <3>3. Contract!Trim
      BY <1>12, <2>1, <3>2, ContractLetGo DEF Pop, Goto, Contract!Trim
    <3> QED  BY <3>3 DEF Contract!Next
  <2>2. CASE Return(t, "raised") /\ UNCHANGED <<store, order>>
    BY <1>5, <1>12, <2>2 DEF Pop
  <2> QED  BY <1>12, <2>1, <2>2 DEF Pop
<1> QED
  BY <1>1, <1>2, <1>3, <1>4, <1>6, <1>7, <1>8, <1>9, <1>10, <1>11, <1>12
     DEF Next, Get, Set

\* Whatever the threads do to each other, a hit is a value that a set of the asked
\* key stored under it, and that was live when the clock was read (cache.py:26-38,
\* 75-94).
THEOREM ContractKept == Spec => KeepsContract
<1>1. TypeOK /\ [Next]_vars => [Contract!Next]_Contract!vars
  BY ContractStep
<1> QED  BY TypeCorrect, ContractInit, <1>1, PTL DEF Spec, KeepsContract, Contract!Spec

-----------------------------------------------------------------------------
(* What a call may rely on that is alone, after any collisions.            *)

LEMMA HistoryIsSpec == MCSpec => []TypeOK
<1>1. MCInit => Init  BY DEF MCInit
<1>2. [MCNext]_mcvars => [Next]_vars
  BY DEF MCNext, mcvars, Next
<1>3. MCSpec => Spec
  BY <1>1, <1>2, PTL DEF MCSpec, Spec
<1> QED  BY <1>3, TypeCorrect, PTL

\* A call that is alone finds the store as it left it: nobody else has moved.
Undisturbed(t) ==
    /\ pc[t] # "idle" => \A u \in Threads \ {t} : pc[u] = "idle"
    /\ pc[t] \in {"check", "drop", "touch"} => Present(key[t]) /\ store[key[t]] = entry[t]
    /\ pc[t] = "drop" => Expired(entry[t])
    /\ pc[t] = "promote" => Present(key[t])
    /\ pc[t] = "pop" => Over
    /\ reply[t] # "raised"

Solo ==
    /\ DOMAIN alone = Threads
    /\ \A t \in Threads : alone[t] => Undisturbed(t)

LEMMA SoloInit == MCInit => Solo
  BY DEF MCInit, Init, Solo, Undisturbed

\* Another thread's step ends the solitude of a call under way, and is nothing to
\* a thread that has none.
LEMMA OthersAlone ==
    ASSUME TypeOK, Solo, NEW t \in Threads, Get(t) \/ Set(t), OverlapStep(t),
           NEW u \in Threads \ {t}, alone'[u]
    PROVE  Undisturbed(u)'
<1>1. alone[u] /\ pc[u] = "idle"  BY DEF OverlapStep
<1>2. pc'[u] = pc[u] /\ reply'[u] = reply[u]
  BY DEF Get, Set, Lookup, Check, Drop, Touch, Start, Stamp, Write, Promote, Measure, Pop,
         Goto, Return, TypeOK
<1> QED  BY <1>1, <1>2 DEF Solo, Undisturbed

LEMMA OwnStep ==
    ASSUME TypeOK, Solo, NEW t \in Threads, Get(t) \/ Set(t), OverlapStep(t), alone'[t]
    PROVE  Undisturbed(t)'
<1>1. \A u \in Threads \ {t} : pc[u] = "idle" /\ pc'[u] = "idle"
  <2>1. \A u \in Threads \ {t} : pc[u] = "idle"
    BY DEF OverlapStep, Solo, Undisturbed
  <2>2. \A u \in Threads \ {t} : pc'[u] = pc[u]
    BY DEF Get, Set, Lookup, Check, Drop, Touch, Start, Stamp, Write, Promote, Measure, Pop,
           Goto, Return, TypeOK
  <2> QED  BY <2>1, <2>2
<1>2. pc[t] # "idle" => Undisturbed(t)
  BY DEF OverlapStep, Solo
<1> USE <1>1 DEF Undisturbed
<1>3. ASSUME NEW k \in Keys, Lookup(t, k) PROVE Undisturbed(t)'
  BY <1>3 DEF Lookup, Start, Return, Present, TypeOK
<1>4. CASE Check(t)
  BY <1>2, <1>4 DEF Check, Goto, Present, Expired, TypeOK
<1>5. CASE Drop(t)
  BY <1>2, <1>5 DEF Drop, Return, TypeOK
<1>6. CASE Touch(t)
  <2>1. entry[t].value # "raised"
    BY <1>6, ValuesAssumption DEF Touch, TypeOK, Entries
  <2> QED  BY <1>2, <1>6, <2>1 DEF Touch, Return, TypeOK
<1>7. ASSUME NEW k \in Keys, NEW v \in Values, Stamp(t, k, v) PROVE Undisturbed(t)'
  BY <1>7 DEF Stamp, Start, TypeOK
<1>8. CASE Write(t)
  BY <1>2, <1>8 DEF Write, Assign, Goto, Present, TypeOK
<1>9. CASE Promote(t)
  BY <1>2, <1>9 DEF Promote, Goto, Return, TypeOK
<1>10. CASE Measure(t)
  BY <1>2, <1>10 DEF Measure, Goto, Return, Over, TypeOK
<1>11. CASE Pop(t)
  <2>1. DOMAIN store # {}
    BY <1>2, <1>11, FS_EmptySet, BoundsAssumption DEF Pop, Over
  <2> QED  BY <1>2, <1>11, <2>1 DEF Pop, Goto, TypeOK
<1> QED
  BY <1>3, <1>4, <1>5, <1>6, <1>7, <1>8, <1>9, <1>10, <1>11 DEF Get, Set

LEMMA SoloStep == TypeOK /\ Solo /\ [MCNext]_mcvars => Solo'
<1> SUFFICES ASSUME TypeOK, Solo, [MCNext]_mcvars PROVE Solo'
  OBVIOUS
<1>1. CASE UNCHANGED mcvars
  BY <1>1 DEF mcvars, vars, Solo, Undisturbed, Present, Over, Expired
<1>2. CASE Tick /\ UNCHANGED <<since, alone>>
  <2>1. \A t \in Threads : pc[t] = "drop" => entry[t].expires \in Nat
    BY BoundsAssumption DEF TypeOK, Entries
  <2> QED
    BY <1>2, <2>1 DEF Tick, Solo, Undisturbed, Present, Over, Expired, TypeOK
<1>3. ASSUME NEW t \in Threads, Get(t) \/ Set(t), OverlapStep(t) PROVE Solo'
  <2>1. DOMAIN alone' = Threads  BY <1>3 DEF OverlapStep
  <2>2. \A u \in Threads : alone'[u] => Undisturbed(u)'
    BY <1>3, OthersAlone, OwnStep
  <2> QED  BY <2>1, <2>2 DEF Solo
<1> QED  BY <1>1, <1>2, <1>3 DEF MCNext

\* However others have collided before, a call that none overlaps does not end in
\* a KeyError (cache.py:75-94).
THEOREM AloneNeverRaises == MCSpec => []KeyErrorTakesTwo
<1>1. Solo => KeyErrorTakesTwo  BY DEF Solo, Undisturbed, KeyErrorTakesTwo
<1> QED  BY <1>1, HistoryIsSpec, SoloInit, SoloStep, PTL DEF MCSpec

\* Such a call removes an entry only when it is past its TTL, or while the store is
\* over its cap (cache.py:54, 58).
THEOREM AloneRemovesWithCause == MCSpec => RemovesWithCause
<1>1. TypeOK /\ Solo /\ [MCNext]_mcvars
         => [\A t \in Threads :
               alone[t] /\ Gone # {} =>
                  /\ pc[t] = "drop" /\ pc'[t] # "drop" => \A k \in Gone : now >= store[k].expires
                  /\ pc[t] = "pop" /\ pc'[t] # "pop" => Cardinality(DOMAIN store) > MaxEntries]_mcvars
  <2> SUFFICES ASSUME TypeOK, Solo, [MCNext]_mcvars, NEW t \in Threads, alone[t]
               PROVE  /\ pc[t] = "drop" /\ pc'[t] # "drop" => \A k \in Gone : now >= store[k].expires
                      /\ pc[t] = "pop" /\ pc'[t] # "pop" => Cardinality(DOMAIN store) > MaxEntries
    OBVIOUS
  <2>1. pc[t] = "pop" => Cardinality(DOMAIN store) > MaxEntries
    BY DEF Solo, Undisturbed, Over
  <2>2. ASSUME pc[t] = "drop", pc'[t] # "drop"
        PROVE  Drop(t)
    BY <2>2 DEF MCNext, mcvars, vars, Tick, Get, Set, Lookup, Check, Drop, Touch, Start, Stamp, Write,
                Promote, Measure, Pop, Goto, Return, TypeOK
  <2>3. ASSUME pc[t] = "drop", pc'[t] # "drop", NEW k \in Gone
        PROVE  now >= store[k].expires
    <3>1. k = key[t]  BY <2>2, <2>3 DEF Drop, Remove, Gone
    <3> QED  BY <2>3, <3>1 DEF Solo, Undisturbed, Expired
  <2> QED  BY <2>1, <2>3
<1> QED  BY <1>1, HistoryIsSpec, SoloInit, SoloStep, PTL DEF MCSpec, RemovesWithCause

-----------------------------------------------------------------------------
(* The order of use.                                                       *)

Has(s, a) == \E i \in DOMAIN s : s[i] = a
Before(s, a, b) == \E i, j \in DOMAIN s : i < j /\ s[i] = a /\ s[j] = b

LEMMA WithoutOrder ==
    ASSUME NEW s \in Seq(Keys), NEW k, Has(s, k), \A a : ~Before(s, a, a)
    PROVE  /\ \A a : Has(Without(s, k), a) <=> Has(s, a) /\ a # k
           /\ \A a, b : Before(Without(s, k), a, b) => Before(s, a, b)
<1> DEFINE at == CHOOSE i \in DOMAIN s : s[i] = k
           l == SubSeq(s, 1, at - 1)
           r == SubSeq(s, at + 1, Len(s))
           w == Without(s, k)
<1>1. at \in 1 .. Len(s) /\ s[at] = k /\ Len(s) \in Nat /\ DOMAIN s = 1 .. Len(s)
  BY LenProperties DEF Has
<1>2. w = l \o r  BY DEF Without, Has
<1> HIDE DEF at
<1>3. /\ l \in Seq(Keys) /\ Len(l) = at - 1 /\ \A i \in 1 .. at - 1 : l[i] = s[i]
  <2>1. \A i \in 1 .. at - 1 : s[i] \in Keys  BY <1>1, ElementOfSeq
  <2> QED  BY <1>1, <2>1, SubSeqProperties
<1>4. /\ r \in Seq(Keys) /\ Len(r) = Len(s) - at
      /\ \A i \in 1 .. Len(s) - at : r[i] = s[at + i]
  <2>1. \A i \in at + 1 .. Len(s) : s[i] \in Keys  BY <1>1, ElementOfSeq
  <2>2. /\ SubSeq(s, at + 1, Len(s)) \in Seq(Keys)
        /\ Len(SubSeq(s, at + 1, Len(s)))
             = IF at + 1 <= Len(s) THEN Len(s) - (at + 1) + 1 ELSE 0
        /\ \A i \in 1 .. Len(s) - (at + 1) + 1 :
              SubSeq(s, at + 1, Len(s))[i] = s[at + 1 + i - 1]
    <3>1. at + 1 \in Int /\ Len(s) \in Int  BY <1>1
    <3> QED  BY <2>1, <3>1, SubSeqProperties
  <2>3. /\ Len(s) - (at + 1) + 1 = Len(s) - at
        /\ \A i \in 1 .. Len(s) - at : at + 1 + i - 1 = at + i
        /\ ~(at + 1 <= Len(s)) => Len(s) - at = 0
    <3>1. /\ at \in Int /\ Len(s) \in Int /\ at <= Len(s)  BY <1>1
    <3> HIDE DEF at
    <3>2. \A m, n \in Int : m <= n =>
             /\ n - (m + 1) + 1 = n - m
             /\ \A i \in 1 .. n - m : m + 1 + i - 1 = m + i
             /\ ~(m + 1 <= n) => n - m = 0
      OBVIOUS
    <3> QED  BY <3>1, <3>2
  <2> QED  BY <2>2, <2>3
<1> HIDE DEF l, r, w
<1>5. /\ DOMAIN w = 1 .. Len(s) - 1
      /\ \A i \in 1 .. Len(s) - 1 : w[i] = IF i < at THEN s[i] ELSE s[i + 1]
  <2>1. /\ w \in Seq(Keys) /\ Len(w) = Len(s) - 1
        /\ \A i \in 1 .. Len(s) - 1 : w[i] = IF i <= at - 1 THEN l[i] ELSE r[i - (at - 1)]
    <3>1. /\ w \in Seq(Keys) /\ Len(w) = Len(l) + Len(r)
          /\ \A i \in 1 .. Len(l) + Len(r) : w[i] = IF i <= Len(l) THEN l[i] ELSE r[i - Len(l)]
      BY <1>2, <1>3, <1>4, ConcatProperties
    <3>2. Len(l) + Len(r) = Len(s) - 1  BY <1>1, <1>3, <1>4
    <3> QED  BY <1>3, <3>1, <3>2
  <2>2. DOMAIN w = 1 .. Len(s) - 1  BY <2>1, LenProperties
  <2>3. ASSUME NEW i \in 1 .. Len(s) - 1
        PROVE  w[i] = IF i < at THEN s[i] ELSE s[i + 1]
    <3>1. CASE i < at
      <4>1. i \in 1 .. at - 1  BY <1>1, <3>1
      <4> QED  BY <1>1, <1>3, <2>1, <3>1, <4>1
    <3>2. CASE ~(i < at)
      <4>1. /\ i - (at - 1) \in 1 .. Len(s) - at /\ at + (i - (at - 1)) = i + 1
            /\ ~(i <= at - 1)
        BY <1>1, <3>2
      <4>2. r[i - (at - 1)] = s[i + 1]  BY <1>4, <4>1
      <4> QED  BY <2>1, <3>2, <4>1, <4>2
    <3> QED  BY <3>1, <3>2
  <2> QED  BY <2>2, <2>3
<1>6. ASSUME NEW i \in DOMAIN s, s[i] = k PROVE i = at
  <2>1. ~(i < at) /\ ~(at < i)  BY <1>1, <1>6 DEF Before
  <2> QED  BY <1>1, <2>1
<1>7. ASSUME NEW a PROVE Has(w, a) <=> Has(s, a) /\ a # k
  <2>1. ASSUME Has(w, a) PROVE Has(s, a) /\ a # k
    BY <1>1, <1>5, <1>6, <2>1 DEF Has
  <2>2. ASSUME NEW i \in DOMAIN s, s[i] = a, a # k PROVE Has(w, a)
    <3>1. i # at  BY <1>1, <2>2
    <3>2. CASE i < at
      <4>1. i \in DOMAIN w /\ w[i] = a  BY <1>1, <1>5, <2>2, <3>2
      <4> QED  BY <4>1 DEF Has
    <3>3. CASE i > at
      <4>1. i - 1 \in DOMAIN w /\ w[i - 1] = a  BY <1>1, <1>5, <2>2, <3>3
      <4> QED  BY <4>1 DEF Has
    <3> QED  BY <1>1, <3>1, <3>2, <3>3
  <2> QED  BY <2>1, <2>2 DEF Has
<1>8. ASSUME NEW a, NEW b, Before(w, a, b) PROVE Before(s, a, b)
  <2>1. PICK i \in DOMAIN w, j \in DOMAIN w : i < j /\ w[i] = a /\ w[j] = b
    BY <1>8 DEF Before
  <2> DEFINE to(n) == IF n < at THEN n ELSE n + 1
  <2>2. /\ to(i) \in DOMAIN s /\ to(j) \in DOMAIN s /\ to(i) < to(j)
        /\ s[to(i)] = a /\ s[to(j)] = b
    BY <1>1, <1>5, <2>1
  <2> HIDE DEF to
  <2> QED  BY <2>2 DEF Before
<1> QED  BY <1>7, <1>8 DEF w

LEMMA AppendOrder ==
    ASSUME NEW s \in Seq(Keys), NEW k \in Keys
    PROVE  /\ \A a : Has(Append(s, k), a) <=> Has(s, a) \/ a = k
           /\ \A a, b : Before(Append(s, k), a, b) => Before(s, a, b) \/ (Has(s, a) /\ b = k)
<1> DEFINE w == Append(s, k)
<1>1. /\ Len(s) \in Nat /\ DOMAIN s = 1 .. Len(s) /\ DOMAIN w = 1 .. Len(s) + 1
      /\ \A i \in 1 .. Len(s) : w[i] = s[i]
      /\ w[Len(s) + 1] = k
  BY LenProperties, AppendProperties
<1> HIDE DEF w
<1>2. \A i \in DOMAIN w : i \in DOMAIN s \/ i = Len(s) + 1
  BY <1>1
<1>3. ASSUME NEW a PROVE Has(w, a) <=> Has(s, a) \/ a = k
  <2>1. Has(w, a) => Has(s, a) \/ a = k  BY <1>1, <1>2 DEF Has
  <2>2. Has(s, a) => Has(w, a)  BY <1>1 DEF Has
  <2>3. Has(w, k)
    <3>1. Len(s) + 1 \in DOMAIN w  BY <1>1
    <3> QED  BY <1>1, <3>1 DEF Has
  <2> QED  BY <2>1, <2>2, <2>3
<1>4. ASSUME NEW a, NEW b, Before(w, a, b) PROVE Before(s, a, b) \/ (Has(s, a) /\ b = k)
  <2>1. PICK i \in DOMAIN w, j \in DOMAIN w : i < j /\ w[i] = a /\ w[j] = b
    BY <1>4 DEF Before
  <2>2. i \in DOMAIN s  BY <1>1, <2>1
  <2> QED  BY <1>1, <1>2, <2>1, <2>2 DEF Has, Before
<1> QED  BY <1>3, <1>4 DEF w

\* The order has the keys of the store, each once, and what comes after a key in
\* it was used since, or is about to be promoted.
Awaited(a) == \E t \in Threads : pc[t] = "promote" /\ key[t] = a

InUseOrder ==
    /\ \A a : ~Before(order, a, a)
    /\ \A a : Present(a) <=> Has(order, a)
    /\ since \in [Keys -> SUBSET Keys]
    /\ \A a, b \in Keys : Before(order, a, b) => b \in since[a] \/ Awaited(b)

LEMMA InKeys == TypeOK => \A a, b : Before(order, a, b) => a \in Keys /\ b \in Keys /\ Has(order, a) /\ Has(order, b)
<1> SUFFICES ASSUME TypeOK, NEW a, NEW b, Before(order, a, b)
             PROVE  a \in Keys /\ b \in Keys /\ Has(order, a) /\ Has(order, b)
  OBVIOUS
<1>1. order \in Seq(Keys) /\ DOMAIN order = 1 .. Len(order)
  BY LenProperties DEF TypeOK
<1> QED  BY <1>1, ElementOfSeq DEF Before, Has

\* A step that only takes a key out, or leaves the store alone.
LEMMA RemovingKeepsOrder ==
    ASSUME TypeOK, InUseOrder, NEW k,
           \/ Present(k) /\ Remove(k)
           \/ UNCHANGED <<store, order>>,
           since' = since,
           \A a : Has(order', a) /\ Awaited(a) => Awaited(a)'
    PROVE  InUseOrder'
<1>1. CASE UNCHANGED <<store, order>>
  <2>1. \A a, b \in Keys : Before(order', a, b) => b \in since'[a] \/ Awaited(b)'
    BY <1>1, InKeys DEF InUseOrder
  <2> QED  BY <1>1, <2>1 DEF InUseOrder, Present
<1>2. CASE Present(k) /\ Remove(k)
  <2>1. /\ order' = Without(order, k) /\ order \in Seq(Keys)
        /\ \A a : Present(a)' <=> Present(a) /\ a # k
    BY <1>2 DEF Remove, Present, TypeOK
  <2>2. /\ \A a : Has(order', a) <=> Has(order, a) /\ a # k
        /\ \A a, b : Before(order', a, b) => Before(order, a, b)
    BY <1>2, <2>1, WithoutOrder DEF InUseOrder
  <2>3. \A a, b : Before(order', a, b) => Has(order', b)
    BY DEF Before, Has
  <2>4. \A a, b \in Keys : Before(order', a, b) => b \in since'[a] \/ Awaited(b)'
    BY <2>2, <2>3 DEF InUseOrder
  <2> QED  BY <2>1, <2>2, <2>4 DEF InUseOrder
<1> QED  BY <1>1, <1>2

\* A use of a key puts it at the end, and notes it for every other.
LEMMA UsingKeepsOrder ==
    ASSUME TypeOK, InUseOrder, NEW k \in Keys, Present(k), MoveToEnd(k),
           since' = [a \in Keys |-> IF a = k THEN {} ELSE since[a] \cup {k}],
           \A a : a # k /\ Awaited(a) => Awaited(a)'
    PROVE  InUseOrder'
<1> DEFINE w == Without(order, k)
<1>1. /\ order \in Seq(Keys) /\ w \in Seq(Keys)
      /\ order' = Append(w, k) /\ UNCHANGED store
  BY WithoutType DEF MoveToEnd, TypeOK
<1>2. /\ \A a : Has(w, a) <=> Has(order, a) /\ a # k
      /\ \A a, b : Before(w, a, b) => Before(order, a, b)
  BY <1>1, WithoutOrder DEF InUseOrder
<1>3. \A a, b : Before(w, a, b) => Has(w, a) /\ Has(w, b)
  BY DEF Before, Has
<1> HIDE DEF w
<1>4. /\ \A a : Has(order', a) <=> Has(w, a) \/ a = k
      /\ \A a, b : Before(order', a, b) => Before(w, a, b) \/ (Has(w, a) /\ b = k)
  BY <1>1, AppendOrder
<1>5. \A a : ~Before(order', a, a)
  BY <1>2, <1>4 DEF InUseOrder
<1>6. \A a : Present(a)' <=> Has(order', a)
  BY <1>1, <1>2, <1>4 DEF InUseOrder, Present
<1>7. ASSUME NEW a \in Keys, NEW b \in Keys, Before(order', a, b)
      PROVE  b \in since'[a] \/ Awaited(b)'
  <2>1. CASE Before(w, a, b)
    <3>1. a # k /\ b # k /\ Before(order, a, b)  BY <1>2, <1>3, <2>1
    <3> QED  BY <3>1 DEF InUseOrder
  <2>2. CASE Has(w, a) /\ b = k
    <3>1. a # k  BY <1>2, <2>2
    <3> QED  BY <2>2, <3>1
  <2> QED  BY <1>4, <1>7, <2>1, <2>2
<1>8. since' \in [Keys -> SUBSET Keys]  BY DEF InUseOrder
<1> QED  BY <1>5, <1>6, <1>7, <1>8 DEF InUseOrder

LEMMA OrderInit == MCInit => InUseOrder
<1> SUFFICES ASSUME MCInit PROVE InUseOrder
  OBVIOUS
<1>1. order = <<>> /\ DOMAIN order = {} /\ DOMAIN store = {}
  BY DEF MCInit, Init
<1>2. since \in [Keys -> SUBSET Keys]  BY DEF MCInit
<1> QED  BY <1>1, <1>2 DEF InUseOrder, Before, Has, Present

LEMMA OrderStep == TypeOK /\ InUseOrder /\ [MCNext]_mcvars => InUseOrder'
<1> SUFFICES ASSUME TypeOK, InUseOrder, [MCNext]_mcvars PROVE InUseOrder'
  OBVIOUS
<1>1. CASE UNCHANGED <<store, order, pc, key, since>>
  BY <1>1 DEF InUseOrder, Present, Awaited
<1>2. CASE UNCHANGED mcvars \/ (Tick /\ UNCHANGED <<since, alone>>)
  BY <1>1, <1>2 DEF mcvars, vars, Tick
<1>3. ASSUME NEW t \in Threads, Get(t) \/ Set(t), UseStep(t) PROVE InUseOrder'
  <2>0. /\ Used(t) => since' = [a \in Keys |-> IF a = key[t] THEN {} ELSE since[a] \cup {key[t]}]
        /\ ~Used(t) => since' = since
    BY <1>3 DEF UseStep
  <2>1. ASSUME pc[t] # "promote", UNCHANGED <<store, order>>, since' = since,
               \A u \in Threads \ {t} : pc'[u] = pc[u] /\ key'[u] = key[u]
        PROVE  InUseOrder'
    <3>1. \A a : Awaited(a) => Awaited(a)'  BY <2>1 DEF Awaited
    <3> QED  BY <2>1, <3>1, RemovingKeepsOrder
  <2>2. ASSUME NEW k \in Keys, Lookup(t, k) PROVE InUseOrder'
    BY <2>0, <2>1, <2>2 DEF Lookup, Start, Return, Used, TypeOK
  <2>3. CASE Check(t)
    BY <2>0, <2>1, <2>3 DEF Check, Goto, Used, TypeOK
  <2>4. ASSUME NEW k \in Keys, NEW v \in Values, Stamp(t, k, v) PROVE InUseOrder'
    BY <2>0, <2>1, <2>4 DEF Stamp, Start, Used, TypeOK
  <2>5. CASE Measure(t)
    BY <2>0, <2>1, <2>5 DEF Measure, Goto, Return, Used, TypeOK
  <2>6. CASE Drop(t)
    <3>1. since' = since  BY <2>0, <2>6 DEF Drop, Used
    <3>2. \A a : Awaited(a) => Awaited(a)'
      BY <2>6 DEF Drop, Return, Awaited, TypeOK
    <3> QED  BY <2>6, <3>1, <3>2, RemovingKeepsOrder DEF Drop
  <2>7. CASE Pop(t)
    <3>1. since' = since  BY <2>0, <2>7 DEF Pop, Used
    <3>2. \A a : Awaited(a) => Awaited(a)'
      BY <2>7 DEF Pop, Goto, Return, Awaited, TypeOK
    <3>3. ASSUME NEW k \in DOMAIN store, Remove(k) PROVE InUseOrder'
      BY <3>1, <3>2, <3>3, RemovingKeepsOrder DEF Present
    <3>4. CASE UNCHANGED <<store, order>>
      BY <3>1, <3>2, <3>4, RemovingKeepsOrder
    <3> QED  BY <2>7, <3>3, <3>4 DEF Pop
  <2>8. CASE Touch(t) \/ Promote(t)
    <3>1. key[t] \in Keys /\ pc[t] \in {"touch", "promote"}
      BY <2>8 DEF Touch, Promote, TypeOK
    <3>2. \A a : a # key[t] /\ Awaited(a) => Awaited(a)'
      BY <2>8 DEF Touch, Promote, Goto, Return, Awaited, TypeOK
    <3>3. CASE Present(key[t])
      <4>1. MoveToEnd(key[t])  BY <2>8, <3>3 DEF Touch, Promote
      <4> QED  BY <2>0, <3>1, <3>2, <3>3, <4>1, UsingKeepsOrder DEF Used
    <3>4. CASE ~Present(key[t])
      <4>1. UNCHANGED <<store, order>>  BY <2>8, <3>4 DEF Touch, Promote
      <4>2. \A a : Has(order', a) => a # key[t]
        BY <3>4, <4>1 DEF InUseOrder
      <4>3. since' = since  BY <2>0, <3>4 DEF Used
      <4> QED  BY <3>2, <4>1, <4>2, <4>3, RemovingKeepsOrder
    <3> QED  BY <3>3, <3>4
  \* A new key comes after all others, and waits to be promoted.
  <2>9. CASE Write(t)
    <3>1. since' = since /\ key[t] \in Keys /\ order \in Seq(Keys)
      BY <2>0, <2>9 DEF Write, Used, TypeOK
    <3>2. \A a : a = key[t] \/ Awaited(a) => Awaited(a)'
      BY <2>9 DEF Write, Goto, Awaited, TypeOK
    <3>3. \A a : Present(a)' <=> Present(a) \/ a = key[t]
      BY <2>9 DEF Write, Assign, Present
    <3>4. CASE Present(key[t])
      <4>1. order' = order  BY <2>9, <3>4 DEF Write, Assign
      <4> QED  BY <3>1, <3>2, <3>3, <3>4, <4>1 DEF InUseOrder
    <3>5. CASE ~Present(key[t])
      <4>1. order' = Append(order, key[t])  BY <2>9, <3>5 DEF Write, Assign
      <4>2. /\ \A a : Has(order', a) <=> Has(order, a) \/ a = key[t]
            /\ \A a, b : Before(order', a, b)
                  => Before(order, a, b) \/ (Has(order, a) /\ b = key[t])
        BY <3>1, <4>1, AppendOrder
      <4>3. ~Has(order, key[t])  BY <3>5 DEF InUseOrder
      <4>4. \A a : ~Before(order', a, a)
        BY <4>2, <4>3 DEF InUseOrder
      <4>5. \A a : Present(a)' <=> Has(order', a)
        BY <3>3, <4>2 DEF InUseOrder
      <4>6. \A a, b \in Keys : Before(order', a, b) => b \in since'[a] \/ Awaited(b)'
        BY <3>1, <3>2, <4>2 DEF InUseOrder
      <4> QED  BY <3>1, <4>4, <4>5, <4>6 DEF InUseOrder
    <3> QED  BY <3>4, <3>5
  <2> QED
    BY <1>3, <2>2, <2>3, <2>4, <2>5, <2>6, <2>7, <2>8, <2>9 DEF Get, Set
<1> QED  BY <1>2, <1>3 DEF MCNext

\* Under any collisions, a set that is alone evicts only what has not been used
\* since as many other keys were as the cache holds (cache.py:58, 84).
THEOREM UsedSurvives == MCSpec => RecentlyUsedSurvives
<1>1. TypeOK /\ Solo /\ InUseOrder /\ [MCNext]_mcvars
         => [\A t \in Threads : pc[t] = "pop" /\ pc'[t] # "pop" /\ alone[t] =>
               \A k \in Gone : Cardinality(since[k]) >= MaxEntries]_mcvars
  <2> SUFFICES ASSUME TypeOK, Solo, InUseOrder, [MCNext]_mcvars, NEW t \in Threads,
                      pc[t] = "pop", pc'[t] # "pop", alone[t], NEW k \in Gone
               PROVE  Cardinality(since[k]) >= MaxEntries
    OBVIOUS
  <2>1. Pop(t)
    BY DEF MCNext, mcvars, vars, Tick, Get, Set, Lookup, Check, Drop, Touch, Start, Stamp, Write,
           Promote, Measure, Pop, Goto, Return, TypeOK
  <2>2. Over /\ \A u \in Threads : pc[u] # "promote"
    BY DEF Solo, Undisturbed
  <2>3. k \in DOMAIN store /\ LeastRecent(k)
    BY <2>1 DEF Pop, Remove, Gone
  <2>4. DOMAIN store \ {k} \subseteq since[k]
    <3> SUFFICES ASSUME NEW b \in DOMAIN store \ {k} PROVE b \in since[k]
      OBVIOUS
    <3>1. /\ DOMAIN order = 1 .. Len(order) /\ Len(order) \in Nat
          /\ order # <<>> /\ k = order[1]
      BY <2>3, LenProperties DEF LeastRecent, TypeOK
    <3>2. PICK j \in DOMAIN order : order[j] = b
      BY DEF InUseOrder, Present, Has
    <3>3. 1 \in DOMAIN order /\ 1 < j  BY <3>1, <3>2
    <3>4. Before(order, k, b)  BY <3>1, <3>2, <3>3 DEF Before
    <3>5. k \in Keys /\ b \in Keys  BY <2>3 DEF TypeOK
    <3> QED  BY <2>2, <3>4, <3>5 DEF InUseOrder, Awaited
  <2>5. /\ IsFiniteSet(DOMAIN store)
        /\ Cardinality(DOMAIN store \ {k}) = Cardinality(DOMAIN store) - 1
    BY <2>3, Finiteness, FS_RemoveElement
  <2>6. /\ IsFiniteSet(since[k])
        /\ Cardinality(DOMAIN store \ {k}) <= Cardinality(since[k])
    <3>1. since[k] \subseteq Keys  BY <2>3 DEF InUseOrder, TypeOK
    <3>2. IsFiniteSet(since[k])  BY <3>1, KeysAssumption, FS_Subset
    <3> QED  BY <2>4, <3>2, FS_Subset
  <2> QED
    BY <2>2, <2>5, <2>6, FS_CardinalityType, BoundsAssumption DEF Over
<1> QED
  BY <1>1, HistoryIsSpec, SoloInit, SoloStep, OrderInit, OrderStep, PTL
     DEF MCSpec, RecentlyUsedSurvives
=============================================================================

---------------------------- MODULE ClientProofs ----------------------------
(***************************************************************************)
(* Proofs about Client for any threads, accounts and pages: requests carry *)
(* their account's key, and what is cached and what is returned is whole.  *)
(***************************************************************************)
EXTENDS Client, FiniteSetTheorems, SequenceTheorems, TLAPS

Labels == {"idle", "client", "build", "send", "sleep", "decode", "keep"}

\* The retry budget has not been exceeded while requests may still be sent.
SentBound == \A t \in Threads : pc[t] # "decode" => sent[t] <= MaxRetries

Typed == TypeOK /\ SentBound

USE DEF Goto, Error, Answer, loop

LEMMA FinishTyped ==
    ASSUME Typed, NEW t \in Threads,
           NEW code \in Codes, NEW c \in Calls \cup {Nothing}, NEW body \in Bodies,
           Finish(t, [code |-> code, call |-> c, body |-> body]),
           UNCHANGED <<clients, built>>,
           cached' \in [Calls -> Bodies \cup {Nothing}]
    PROVE  Typed'
<1>1. <<>> \in Bodies  BY EmptySeq DEF Bodies
<1>2. Base \in Nat /\ MaxRetries \in Nat  BY BoundsAssumption
<1> QED  BY <1>1, <1>2 DEF Finish, Typed, TypeOK, SentBound

LEMMA TypedStep == Typed /\ [Next]_vars => Typed'
<1> SUFFICES ASSUME Typed, [Next]_vars PROVE Typed'
  OBVIOUS
<1>0. /\ <<>> \in Bodies
      /\ Base \in Nat /\ MaxBackoff \in Nat /\ MaxRetries \in Nat /\ Hints \subseteq Nat
  BY EmptySeq, BoundsAssumption DEF Bodies
<1>1. CASE UNCHANGED vars
  BY <1>1 DEF vars, Typed, TypeOK, SentBound
<1>2. ASSUME NEW c \in Calls, Forget(c) PROVE Typed'
  BY <1>2 DEF Forget, Typed, TypeOK, SentBound
<1>3. ASSUME NEW t \in Threads, NEW c \in Calls, Hit(t, c) PROVE Typed'
  BY <1>3 DEF Hit, Typed, TypeOK, SentBound, Codes
<1>4. ASSUME NEW t \in Threads, NEW c \in Calls, Miss(t, c) PROVE Typed'
  <2>1. c.path \in Paths  BY GraphAssumption DEF Calls
  <2> QED  BY <1>0, <1>4, <2>1 DEF Miss, Typed, TypeOK, SentBound, Codes
<1>5. ASSUME NEW t \in Threads, LookupRaises(t) PROVE Typed'
  BY <1>0, <1>5 DEF LookupRaises, Typed, TypeOK, SentBound, Codes
<1>6. ASSUME NEW t \in Threads, FindClient(t) PROVE Typed'
  <2>1. call[t].account \in Accounts  BY <1>6 DEF FindClient, Typed, TypeOK, Calls
  <2> QED  BY <1>6, <2>1 DEF FindClient, Typed, TypeOK, SentBound
<1>7. ASSUME NEW t \in Threads, BuildClient(t) PROVE Typed'
  <2>1. call[t].account \in Accounts  BY <1>7 DEF BuildClient, Typed, TypeOK, Calls
  <2>2. [key |-> call[t].account, number |-> built[call[t].account] + 1] \in HttpxClients
    BY <2>1 DEF Typed, TypeOK, HttpxClients
  <2> QED  BY <1>7, <2>1, <2>2 DEF BuildClient, Typed, TypeOK, SentBound
<1>8. ASSUME NEW t \in Threads, Answered(t) PROVE Typed'
  BY <1>0, <1>8 DEF Answered, Send, Typed, TypeOK, SentBound
<1>9. ASSUME NEW t \in Threads, Rejected(t) PROVE Typed'
  <2>1. PICK code \in Rejections : Finish(t, Error(code))  BY <1>9 DEF Rejected
  <2>2. code \in Codes  BY DEF Codes
  <2>3. cached' \in [Calls -> Bodies \cup {Nothing}]  BY <1>9 DEF Rejected, Typed, TypeOK
  <2> QED  BY <1>0, <1>9, <2>1, <2>2, <2>3, FinishTyped DEF Rejected
<1>10. ASSUME NEW t \in Threads, NEW fault \in Faults, Retry(t, fault) PROVE Typed'
  <2>1. pc[t] = "send" /\ sent[t] # MaxRetries /\ sent'  = [sent EXCEPT ![t] = @ + 1]
    BY <1>10 DEF Retry, Send, LastAttempt
  <2>2. sent[t] \in Nat /\ sent[t] <= MaxRetries
    BY <1>0, <2>1 DEF Typed, TypeOK, SentBound
  <2>3. sent[t] + 1 \in 0 .. MaxRetries + 1 /\ sent[t] + 1 <= MaxRetries
    BY <1>0, <2>1, <2>2
  <2>4. pause' \in [Threads -> [chosen : Nat, hint : Nat]]
    <3>1. delay[t] \in Nat /\ 0 \in Nat /\ pause \in [Threads -> [chosen : Nat, hint : Nat]]
      BY DEF Typed, TypeOK
    <3>2. CASE pause' = [pause EXCEPT ![t] = [chosen |-> delay[t], hint |-> 0]]
      BY <3>1, <3>2
    <3>3. ASSUME NEW h \in Hints, pause' = [pause EXCEPT ![t] = [chosen |-> Clamp(h), hint |-> h]]
          PROVE  pause' \in [Threads -> [chosen : Nat, hint : Nat]]
      <4>1. h \in Nat /\ Clamp(h) \in Nat  BY <1>0 DEF Clamp, Smaller
      <4> QED  BY <3>1, <3>3, <4>1
    <3> QED  BY <1>10, <3>2, <3>3 DEF Retry
  <2> QED  BY <1>10, <2>1, <2>3, <2>4 DEF Retry, Typed, TypeOK, SentBound
<1>11. ASSUME NEW t \in Threads, NEW fault \in Faults, Exhausted(t, fault) PROVE Typed'
  <2>1. fault \in Codes  BY DEF Codes
  <2>2. cached' \in [Calls -> Bodies \cup {Nothing}]  BY <1>11 DEF Exhausted, Typed, TypeOK
  <2> QED  BY <1>0, <1>11, <2>1, <2>2, FinishTyped DEF Exhausted
<1>12. ASSUME NEW t \in Threads, Wake(t) PROVE Typed'
  BY <1>0, <1>12 DEF Wake, Smaller, Typed, TypeOK, SentBound
<1>13. ASSUME NEW t \in Threads, Decode(t) PROVE Typed'
  <2> DEFINE page == [key |-> client[t].key, page |-> next[t]]
             ps == Append(pages[t], page)
  <2>1. page \in Pages /\ pages[t] \in Bodies /\ next[t] \in Paths
    BY <1>13 DEF Decode, Typed, TypeOK, HttpxClients, Pages
  <2>2. ps \in Bodies  BY <2>1, AppendProperties DEF Bodies
  <2>3. NextOf[next[t]] \in Paths \cup {End}  BY <2>1, GraphAssumption
  <2>4. next' \in [Threads -> Paths \cup {End}] /\ pc' \in [Threads -> Labels]
        /\ pc'[t] \in {"client", "keep"} /\ next'[t] \in Paths
        /\ \A u \in Threads \ {t} : pc'[u] = pc[u] /\ next'[u] = next[u]
    BY <1>13, <2>1, <2>3 DEF Decode, LastPage, Typed, TypeOK, Labels
  <2> HIDE DEF ps
  <2>5. pages' \in [Threads -> Bodies]  BY <1>13, <2>2 DEF Decode, Typed, TypeOK, ps
  <2> QED  BY <1>0, <1>13, <2>4, <2>5 DEF Decode, FreshLoop, Typed, TypeOK, SentBound, Labels
<1>14. ASSUME NEW t \in Threads, Garbled(t) PROVE Typed'
  <2>1. "UPSTREAM_ERROR" \in Codes  BY DEF Codes, Faults
  <2>2. cached' \in [Calls -> Bodies \cup {Nothing}]  BY <1>14 DEF Garbled, Typed, TypeOK
  <2> QED  BY <1>0, <1>14, <2>1, <2>2, FinishTyped DEF Garbled
<1>15. ASSUME NEW t \in Threads, Keep(t) PROVE Typed'
  <2>1. "OK" \in Codes /\ call[t] \in Calls \cup {Nothing} /\ pages[t] \in Bodies
    BY DEF Codes, Typed, TypeOK
  <2>2. cached' \in [Calls -> Bodies \cup {Nothing}]
    BY <1>15, <2>1 DEF Keep, Typed, TypeOK
  <2> QED  BY <1>15, <2>1, <2>2, FinishTyped DEF Keep
<1>16. ASSUME NEW t \in Threads, Pass(t) PROVE Typed'
  <2>1. "OK" \in Codes /\ call[t] \in Calls \cup {Nothing} /\ pages[t] \in Bodies
    BY DEF Codes, Typed, TypeOK
  <2>2. cached' \in [Calls -> Bodies \cup {Nothing}]  BY <1>16 DEF Pass, Typed, TypeOK
  <2> QED  BY <1>16, <2>1, <2>2, FinishTyped DEF Pass
<1>17. ASSUME NEW t \in Threads, KeepRaises(t) PROVE Typed'
  <2>1. "INTERNAL_ERROR" \in Codes  BY DEF Codes
  <2>2. cached' \in [Calls -> Bodies \cup {Nothing}]  BY <1>17 DEF KeepRaises, Typed, TypeOK
  <2> QED  BY <1>0, <1>17, <2>1, <2>2, FinishTyped DEF KeepRaises
<1> QED
  BY <1>1, <1>2, <1>3, <1>4, <1>5, <1>6, <1>7, <1>8, <1>9, <1>10, <1>11, <1>12,
     <1>13, <1>14, <1>15, <1>16, <1>17
  DEF Next, Begin, Request, Conclude

LEMMA InitTyped == Init => Typed
<1> SUFFICES ASSUME Init PROVE Typed
  OBVIOUS
<1>1. <<>> \in Bodies /\ Base \in Nat /\ MaxRetries \in Nat
  BY EmptySeq, BoundsAssumption DEF Bodies
<1> QED  BY <1>1 DEF Init, Typed, TypeOK, SentBound, Codes

\* The type invariant holds for any threads, accounts and page graph.
THEOREM ClientTyped == Spec => []TypeOK
<1>1. Typed => TypeOK  BY DEF Typed
<1> QED  BY <1>1, InitTyped, TypedStep, PTL DEF Spec

-----------------------------------------------------------------------------
(* Keys: a client that is pooled or held carries the key it is found under.*)

Sending == {"send", "sleep", "decode"}

PoolKeyed == \A a \in Accounts : clients[a] # Nothing => clients[a].key = a

Held == \A t \in Threads : IF pc[t] \in Sending THEN client[t].key = call[t].account
                                                ELSE client[t] = Nothing

Keyed == Typed /\ PoolKeyed /\ Held

LEMMA KeyedStep == Keyed /\ [Next]_vars => Keyed'
<1> SUFFICES ASSUME Keyed, [Next]_vars PROVE PoolKeyed' /\ Held'
  BY TypedStep DEF Keyed
<1>0. Typed /\ PoolKeyed /\ Held  BY DEF Keyed
<1>1. CASE UNCHANGED vars
  BY <1>0, <1>1 DEF vars, PoolKeyed, Held
<1>2. ASSUME NEW c \in Calls, Forget(c) PROVE PoolKeyed' /\ Held'
  BY <1>0, <1>2 DEF Forget, PoolKeyed, Held
<1>3. ASSUME NEW t \in Threads, Begin(t) PROVE PoolKeyed' /\ Held'
  BY <1>0, <1>3 DEF Begin, Hit, Miss, LookupRaises, PoolKeyed, Held, Typed, TypeOK, Sending
<1>4. ASSUME NEW t \in Threads, NEW how, Finish(t, how), UNCHANGED clients
      PROVE  PoolKeyed' /\ Held'
  BY <1>0, <1>4 DEF Finish, PoolKeyed, Held, Typed, TypeOK, Sending
<1>5. ASSUME NEW t \in Threads, FindClient(t) PROVE PoolKeyed' /\ Held'
  <2>1. call[t].account \in Accounts  BY <1>0, <1>5 DEF FindClient, Typed, TypeOK, Calls
  <2> QED  BY <1>0, <1>5, <2>1 DEF FindClient, PoolKeyed, Held, Typed, TypeOK, Sending
<1>6. ASSUME NEW t \in Threads, BuildClient(t) PROVE PoolKeyed' /\ Held'
  BY <1>0, <1>6 DEF BuildClient, PoolKeyed, Held, Typed, TypeOK, Sending
<1>7. ASSUME NEW t \in Threads, Answered(t) \/ Wake(t) \/ \E f \in Faults : Retry(t, f)
      PROVE  PoolKeyed' /\ Held'
  BY <1>0, <1>7 DEF Answered, Wake, Retry, Send, PoolKeyed, Held, Typed, TypeOK, Sending
<1>8. ASSUME NEW t \in Threads, Decode(t) PROVE PoolKeyed' /\ Held'
  BY <1>0, <1>8 DEF Decode, FreshLoop, PoolKeyed, Held, Typed, TypeOK, Sending
<1>9. ASSUME NEW t \in Threads,
             \/ Rejected(t) \/ \E f \in Faults : Exhausted(t, f)
             \/ Garbled(t) \/ Keep(t) \/ Pass(t) \/ KeepRaises(t)
      PROVE  PoolKeyed' /\ Held'
  <2>1. UNCHANGED clients /\ \E how : Finish(t, how)
    BY <1>9 DEF Rejected, Exhausted, Garbled, Keep, Pass, KeepRaises
  <2> QED  BY <1>4, <2>1
<1> QED
  BY <1>1, <1>2, <1>3, <1>5, <1>6, <1>7, <1>8, <1>9 DEF Next, Request, Conclude

\* No request ever goes out with the API key of another account.
THEOREM ClientOwnKey == Spec => []OwnKey
<1>1. Init => Keyed
  BY InitTyped DEF Init, Keyed, PoolKeyed, Held, Sending
<1>2. Keyed => OwnKey  BY DEF Keyed, Held, OwnKey
<1> QED  BY <1>1, <1>2, KeyedStep, PTL DEF Spec

-----------------------------------------------------------------------------
(* Pages: what a call has collected is the beginning of its collection.    *)

Fetching(c, ps, target) ==
    /\ Walk(c, ps)
    /\ Len(ps) < MaxPages
    /\ ps # <<>> => c.paged
    /\ target = IF ps = <<>> THEN c.path ELSE NextOf[ps[Len(ps)].page]

Walking ==
    \A t \in Threads :
        /\ pc[t] = "idle" => pages[t] = <<>>
        /\ pc[t] \in {"client", "build"} \cup Sending => Fetching(call[t], pages[t], next[t])
        /\ pc[t] = "keep" => Whole(call[t], pages[t])

Collected == Keyed /\ Walking /\ CachedIsWhole

\* One more page, fetched from the target with the key of the call.
LEMMA WalkOn ==
    ASSUME NEW c \in Calls, NEW ps \in Bodies, NEW target \in Paths,
           Fetching(c, ps, target)
    PROVE  LET qs == Append(ps, [key |-> c.account, page |-> target])
           IN  /\ qs \in Bodies
               /\ Walk(c, qs)
               /\ Len(qs) = Len(ps) + 1
               /\ Len(qs) \in 1 .. MaxPages
               /\ qs[Len(qs)].page = target
               /\ qs # <<>>
<1> DEFINE page == [key |-> c.account, page |-> target]
           qs == Append(ps, page)
<1>1. page \in Pages /\ ps \in Seq(Pages)  BY DEF Pages, Calls, Bodies
<1>2. Len(ps) \in Nat /\ Len(ps) < MaxPages /\ MaxPages \in Nat
  BY <1>1, LenProperties, BoundsAssumption DEF Fetching
<1>3. /\ qs \in Seq(Pages) /\ qs # <<>> /\ Len(qs) = Len(ps) + 1
      /\ \A i \in 1 .. Len(ps) : qs[i] = ps[i]
      /\ qs[Len(ps) + 1] = page
  BY <1>1, AppendProperties
<1> HIDE DEF qs
<1>4. Len(qs) \in 1 .. MaxPages  BY <1>2, <1>3
<1>5. qs[Len(qs)].page = target  BY <1>3
<1>6. \A i \in 1 .. Len(qs) : qs[i].key = c.account
  <2> SUFFICES ASSUME NEW i \in 1 .. Len(qs) PROVE qs[i].key = c.account
    OBVIOUS
  <2>1. CASE i = Len(ps) + 1  BY <1>3, <2>1
  <2>2. CASE i # Len(ps) + 1
    <3>1. i \in 1 .. Len(ps)  BY <1>2, <1>3, <2>2
    <3> QED  BY <1>3, <3>1 DEF Fetching, Walk
  <2> QED  BY <2>1, <2>2
<1>7. qs[1].page = c.path
  <2>1. CASE ps = <<>>  BY <1>3, <2>1, EmptySeq DEF Fetching
  <2>2. CASE ps # <<>>
    <3>1. Len(ps) > 0 /\ 1 \in 1 .. Len(ps)  BY <1>1, <1>2, <2>2, EmptySeq
    <3> QED  BY <1>3, <3>1 DEF Fetching, Walk
  <2> QED  BY <2>1, <2>2
<1>8. \A i \in 1 .. Len(qs) - 1 : qs[i + 1].page = NextOf[qs[i].page]
  <2> SUFFICES ASSUME NEW i \in 1 .. Len(qs) - 1 PROVE qs[i + 1].page = NextOf[qs[i].page]
    OBVIOUS
  <2>1. i \in 1 .. Len(ps)  BY <1>2, <1>3
  <2>2. CASE i = Len(ps)
    <3>1. ps # <<>>  BY <2>1, EmptySeq
    <3> QED  BY <1>3, <2>1, <2>2, <3>1 DEF Fetching
  <2>3. CASE i # Len(ps)
    <3>1. i + 1 \in 1 .. Len(ps) /\ i \in 1 .. Len(ps) - 1  BY <1>2, <2>1, <2>3
    <3> QED  BY <1>3, <2>1, <3>1 DEF Fetching, Walk
  <2> QED  BY <2>2, <2>3
<1>9. Walk(c, qs)  BY <1>6, <1>7, <1>8 DEF Walk
<1> QED  BY <1>3, <1>4, <1>5, <1>9 DEF qs, Bodies

LEMMA CollectedStep == Collected /\ [Next]_vars => Collected'
<1> SUFFICES ASSUME Collected, [Next]_vars PROVE Walking' /\ CachedIsWhole'
  BY KeyedStep DEF Collected
<1>0. Typed /\ Held /\ Walking /\ CachedIsWhole  BY DEF Collected, Keyed
<1>1. CASE UNCHANGED vars
  BY <1>0, <1>1 DEF vars, Walking, CachedIsWhole
<1>2. ASSUME NEW c \in Calls, Forget(c) PROVE Walking' /\ CachedIsWhole'
  BY <1>0, <1>2 DEF Forget, Walking, CachedIsWhole, Typed, TypeOK
<1>3. ASSUME NEW t \in Threads, LookupRaises(t) \/ \E c \in Calls : Hit(t, c)
      PROVE  Walking' /\ CachedIsWhole'
  BY <1>0, <1>3 DEF Hit, LookupRaises, Walking, CachedIsWhole
<1>4. ASSUME NEW t \in Threads, NEW c \in Calls, Miss(t, c) PROVE Walking' /\ CachedIsWhole'
  <2>1. pages[t] = <<>> /\ Len(pages[t]) = 0  BY <1>0, <1>4, EmptySeq DEF Miss, Walking
  <2>2. MaxPages > 0  BY BoundsAssumption
  <2>3. Fetching(c, pages[t], c.path)  BY <2>1, <2>2 DEF Fetching, Walk
  <2> QED  BY <1>0, <1>4, <2>3 DEF Miss, Walking, CachedIsWhole, Typed, TypeOK, Sending
<1>5. ASSUME NEW t \in Threads, NEW how, Finish(t, how), UNCHANGED cached
      PROVE  Walking' /\ CachedIsWhole'
  BY <1>0, <1>5 DEF Finish, Walking, CachedIsWhole, Typed, TypeOK, Sending
<1>6. ASSUME NEW t \in Threads,
             \/ FindClient(t) \/ BuildClient(t) \/ Answered(t) \/ Wake(t)
             \/ \E f \in Faults : Retry(t, f)
      PROVE  Walking' /\ CachedIsWhole'
  BY <1>0, <1>6 DEF FindClient, BuildClient, Answered, Wake, Retry, Send, Walking,
                    CachedIsWhole, Typed, TypeOK, Sending
<1>7. ASSUME NEW t \in Threads, Decode(t) PROVE Walking' /\ CachedIsWhole'
  <2> DEFINE c == call[t]
             ps == Append(pages[t], [key |-> c.account, page |-> next[t]])
  <2>1. /\ pc[t] = "decode" /\ c \in Calls /\ pages[t] \in Bodies /\ next[t] \in Paths
        /\ client[t].key = c.account
    BY <1>0, <1>7 DEF Decode, Typed, TypeOK, Held, Sending
  <2>2. Fetching(c, pages[t], next[t])  BY <1>0, <2>1 DEF Walking, Sending
  <2>3. /\ ps \in Bodies /\ Walk(c, ps) /\ Len(ps) = Len(pages[t]) + 1
        /\ Len(ps) \in 1 .. MaxPages /\ ps[Len(ps)].page = next[t] /\ ps # <<>>
    BY <2>1, <2>2, WalkOn
  <2>4. pages' = [pages EXCEPT ![t] = ps]  BY <1>7, <2>1 DEF Decode
  <2> HIDE DEF ps
  <2>5. /\ UNCHANGED <<cached, call>>
        /\ IF c.paged /\ ~LastPage(t, ps)
           THEN pc' = [pc EXCEPT ![t] = "client"] /\ next' = [next EXCEPT ![t] = NextOf[@]]
           ELSE pc' = [pc EXCEPT ![t] = "keep"] /\ UNCHANGED next
    BY <1>7, <2>1 DEF Decode, ps
  <2>6. CASE c.paged /\ ~LastPage(t, ps)
    <3>1. Len(ps) < MaxPages  BY <2>3, <2>6, BoundsAssumption DEF LastPage
    <3>2. Fetching(c, ps, NextOf[next[t]])  BY <2>3, <2>6, <3>1 DEF Fetching
    <3> QED  BY <1>0, <2>1, <2>4, <2>5, <2>6, <3>2
             DEF Walking, CachedIsWhole, Typed, TypeOK, Sending
  <2>7. CASE ~(c.paged /\ ~LastPage(t, ps))
    <3>1. ASSUME c.paged PROVE Whole(c, ps)
      BY <2>3, <2>7, <3>1 DEF Whole, LastPage
    <3>2. ASSUME ~c.paged PROVE Whole(c, ps)
      <4>1. Len(pages[t]) = 0  BY <2>2, <3>2, EmptySeq DEF Fetching
      <4> QED  BY <2>3, <3>2, <4>1 DEF Whole
    <3>3. Whole(c, ps)  BY <3>1, <3>2
    <3> QED  BY <1>0, <2>1, <2>4, <2>5, <2>7, <3>3
             DEF Walking, CachedIsWhole, Typed, TypeOK, Sending
  <2> QED  BY <2>6, <2>7
<1>8. ASSUME NEW t \in Threads, Keep(t) PROVE Walking' /\ CachedIsWhole'
  <2>1. Whole(call[t], pages[t]) /\ call[t] \in Calls
    BY <1>0, <1>8 DEF Keep, Walking, Typed, TypeOK
  <2>2. CachedIsWhole'
    BY <1>0, <1>8, <2>1 DEF Keep, CachedIsWhole, Typed, TypeOK
  <2>3. Walking'
    BY <1>0, <1>8 DEF Keep, Finish, Walking, Typed, TypeOK, Sending
  <2> QED  BY <2>2, <2>3
<1>9. ASSUME NEW t \in Threads,
             \/ Rejected(t) \/ \E f \in Faults : Exhausted(t, f)
             \/ Garbled(t) \/ Pass(t) \/ KeepRaises(t)
      PROVE  Walking' /\ CachedIsWhole'
  <2>1. UNCHANGED cached /\ \E how : Finish(t, how)
    BY <1>9 DEF Rejected, Exhausted, Garbled, Pass, KeepRaises
  <2> QED  BY <1>5, <2>1
<1> QED
  BY <1>1, <1>2, <1>3, <1>4, <1>6, <1>7, <1>8, <1>9
  DEF Next, Begin, Request, Conclude

LEMMA CollectedInit == Init => Collected
<1> SUFFICES ASSUME Init PROVE Collected
  OBVIOUS
<1>1. Keyed  BY InitTyped DEF Init, Keyed, PoolKeyed, Held, Sending
<1> QED  BY <1>1 DEF Init, Collected, Walking, CachedIsWhole, Sending

\* Whatever fails, and however the threads interleave, a cached body is all that
\* its call fetches, and for the call's own account.
THEOREM ClientCachesWhole == Spec => []CachedIsWhole
<1>1. Collected => CachedIsWhole  BY DEF Collected
<1> QED  BY <1>1, CollectedInit, CollectedStep, PTL DEF Spec

\* What a step returns is whole when the call had collected all of its pages, or
\* found them in the cache.
LEMMA AnswersStep == Collected /\ AnswersWhole /\ [Next]_vars => AnswersWhole'
<1> SUFFICES ASSUME Collected, AnswersWhole, [Next]_vars PROVE AnswersWhole'
  OBVIOUS
<1>0. Typed /\ Walking /\ CachedIsWhole  BY DEF Collected, Keyed
<1>1. ASSUME UNCHANGED result PROVE AnswersWhole'
  BY <1>1 DEF AnswersWhole
<1>2. ASSUME NEW t \in Threads, NEW how, result' = [result EXCEPT ![t] = how],
             how.code = "OK" => Whole(how.call, how.body)
      PROVE  AnswersWhole'
  BY <1>0, <1>2 DEF AnswersWhole, Typed, TypeOK
<1>3. ASSUME NEW t \in Threads, NEW code, code # "OK", result' = [result EXCEPT ![t] = Error(code)]
      PROVE  AnswersWhole'
  BY <1>2, <1>3
<1>4. ASSUME NEW t \in Threads, NEW c \in Calls, Hit(t, c) PROVE AnswersWhole'
  <2>1. Whole(c, cached[c])  BY <1>0, <1>4 DEF Hit, CachedIsWhole
  <2>2. result' = [result EXCEPT ![t] = Answer(c, cached[c])]  BY <1>4 DEF Hit
  <2> QED  BY <1>2, <2>1, <2>2
<1>5. ASSUME NEW t \in Threads, Keep(t) \/ Pass(t) PROVE AnswersWhole'
  <2>1. Whole(call[t], pages[t])  BY <1>0, <1>5 DEF Keep, Pass, Walking
  <2>2. result' = [result EXCEPT ![t] = Answer(call[t], pages[t])]
    BY <1>5 DEF Keep, Pass, Finish
  <2> QED  BY <1>2, <2>1, <2>2
<1>6. ASSUME NEW t \in Threads,
             \/ \E c \in Calls : Miss(t, c)
             \/ LookupRaises(t) \/ Rejected(t) \/ \E f \in Faults : Exhausted(t, f)
             \/ Garbled(t) \/ KeepRaises(t)
      PROVE  AnswersWhole'
  <2>1. \E code : code # "OK" /\ result' = [result EXCEPT ![t] = Error(code)]
    BY <1>6 DEF Miss, LookupRaises, Rejected, Exhausted, Garbled, KeepRaises, Finish,
                Rejections, Faults
  <2> QED  BY <1>3, <2>1
<1>7. ASSUME NEW t \in Threads,
             \/ FindClient(t) \/ BuildClient(t) \/ Answered(t) \/ Wake(t) \/ Decode(t)
             \/ \E f \in Faults : Retry(t, f)
      PROVE  UNCHANGED result
  BY <1>7 DEF FindClient, BuildClient, Answered, Wake, Decode, Retry
<1>8. ASSUME UNCHANGED vars \/ \E c \in Calls : Forget(c) PROVE UNCHANGED result
  BY <1>8 DEF vars, Forget
<1> QED
  BY <1>1, <1>4, <1>5, <1>6, <1>7, <1>8 DEF Next, Begin, Request, Conclude

\* No caller gets a partial or a foreign body: what a call returns, from the cache or
\* from Klaviyo, is all that it asked for, and its own account's.
THEOREM ClientAnswersWhole == Spec => []AnswersWhole
<1>1. Init => Collected /\ AnswersWhole
  <2> SUFFICES ASSUME Init PROVE Collected /\ AnswersWhole
    OBVIOUS
  <2>1. Collected  BY CollectedInit
  <2> QED  BY <2>1 DEF Init, AnswersWhole
<1> QED  BY <1>1, CollectedStep, AnswersStep, PTL DEF Spec

-----------------------------------------------------------------------------
(* Pools: whoever is about to build a client had found none.               *)

Building(a) == {t \in Threads : pc[t] = "build" /\ call[t].account = a}

Leak(a) == /\ built[a] + Cardinality(Building(a)) <= Cardinality(Threads)
           /\ clients[a] = Nothing => built[a] = 0

Leaking == Typed /\ \A a \in Accounts : Leak(a)

LEMMA BuildingFinite ==
    ASSUME NEW a \in Accounts
    PROVE  /\ IsFiniteSet(Building(a)) /\ Cardinality(Building(a)) \in Nat
           /\ Cardinality(Threads) \in Nat
           /\ Cardinality(Building(a)) <= Cardinality(Threads)
<1>1. Building(a) \subseteq Threads  BY DEF Building
<1> QED  BY <1>1, ThreadsAssumption, FS_Subset, FS_CardinalityType

LEMMA LeakingStep == Leaking /\ [Next]_vars => Leaking'
<1> SUFFICES ASSUME Leaking, [Next]_vars, NEW a \in Accounts PROVE Leak(a)'
  BY TypedStep DEF Leaking
<1>0. Typed /\ Leak(a)  BY DEF Leaking
<1>1. ASSUME UNCHANGED <<clients, built>>, Building(a)' = Building(a) PROVE Leak(a)'
  BY <1>0, <1>1 DEF Leak
<1>2. CASE UNCHANGED vars
  BY <1>1, <1>2 DEF vars, Building
<1>3. ASSUME NEW c \in Calls, Forget(c) PROVE Leak(a)'
  BY <1>1, <1>3 DEF Forget, Building
<1>4. ASSUME NEW t \in Threads, Begin(t) PROVE Leak(a)'
  <2>1. Building(a)' = Building(a)
    BY <1>0, <1>4 DEF Begin, Hit, Miss, LookupRaises, Building, Typed, TypeOK
  <2> QED  BY <1>1, <1>4, <2>1 DEF Begin, Hit, Miss, LookupRaises
<1>5. ASSUME NEW t \in Threads, FindClient(t) PROVE Leak(a)'
  <2>1. UNCHANGED <<clients, built, call>>  BY <1>5 DEF FindClient
  <2>2. CASE clients[a] = Nothing
    <3>1. IsFiniteSet(Building(a)') /\ Building(a)' \subseteq Threads
      BY ThreadsAssumption, FS_Subset DEF Building
    <3>2. /\ Cardinality(Building(a)') \in Nat /\ Cardinality(Threads) \in Nat
          /\ Cardinality(Building(a)') <= Cardinality(Threads)
      BY <3>1, ThreadsAssumption, FS_Subset, FS_CardinalityType
    <3>3. built'[a] = 0  BY <1>0, <2>1, <2>2 DEF Leak
    <3>4. built'[a] + Cardinality(Building(a)') <= Cardinality(Threads)
      BY <3>2, <3>3
    <3> QED  BY <3>3, <3>4 DEF Leak
  <2>3. CASE clients[a] # Nothing
    <3>1. Building(a)' = Building(a)
      BY <1>0, <1>5, <2>1, <2>3 DEF FindClient, Building, Typed, TypeOK
    <3> QED  BY <1>1, <2>1, <3>1
  <2> QED  BY <2>2, <2>3
<1>6. ASSUME NEW t \in Threads, BuildClient(t) PROVE Leak(a)'
  <2>1. CASE call[t].account = a
    <3>1. t \in Building(a) /\ Building(a)' = Building(a) \ {t}
      BY <1>0, <1>6, <2>1 DEF BuildClient, Building, Typed, TypeOK
    <3>2. built[a] \in Nat /\ built'[a] = built[a] + 1
      BY <1>0, <1>6, <2>1 DEF BuildClient, Typed, TypeOK
    <3>3. clients'[a] = [key |-> a, number |-> built[a] + 1]
      BY <1>0, <1>6, <2>1 DEF BuildClient, Typed, TypeOK
    <3>4. clients'[a] # Nothing
      BY <3>2, <3>3, NothingAssumption DEF HttpxClients
    <3>5. Cardinality(Building(a)') = Cardinality(Building(a)) - 1
      BY <3>1, BuildingFinite, FS_RemoveElement
    <3>6. Cardinality(Building(a)) \in Nat /\ Cardinality(Threads) \in Nat
      BY BuildingFinite
    <3>7. built[a] + Cardinality(Building(a)) <= Cardinality(Threads)
      BY <1>0 DEF Leak
    <3>8. built'[a] + Cardinality(Building(a)') <= Cardinality(Threads)
      BY <3>2, <3>5, <3>6, <3>7
    <3> QED  BY <3>4, <3>8 DEF Leak
  <2>2. CASE call[t].account # a
    <3>1. Building(a)' = Building(a)
      BY <1>0, <1>6, <2>2 DEF BuildClient, Building, Typed, TypeOK
    <3>2. built'[a] = built[a] /\ clients'[a] = clients[a]
      BY <1>0, <1>6, <2>2 DEF BuildClient, Typed, TypeOK
    <3> QED  BY <1>0, <3>1, <3>2 DEF Leak
  <2> QED  BY <2>1, <2>2
<1>7. ASSUME NEW t \in Threads,
             \/ Answered(t) \/ Wake(t) \/ Decode(t)
             \/ \E f \in Faults : Retry(t, f)
      PROVE  Leak(a)'
  <2>1. Building(a)' = Building(a)
    BY <1>0, <1>7 DEF Answered, Wake, Decode, Retry, Send, Building, Typed, TypeOK
  <2> QED  BY <1>1, <1>7, <2>1 DEF Answered, Wake, Decode, Retry
<1>8. ASSUME NEW t \in Threads,
             \/ Rejected(t) \/ \E f \in Faults : Exhausted(t, f)
             \/ Garbled(t) \/ Keep(t) \/ Pass(t) \/ KeepRaises(t)
      PROVE  Leak(a)'
  <2>1. /\ UNCHANGED <<clients, built>> /\ pc[t] # "build"
        /\ \E how : Finish(t, how)
    BY <1>8 DEF Rejected, Exhausted, Garbled, Keep, Pass, KeepRaises
  <2>2. Building(a)' = Building(a)
    BY <1>0, <2>1 DEF Finish, Building, Typed, TypeOK
  <2> QED  BY <1>1, <2>1, <2>2
<1> QED
  BY <1>2, <1>3, <1>4, <1>5, <1>6, <1>7, <1>8 DEF Next, Request, Conclude

\* However many calls race to build a key's client, the leaked clients are never
\* more than the threads: a build is paid for by a thread that found none.
THEOREM ClientLeakBounded == Spec => []LeakBounded
<1>1. Init => Leaking
  <2> SUFFICES ASSUME Init, NEW a \in Accounts PROVE Leak(a)
    BY InitTyped DEF Leaking
  <2>1. Building(a) = {}  BY DEF Init, Building
  <2>2. Cardinality(Building(a)) = 0 /\ Cardinality(Threads) \in Nat
    BY <2>1, FS_EmptySet, BuildingFinite
  <2>3. built[a] = 0  BY DEF Init
  <2>4. built[a] + Cardinality(Building(a)) <= Cardinality(Threads)
    BY <2>2, <2>3
  <2> QED  BY <2>3, <2>4 DEF Leak
<1>2. Leaking => LeakBounded
  <2> SUFFICES ASSUME Leaking, NEW a \in Accounts PROVE built[a] <= Cardinality(Threads)
    BY DEF LeakBounded
  <2>1. built[a] \in Nat  BY DEF Leaking, Typed, TypeOK
  <2>2. built[a] + Cardinality(Building(a)) <= Cardinality(Threads)
    BY DEF Leaking, Leak
  <2>3. Cardinality(Building(a)) \in Nat /\ Cardinality(Threads) \in Nat
    BY BuildingFinite
  <2> QED  BY <2>1, <2>2, <2>3
<1> QED  BY <1>1, <1>2, LeakingStep, PTL DEF Spec
=============================================================================

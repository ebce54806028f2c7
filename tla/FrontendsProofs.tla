-------------------------- MODULE FrontendsProofs --------------------------
(***************************************************************************)
(* Proofs about Enrich for any threads, listings and ids: an answer lacks  *)
(* only what its own lookup did not give, no name is asked for twice, and  *)
(* Enrich implements Sweep.  And about Frontends for any manifest,         *)
(* settings, requests and threads: nothing is served on a bad environment, *)
(* each call goes to the account it names, and the calls of the service    *)
(* are those of Enrich, so that what holds of Enrich holds of it behind    *)
(* either front end.                                                       *)
(***************************************************************************)
EXTENDS Frontends, SequenceTheorems, TLAPS

\* The lookups of a call so far: each is filed once it is made, and a null among
\* them is the fault of its own id.
Tracked(t) ==
    /\ pc[t] \in {"idle", "listing"} =>
          DOMAIN found[t] = {} /\ asked[t] = {} /\ again[t] = {} /\ lost[t] = {}
    /\ \A k \in DOMAIN found[t] : found[t][k] = Null => k.id \in lost[t]
    /\ S!Once(tool[t]) =>
          /\ again[t] = {}
          /\ \A i \in asked[t] : [id |-> i, at |-> 0] \in DOMAIN found[t]

\* The answer is what the lookups gave, once there are no more to make.
Answered(t) ==
    /\ pc[t] # "answered" => code[t] = "NONE"
    /\ code[t] = "OK" => /\ Pending(t) = {}
                         /\ out[t] = [i \in S!Kept(tool[t], rows[t]) |-> Value(t, i)]

Traced ==
    /\ EnrichTypeOK
    /\ \A t \in Threads : Tracked(t) /\ Answered(t)

\* A key is filed under the id of its row.
LEMMA KeyIds ==
    ASSUME NEW t \in Threads, NEW k \in Keys(t)
    PROVE  /\ k.id \in Ids
           /\ S!Once(tool[t]) => k = [id |-> k.id, at |-> 0]
  BY DEF Keys, Key, S!Sought

\* Two rows with one key are looked up both or neither.
LEMMA SharedKey ==
    ASSUME NEW tl, NEW rs, NEW i \in S!Kept(tl, rs), NEW j \in S!Sought(tl, rs),
           Key(tl, rs, i) = Key(tl, rs, j)
    PROVE  i \in S!Sought(tl, rs)
<1>1. rs[i].id = rs[j].id  BY DEF Key
<1>2. CASE S!Once(tl)
  BY <1>1, <1>2 DEF S!Once, S!Sought
<1>3. CASE ~S!Once(tl)
  <2>1. i = j  BY <1>3 DEF Key
  <2> QED  BY <2>1
<1> QED  BY <1>2, <1>3

LEMMA TracedInit == EnrichInit => Traced
<1> SUFFICES ASSUME EnrichInit PROVE Traced
  OBVIOUS
<1>1. "plain" \in Tools  BY EnrichAssumption
<1>2. \A t \in Threads : DOMAIN found[t] = {}
  BY DEF EnrichInit
<1>3. EnrichTypeOK
  BY <1>1, <1>2 DEF EnrichInit, EnrichTypeOK
<1>4. ASSUME NEW t \in Threads PROVE Tracked(t) /\ Answered(t)
  BY <1>2 DEF EnrichInit, Tracked, Answered
<1> QED  BY <1>3, <1>4 DEF Traced

\* What a step leaves alone of other threads' calls stays true of them.
LEMMA Others ==
    ASSUME Traced, NEW u \in Threads,
           pc'[u] = pc[u], tool'[u] = tool[u], rows'[u] = rows[u], found'[u] = found[u],
           asked'[u] = asked[u], again'[u] = again[u], lost'[u] = lost[u],
           code'[u] = code[u], out'[u] = out[u]
    PROVE  /\ Tracked(u)' /\ Answered(u)'
           /\ Keys(u)' = Keys(u) /\ Pending(u)' = Pending(u)
<1>1. Keys(u)' = Keys(u)  BY DEF Keys
<1>2. Pending(u)' = Pending(u)  BY <1>1 DEF Pending
<1>3. \A i : Value(u, i)' = Value(u, i)  BY DEF Value
<1>4. Tracked(u) /\ Answered(u)  BY DEF Traced
<1> QED  BY <1>1, <1>2, <1>3, <1>4 DEF Tracked, Answered

LEMMA FinishTraced ==
    ASSUME Traced, NEW t \in Threads, NEW c, NEW o, Finish(t, c, o),
           c \in {"OK", "INTERNAL_ERROR"} \cup Refusals \cup Failures,
           c = "OK" => /\ Pending(t) = {}
                       /\ o = [i \in S!Kept(tool[t], rows[t]) |-> Value(t, i)]
    PROVE  Traced'
<1>1. EnrichTypeOK'
  BY DEF Traced, EnrichTypeOK, Finish, Keys
<1>2. ASSUME NEW u \in Threads, u # t PROVE Tracked(u)' /\ Answered(u)'
  BY <1>2, Others DEF Finish, Traced, EnrichTypeOK
<1>3. /\ Pending(t)' = Pending(t)
      /\ \A i : Value(t, i)' = Value(t, i)
  BY DEF Finish, Pending, Keys, Value
<1>4. Tracked(t)'
  BY DEF Traced, Tracked, Finish, EnrichTypeOK
<1>5. Answered(t)'
  BY <1>3 DEF Traced, Answered, Finish, EnrichTypeOK
<1> QED  BY <1>1, <1>2, <1>4, <1>5 DEF Traced

\* One more lookup, filed under a key that had none.
LEMMA NoteTraced ==
    ASSUME Traced, NEW t \in Threads, NEW k, NEW v, Note(t, k, v),
           pc[t] = "looking", k \in Pending(t), v \in {k.id, Null},
           lost' \in [Threads -> SUBSET Ids],
           \A u \in Threads : u # t => lost'[u] = lost[u],
           lost[t] \subseteq lost'[t], v = Null => k.id \in lost'[t]
    PROVE  Traced'
<1>1. k \in Keys(t) /\ k \notin DOMAIN found[t]  BY DEF Pending
<1>2. k.id \in Ids /\ (S!Once(tool[t]) => k = [id |-> k.id, at |-> 0])
  BY <1>1, KeyIds
<1>3. /\ found'[t] = [l \in DOMAIN found[t] \cup {k} |-> IF l = k THEN v ELSE found[t][l]]
      /\ asked'[t] = asked[t] \cup {k.id}
      /\ again'[t] = again[t] \cup (asked[t] \cap {k.id})
      /\ pc' = pc /\ tool' = tool /\ rows' = rows /\ code' = code /\ out' = out
  BY DEF Note, Traced, EnrichTypeOK
<1>4. \A u \in Threads : u # t =>
         found'[u] = found[u] /\ asked'[u] = asked[u] /\ again'[u] = again[u]
  BY DEF Note, Traced, EnrichTypeOK
<1>5. ASSUME NEW u \in Threads, u # t
      PROVE  Tracked(u)' /\ Answered(u)' /\ Keys(u)' = Keys(u)
  BY <1>3, <1>4, <1>5, Others
<1>6. Keys(t)' = Keys(t)  BY <1>3 DEF Keys
<1>7. EnrichTypeOK'
  <2>1. /\ DOMAIN found' = Threads
        /\ asked' \in [Threads -> SUBSET Ids] /\ again' \in [Threads -> SUBSET Ids]
    BY <1>2 DEF Note, Traced, EnrichTypeOK
  <2>2. ASSUME NEW u \in Threads
        PROVE  /\ DOMAIN found'[u] \subseteq Keys(u)'
               /\ \A l \in DOMAIN found'[u] : found'[u][l] \in {l.id, Null}
    <3>1. CASE u = t
      BY <1>1, <1>3, <1>6, <3>1 DEF Traced, EnrichTypeOK
    <3>2. CASE u # t
      BY <1>4, <1>5, <3>2 DEF Traced, EnrichTypeOK
    <3> QED  BY <3>1, <3>2
  <2> QED  BY <1>3, <2>1, <2>2 DEF Traced, EnrichTypeOK
<1>8. Tracked(t)'
  <2>1. Tracked(t)  BY DEF Traced
  <2>2. \A l \in DOMAIN found'[t] : found'[t][l] = Null => l.id \in lost'[t]
    BY <1>3, <2>1 DEF Tracked
  <2>3. ASSUME S!Once(tool[t])
        PROVE  /\ again'[t] = {}
               /\ \A i \in asked'[t] : [id |-> i, at |-> 0] \in DOMAIN found'[t]
    <3>1. k.id \notin asked[t]
      BY <1>1, <1>2, <2>1, <2>3 DEF Tracked
    <3> QED  BY <1>2, <1>3, <2>1, <2>3, <3>1 DEF Tracked
  <2> QED  BY <1>3, <2>2, <2>3 DEF Tracked
<1>9. Answered(t)'
  <2>1. code[t] = "NONE"  BY DEF Traced, Answered
  <2> QED  BY <1>3, <2>1 DEF Answered
<1> QED  BY <1>5, <1>7, <1>8, <1>9 DEF Traced

LEMMA TracedStep == Traced /\ [EnrichNext]_vars => Traced'
<1> SUFFICES ASSUME Traced, [EnrichNext]_vars PROVE Traced'
  OBVIOUS
<1>1. CASE UNCHANGED vars
  <2>1. ASSUME NEW u \in Threads PROVE Tracked(u)' /\ Answered(u)' /\ Keys(u)' = Keys(u)
    BY <1>1, Others DEF vars
  <2> QED  BY <1>1, <2>1 DEF vars, Traced, EnrichTypeOK
<1>2. ASSUME NEW t \in Threads, NEW tl \in Tools, Accept(t, tl) PROVE Traced'
  <2>1. ASSUME NEW u \in Threads, u # t PROVE Tracked(u)' /\ Answered(u)' /\ Keys(u)' = Keys(u)
    BY <1>2, <2>1, Others DEF Accept, Traced, EnrichTypeOK
  <2>2. /\ DOMAIN found[t] = {} /\ code[t] = "NONE"
        /\ asked[t] = {} /\ again[t] = {} /\ lost[t] = {}
    BY <1>2 DEF Traced, Tracked, Answered, Accept
  <2>3. Tracked(t)' /\ Answered(t)'
    BY <1>2, <2>2 DEF Accept, Tracked, Answered
  <2>4. EnrichTypeOK'
    BY <1>2, <2>1, <2>2 DEF Accept, Traced, EnrichTypeOK
  <2> QED  BY <2>1, <2>3, <2>4 DEF Traced
<1>3. ASSUME NEW t \in Threads, NEW c \in Refusals, Refuse(t, c) PROVE Traced'
  BY <1>3, FinishTraced, EnrichAssumption DEF Refuse
<1>4. ASSUME NEW t \in Threads, NEW rs \in Listings, Listed(t, rs) PROVE Traced'
  <2>1. ASSUME NEW u \in Threads, u # t PROVE Tracked(u)' /\ Answered(u)' /\ Keys(u)' = Keys(u)
    BY <1>4, <2>1, Others DEF Listed, Traced, EnrichTypeOK
  <2>2. /\ DOMAIN found[t] = {} /\ code[t] = "NONE"
        /\ asked[t] = {} /\ again[t] = {} /\ lost[t] = {}
    BY <1>4 DEF Traced, Tracked, Answered, Listed
  <2>3. Tracked(t)' /\ Answered(t)'
    BY <1>4, <2>2 DEF Listed, Tracked, Answered
  <2>4. EnrichTypeOK'
    BY <1>4, <2>1, <2>2 DEF Listed, Traced, EnrichTypeOK
  <2> QED  BY <2>1, <2>3, <2>4 DEF Traced
<1>5. ASSUME NEW t \in Threads, NEW c \in Failures, ListingFails(t, c) PROVE Traced'
  BY <1>5, FinishTraced, EnrichAssumption DEF ListingFails
<1>6. ASSUME NEW t \in Threads, NEW k \in Keys(t), Found(t, k) PROVE Traced'
  <2>1. k.id # Null
    BY KeyIds, EnrichAssumption
  <2>2. lost' = lost /\ lost \in [Threads -> SUBSET Ids]
    BY <1>6 DEF Found, Traced, EnrichTypeOK
  <2>3. pc[t] = "looking" /\ k \in Pending(t) /\ Note(t, k, k.id)
    BY <1>6 DEF Found, Turn
  <2> QED  BY <2>1, <2>2, <2>3, NoteTraced
<1>7. ASSUME NEW t \in Threads, NEW k \in Keys(t), Lacks(t, k) PROVE Traced'
  <2>1. k.id \in Ids  BY KeyIds
  <2>2. /\ lost' \in [Threads -> SUBSET Ids]
        /\ \A u \in Threads : u # t => lost'[u] = lost[u]
        /\ lost[t] \subseteq lost'[t] /\ k.id \in lost'[t]
    BY <1>7, <2>1 DEF Lacks, Traced, EnrichTypeOK
  <2> QED  BY <1>7, <2>2, NoteTraced DEF Lacks, Turn
<1>8. ASSUME NEW t \in Threads, Raises(t) PROVE Traced'
  BY <1>8, FinishTraced DEF Raises
<1>9. ASSUME NEW t \in Threads, Answer(t) PROVE Traced'
  BY <1>9, FinishTraced DEF Answer
<1> QED
  BY <1>1, <1>2, <1>3, <1>4, <1>5, <1>6, <1>7, <1>8, <1>9 DEF EnrichNext, Works

LEMMA EnrichInvariant == EnrichSpec => []Traced
  BY TracedInit, TracedStep, PTL DEF EnrichSpec

-----------------------------------------------------------------------------
\* The state stays well-typed, and what is filed belongs to a row of the call.
THEOREM EnrichTyped == EnrichSpec => []EnrichTypeOK
<1>1. Traced => EnrichTypeOK  BY DEF Traced
<1> QED  BY <1>1, EnrichInvariant, PTL

\* However many rows share an id, its name is asked for once (service.py:1774,
\* 1908).
THEOREM LookedUpOnce == EnrichSpec => []OnceEach
<1>1. Traced => OnceEach  BY DEF Traced, Tracked, OnceEach
<1> QED  BY <1>1, EnrichInvariant, PTL

\* A row of an answer lacks its value only because the lookup of its own id gave
\* none (service.py:511-513, 1979-1981).
THEOREM NullsHaveCause == EnrichSpec => []NullsExplained
<1>1. ASSUME Traced, NEW t \in Threads, code[t] = "OK",
             NEW i \in S!Sought(tool[t], rows[t]), out[t][i] = Null
      PROVE  rows[t][i].id \in lost[t]
  <2> DEFINE k == Key(tool[t], rows[t], i)
  <2>1. i \in S!Kept(tool[t], rows[t])  BY DEF S!Sought
  <2>2. Pending(t) = {} /\ out[t][i] = Value(t, i)
    BY <1>1, <2>1 DEF Traced, Answered
  <2>3. k \in DOMAIN found[t]  BY <2>2 DEF Pending, Keys
  <2>4. found[t][k] = Null  BY <1>1, <2>2, <2>3 DEF Value
  <2>5. k.id \in lost[t]  BY <1>1, <2>3, <2>4 DEF Traced, Tracked
  <2> QED  BY <2>5 DEF Key
<1>2. Traced => NullsExplained  BY <1>1 DEF NullsExplained
<1> QED  BY <1>2, EnrichInvariant, PTL

-----------------------------------------------------------------------------
(* Enrich implements Sweep.                                                *)

LEMMA Phases ==
    /\ Phase("idle") = "idle" /\ Phase("listing") = "asked"
    /\ Phase("looking") = "listed" /\ Phase("answered") = "answered"
  BY DEF Phase

LEMMA RefinesInit == EnrichInit => S!Init
  BY Phases DEF EnrichInit, S!Init

\* A call that ends in Enrich ends in Sweep.
LEMMA RefinesFinish ==
    ASSUME Traced, NEW t \in Threads, NEW c, NEW o, Finish(t, c, o)
    PROVE  S!Finish(t, c, o)
<1>1. /\ pc' = [pc EXCEPT ![t] = "answered"]
      /\ pc \in [Threads -> {"idle", "listing", "looking", "answered"}]
  BY DEF Finish, Traced, EnrichTypeOK
<1>2. [u \in Threads |-> Phase(pc'[u])]
         = [[u \in Threads |-> Phase(pc[u])] EXCEPT ![t] = "answered"]
  BY <1>1, Phases
<1> QED  BY <1>2 DEF Finish, S!Finish

\* The rows of an answer are what Sweep lets an answer be.
LEMMA AnswerFulfils ==
    ASSUME Traced, NEW t \in Threads, Pending(t) = {}
    PROVE  S!Fulfils(tool[t], rows[t], [i \in S!Kept(tool[t], rows[t]) |-> Value(t, i)])
<1> DEFINE tl == tool[t]
           rs == rows[t]
<1>1. ASSUME NEW i \in S!Kept(tl, rs)
      PROVE  Value(t, i) \in (IF i \in S!Sought(tl, rs) THEN {rs[i].id, Null} ELSE {Null})
  <2> DEFINE k == Key(tl, rs, i)
  <2>1. k.id = rs[i].id  BY DEF Key
  <2>2. CASE k \in DOMAIN found[t]
    <3>1. k \in Keys(t) /\ found[t][k] \in {k.id, Null}
      BY <2>2 DEF Traced, EnrichTypeOK
    <3>2. PICK j \in S!Sought(tl, rs) : k = Key(tl, rs, j)
      BY <3>1 DEF Keys
    <3>3. i \in S!Sought(tl, rs)  BY <3>2, SharedKey
    <3> QED  BY <2>1, <2>2, <3>1, <3>3 DEF Value
  <2>3. CASE k \notin DOMAIN found[t]
    <3>1. i \notin S!Sought(tl, rs)  BY <2>3 DEF Pending, Keys
    <3> QED  BY <2>3, <3>1 DEF Value
  <2> QED  BY <2>2, <2>3
<1>2. ASSUME S!Once(tl), NEW i \in S!Kept(tl, rs), NEW j \in S!Kept(tl, rs),
             rs[i].id = rs[j].id
      PROVE  Value(t, i) = Value(t, j)
  BY <1>2 DEF Value, Key
<1> QED  BY <1>1, <1>2 DEF S!Fulfils

LEMMA RefinesStep == Traced /\ [EnrichNext]_vars => [S!Next]_S!vars
<1> SUFFICES ASSUME Traced, [EnrichNext]_vars PROVE [S!Next]_S!vars
  OBVIOUS
<1>0. pc \in [Threads -> {"idle", "listing", "looking", "answered"}]  BY DEF Traced, EnrichTypeOK
<1>1. CASE UNCHANGED vars
  BY <1>1 DEF vars, S!vars
<1>2. ASSUME NEW t \in Threads, NEW tl \in Tools, Accept(t, tl) PROVE S!Next
  <2>1. [u \in Threads |-> Phase(pc'[u])]
           = [[u \in Threads |-> Phase(pc[u])] EXCEPT ![t] = "asked"]
    BY <1>0, <1>2, Phases DEF Accept
  <2>2. S!Accept(t, tl)
    BY <1>2, <2>1, Phases DEF Accept, S!Accept
  <2> QED  BY <2>2 DEF S!Next
<1>3. ASSUME NEW t \in Threads, NEW c \in Refusals, Refuse(t, c) PROVE S!Next
  <2>1. S!Refuse(t, c)
    BY <1>3, RefinesFinish, Phases DEF Refuse, S!Refuse
  <2> QED  BY <2>1 DEF S!Next
<1>4. ASSUME NEW t \in Threads, NEW rs \in Listings, Listed(t, rs) PROVE S!Next
  <2>1. [u \in Threads |-> Phase(pc'[u])]
           = [[u \in Threads |-> Phase(pc[u])] EXCEPT ![t] = "listed"]
    BY <1>0, <1>4, Phases DEF Listed
  <2>2. S!List(t, rs)
    BY <1>4, <2>1, Phases DEF Listed, S!List
  <2> QED  BY <2>2 DEF S!Next
<1>5. ASSUME NEW t \in Threads, NEW c \in Failures, ListingFails(t, c) PROVE S!Next
  <2>1. S!Fail(t, c)
    BY <1>5, RefinesFinish, Phases DEF ListingFails, S!Fail
  <2> QED  BY <2>1 DEF S!Next
<1>6. ASSUME NEW t \in Threads, NEW k \in Keys(t), Found(t, k) \/ Lacks(t, k)
      PROVE  UNCHANGED S!vars
  BY <1>6 DEF Found, Lacks, Note, S!vars
<1>7. ASSUME NEW t \in Threads, Raises(t) PROVE S!Next
  <2>1. \A u \in Threads : Inside(u) => Phase(pc[u]) \in {"asked", "listed"}
    BY Phases DEF Inside
  <2>2. S!Collide(t)
    BY <1>7, <2>1, RefinesFinish DEF Raises, S!Collide
  <2> QED  BY <2>2 DEF S!Next
<1>8. ASSUME NEW t \in Threads, Answer(t) PROVE S!Next
  <2> DEFINE o == [i \in S!Kept(tool[t], rows[t]) |-> Value(t, i)]
  <2>1. pc[t] = "looking" /\ Pending(t) = {} /\ Finish(t, "OK", o)
    BY <1>8 DEF Answer
  <2>2. out'[t] = o
    BY <2>1 DEF Finish, Traced, EnrichTypeOK
  <2>3. S!Fulfils(tool[t], rows[t], o)
    BY <2>1, AnswerFulfils
  <2>4. S!Finish(t, "OK", o)
    BY <2>1, RefinesFinish
  <2>5. S!Deliver(t)
    BY <2>1, <2>2, <2>3, <2>4, Phases DEF S!Deliver
  <2> QED  BY <2>5 DEF S!Next
<1> QED
  BY <1>1, <1>2, <1>3, <1>4, <1>5, <1>6, <1>7, <1>8 DEF EnrichNext, Works

\* Enrich implements Sweep: whatever lookups do, the answer has every row in
\* order with its own value or none, and only a collision in the cache fails a
\* call whose rows are there (service.py:1778, 1799-1800).
THEOREM EnrichKeepsPromise == EnrichSpec => KeepsPromise
  BY RefinesInit, RefinesStep, EnrichInvariant, PTL DEF EnrichSpec, KeepsPromise, S!Spec

-----------------------------------------------------------------------------
(* The service behind the front ends is Enrich.                            *)

LEMMA RejectsInRefusals ==
    ASSUME NEW r, ServiceRejects(r) # "OK"
    PROVE  ServiceRejects(r) \in Refusals
<1>1. Resolution(r.account) \in {"OK", "INVALID_ARGUMENT", "UNKNOWN_ACCOUNT", "CONFIG_ERROR",
                                 "INTERNAL_ERROR"}
  BY DEF Resolution
<1>2. {"INVALID_ARGUMENT", "UNKNOWN_ACCOUNT", "CONFIG_ERROR", "INTERNAL_ERROR"} \subseteq Refusals
  BY ServiceAssumption
<1> QED  BY <1>1, <1>2 DEF ServiceRejects

LEMMA SweepsInTools ==
    ASSUME NEW c, NEW r
    PROVE  Sweeps(c, r) \in Tools
<1>1. Sweeps(c, r) \in {"campaigns", "messages", "structure", "lists", "plain"}
  BY DEF Sweeps
<1> QED  BY <1>1, ServiceAssumption

LEMMA StepsAreEnrich == [FrontendsNext]_frontends => [EnrichNext]_vars
<1> SUFFICES ASSUME [FrontendsNext]_frontends PROVE [EnrichNext]_vars
  OBVIOUS
<1>1. CASE UNCHANGED frontends \/ StartUp \/ Over
  BY <1>1 DEF frontends, StartUp, Over
<1>2. ASSUME NEW t \in Threads, NEW r \in Requests, Send(t, r) PROVE UNCHANGED vars
  BY <1>2 DEF Send
<1>3. ASSUME NEW t \in Threads, TurnAway(t) \/ Reply(t) PROVE UNCHANGED vars
  BY <1>3 DEF TurnAway, Reply
<1>4. ASSUME NEW t \in Threads, CallService(t) PROVE EnrichNext
  <2> DEFINE r == request[t]
  <2>1. CASE ServiceRejects(r) = "OK"
    <3>1. Accept(t, Sweeps(Coerced(r), r))
      BY <1>4, <2>1 DEF CallService
    <3> QED  BY <3>1, SweepsInTools DEF EnrichNext
  <2>2. CASE ServiceRejects(r) # "OK"
    <3>1. Refuse(t, ServiceRejects(r))
      BY <1>4, <2>2 DEF CallService
    <3> QED  BY <2>2, <3>1, RejectsInRefusals DEF EnrichNext
  <2> QED  BY <2>1, <2>2
<1>5. ASSUME NEW t \in Threads, ServiceWorks(t) PROVE EnrichNext
  BY <1>5 DEF ServiceWorks, EnrichNext
<1> QED  BY <1>1, <1>2, <1>3, <1>4, <1>5 DEF FrontendsNext

\* The calls that the front ends make of the service are calls of Enrich.
THEOREM FrontendsAreEnrich == FrontendsSpec => EnrichSpec
<1>1. FrontendsInit => EnrichInit  BY DEF FrontendsInit
<1> QED  BY <1>1, StepsAreEnrich, PTL DEF FrontendsSpec, EnrichSpec

\* Behind either front end, a lookup costs its own row only, and nothing but a
\* collision in the cache costs a call its rows (service.py:1778, 1799-1800).
THEOREM FrontendsKeepPromise == FrontendsSpec => KeepsPromise
  BY FrontendsAreEnrich, EnrichKeepsPromise, PTL

-----------------------------------------------------------------------------
(* Startup and the account table.                                          *)

\* What has been read of the manifest is in the table, and valid.
Loaded ==
    /\ boot \in {"config", "manifest", "loading", "serving", "exited"}
    /\ manifest \in Manifests
    /\ boot \in {"manifest", "loading", "serving"} => Sound(settings)
    /\ boot \in {"config", "manifest"} => loaded = 0 /\ DOMAIN accounts = {}
    /\ boot \in {"loading", "serving"} => manifest # BadManifest
    /\ boot = "loading" => manifest # NoManifest
    /\ loaded \in Nat
    /\ manifest = NoManifest => loaded = 0 /\ DOMAIN accounts = {}
    /\ manifest \notin {NoManifest, BadManifest} =>
          /\ boot = "serving" => loaded = Len(manifest)
          /\ loaded <= Len(manifest)
    /\ \A i \in 1 .. loaded : /\ manifest[i].key # NoKey
                              /\ Trimmed[manifest[i].name] \in DOMAIN accounts
    /\ TableOfManifest

LEMMA LoadEntryLoaded ==
    ASSUME Loaded, LoadEntry
    PROVE  Loaded'
<1> DEFINE e == manifest[loaded + 1]
           name == Trimmed[e.name]
<1>1. CASE ~ValidEntry(e)
  BY <1>1 DEF LoadEntry, Exit, Loaded, TableOfManifest, Sound
<1>2. CASE ValidEntry(e)
  <2>1. /\ boot = "loading" /\ loaded < Len(manifest) /\ loaded' = loaded + 1
        /\ DOMAIN accounts' = DOMAIN accounts \cup {name}
        /\ accounts'[name] = [name |-> name, key |-> e.key, metric |-> e.metric]
        /\ \A n \in DOMAIN accounts : n # name => accounts'[n] = accounts[n]
        /\ UNCHANGED <<boot, rest, settings, manifest>>
    BY <1>2 DEF LoadEntry, Filed
  <2>2. loaded \in Nat /\ loaded' \in Nat
    BY <2>1 DEF Loaded
  <2>3. e.key # NoKey  BY <1>2 DEF ValidEntry
  <2>4. \A i \in 1 .. loaded' : i \in 1 .. loaded \/ i = loaded + 1
    BY <2>1, <2>2
  <2>5. \A i \in 1 .. loaded' : /\ manifest'[i].key # NoKey
                                /\ Trimmed[manifest'[i].name] \in DOMAIN accounts'
    BY <2>1, <2>3, <2>4 DEF Loaded
  <2>6. TableOfManifest'
    <3> SUFFICES ASSUME NEW n \in DOMAIN accounts'
                 PROVE  \E i \in 1 .. loaded' :
                          /\ Trimmed[manifest[i].name] = n
                          /\ accounts'[n] = [name |-> n, key |-> manifest[i].key,
                                             metric |-> manifest[i].metric]
                          /\ \A j \in i + 1 .. loaded' : Trimmed[manifest[j].name] # n
      BY <2>1 DEF TableOfManifest
    <3>1. CASE n = name
      <4>1. loaded' \in 1 .. loaded' /\ loaded' + 1 .. loaded' = {} /\ loaded' = loaded + 1
        BY <2>1, <2>2
      <4> QED  BY <2>1, <3>1, <4>1
    <3>2. CASE n # name
      <4>1. n \in DOMAIN accounts /\ accounts'[n] = accounts[n]
        BY <2>1, <3>2
      <4>2. PICK i \in 1 .. loaded :
                /\ Trimmed[manifest[i].name] = n
                /\ accounts[n] = [name |-> n, key |-> manifest[i].key,
                                  metric |-> manifest[i].metric]
                /\ \A j \in i + 1 .. loaded : Trimmed[manifest[j].name] # n
        BY <4>1 DEF Loaded, TableOfManifest
      <4>3. i \in 1 .. loaded' /\ \A j \in i + 1 .. loaded' : j \in i + 1 .. loaded \/ j = loaded + 1
        BY <2>1, <2>2
      <4> QED  BY <3>2, <4>1, <4>2, <4>3
    <3> QED  BY <3>1, <3>2
  <2>7. boot' = "loading" /\ manifest' = manifest /\ loaded' <= Len(manifest)
    BY <2>1, <2>2, RegistryAssumption, LenProperties DEF Loaded
  <2>8. Sound(settings)'
    BY <2>1 DEF Loaded, Sound
  <2> QED  BY <2>1, <2>2, <2>5, <2>6, <2>7, <2>8 DEF Loaded
<1> QED  BY <1>1, <1>2

LEMMA LoadedInit == FrontendsInit => Loaded
  BY DEF FrontendsInit, RegistryInit, Loaded, TableOfManifest

LEMMA LoadedStep == Loaded /\ [FrontendsNext]_frontends => Loaded'
<1> SUFFICES ASSUME Loaded, [FrontendsNext]_frontends PROVE Loaded'
  OBVIOUS
<1>1. CASE UNCHANGED registry
  BY <1>1 DEF registry, Loaded, TableOfManifest, Sound
<1>2. CASE ValidateConfig
  BY <1>2 DEF ValidateConfig, Exit, Loaded, TableOfManifest, Sound
<1>3. CASE ReadManifest
  <2>1. manifest \notin {NoManifest, BadManifest} => Len(manifest) \in Nat
    BY RegistryAssumption, LenProperties DEF Loaded
  <2>2. /\ boot = "manifest" /\ loaded = 0 /\ DOMAIN accounts = {} /\ Sound(settings)
        /\ UNCHANGED <<rest, settings, manifest, loaded, accounts>>
    <3>1. boot = "manifest"  BY <1>3 DEF ReadManifest
    <3>2. loaded = 0 /\ DOMAIN accounts = {} /\ Sound(settings)
      BY <3>1 DEF Loaded
    <3>3. UNCHANGED <<rest, settings, manifest, loaded, accounts>>
      BY <1>3 DEF ReadManifest, Exit
    <3> QED  BY <3>1, <3>2, <3>3
  <2>3. Sound(settings)' /\ TableOfManifest' /\ manifest' \in Manifests
    BY <2>2 DEF Loaded, TableOfManifest, Sound
  <2>4. \/ manifest = BadManifest /\ boot' = "exited"
        \/ manifest = NoManifest /\ manifest # BadManifest /\ boot' = "serving"
        \/ manifest \notin {BadManifest, NoManifest} /\ boot' = "loading"
    BY <1>3, RegistryAssumption DEF ReadManifest, Exit
  <2> QED  BY <2>1, <2>2, <2>3, <2>4 DEF Loaded
<1>4. CASE LoadEntry
  BY <1>4, LoadEntryLoaded
<1>5. CASE StartServing
  BY <1>5 DEF StartServing, Loaded, TableOfManifest, Sound
<1>6. CASE ~StartUp
  BY <1>1, <1>6 DEF FrontendsNext, frontends, Send, TurnAway, CallService, ServiceWorks, Reply, Over
<1> QED  BY <1>2, <1>3, <1>4, <1>5, <1>6 DEF StartUp, Boot

LEMMA LoadedAlways == FrontendsSpec => []Loaded
  BY LoadedInit, LoadedStep, PTL DEF FrontendsSpec

\* Whatever is in the environment and the manifest, nothing is served unless all
\* of it is sound (registry.py:146-147, config.py:116-122).
THEOREM ServesOnlySound == FrontendsSpec => []FailsFast
<1>1. Loaded => FailsFast
  <2> SUFFICES ASSUME Loaded, boot = "serving" PROVE FailsFast
    BY DEF FailsFast
  <2>1. Sound(settings) /\ manifest # BadManifest  BY DEF Loaded
  <2>2. ASSUME manifest # NoManifest, NEW i \in 1 .. Len(manifest)
        PROVE  /\ manifest[i].key # NoKey
               /\ \E n \in DOMAIN accounts : n = Trimmed[manifest[i].name]
    BY <2>1, <2>2 DEF Loaded
  <2> QED  BY <2>1, <2>2 DEF FailsFast
<1> QED  BY <1>1, LoadedAlways, PTL

-----------------------------------------------------------------------------
(* Whose account a call uses.                                              *)

\* A call that is at Klaviyo has the account its request resolves to, in a table
\* that has been complete since before the request came.
Routed ==
    /\ DOMAIN pc = Threads /\ DOMAIN stage = Threads
    /\ DOMAIN request = Threads /\ DOMAIN account = Threads
    /\ \A t \in Threads : stage[t] # "idle" => boot = "serving" /\ request[t] \in Requests
    /\ \A t \in Threads : pc[t] \in {"listing", "looking"} =>
          /\ stage[t] = "called"
          /\ Resolution(request[t].account) = "OK"
          /\ account[t] = Resolve(request[t].account)

LEMMA WorksOnItself ==
    ASSUME DOMAIN pc = Threads, NEW t \in Threads, Works(t)
    PROVE  /\ DOMAIN pc' = Threads
           /\ \A u \in Threads : pc'[u] \in {"listing", "looking"} => pc[u] \in {"listing", "looking"}
<1>1. CASE \E rs \in Listings : Listed(t, rs)
  BY <1>1 DEF Listed
<1>2. CASE \E k \in Keys(t) : Found(t, k) \/ Lacks(t, k)
  BY <1>2 DEF Found, Lacks, Note
<1>3. CASE (\E c \in Failures : ListingFails(t, c)) \/ Raises(t) \/ Answer(t)
  BY <1>3 DEF ListingFails, Raises, Answer, Finish
<1> QED  BY <1>1, <1>2, <1>3 DEF Works

LEMMA RoutedInit == FrontendsInit => Routed
  BY DEF FrontendsInit, EnrichInit, Routed

LEMMA RoutedStep == Routed /\ [FrontendsNext]_frontends => Routed'
<1> SUFFICES ASSUME Routed, [FrontendsNext]_frontends PROVE Routed'
  OBVIOUS
<1>0. \A n : UNCHANGED accounts => Resolution(n)' = Resolution(n) /\ Resolve(n)' = Resolve(n)
  BY DEF Resolution, Resolve
<1>1. CASE UNCHANGED frontends \/ Over
  <2>1. UNCHANGED <<boot, accounts, pc, stage, request, account>>
    BY <1>1 DEF Over, frontends, registry, vars, calls
  <2> QED  BY <1>0, <2>1 DEF Routed
<1>2. CASE StartUp
  <2>1. boot # "serving"
    BY <1>2 DEF StartUp, Boot, ValidateConfig, ReadManifest, LoadEntry, StartServing
  <2>2. \A t \in Threads : stage[t] = "idle" /\ pc[t] \notin {"listing", "looking"}
    BY <2>1 DEF Routed
  <2>3. UNCHANGED <<pc, stage, request, account>>
    BY <1>2 DEF StartUp, vars, calls
  <2> QED  BY <2>2, <2>3 DEF Routed
<1>3. ASSUME NEW t \in Threads, NEW r \in Requests, Send(t, r) PROVE Routed'
  <2>1. /\ UNCHANGED <<boot, accounts, pc, account>> /\ boot = "serving" /\ stage[t] = "idle"
        /\ stage' = [stage EXCEPT ![t] = "sent"] /\ request' = [request EXCEPT ![t] = r]
    BY <1>3 DEF Send, registry, vars
  <2> QED  BY <1>0, <2>1 DEF Routed
<1>4. ASSUME NEW t \in Threads, TurnAway(t) \/ Reply(t) PROVE Routed'
  <2>1. /\ UNCHANGED <<boot, accounts, pc, request, account>>
        /\ stage[t] # "idle" /\ stage' = [stage EXCEPT ![t] = "replied"]
        /\ pc[t] \notin {"listing", "looking"}
    BY <1>4 DEF TurnAway, Reply, Replied, registry, vars, Routed
  <2> QED  BY <1>0, <2>1 DEF Routed
<1>5. ASSUME NEW t \in Threads, CallService(t) PROVE Routed'
  <2> DEFINE n == request[t].account
  <2>1. /\ UNCHANGED <<boot, accounts, request>>
        /\ stage[t] = "sent" /\ stage' = [stage EXCEPT ![t] = "called"]
    BY <1>5 DEF CallService, Called, registry
  <2>2. CASE ServiceRejects(request[t]) = "OK"
    <3>1. /\ account' = [account EXCEPT ![t] = Resolve(n)]
          /\ pc' = [pc EXCEPT ![t] = "listing"]
      BY <1>5, <2>2 DEF CallService, Accept
    <3>2. Resolution(n) = "OK"  BY <2>2 DEF ServiceRejects
    <3> QED  BY <1>0, <2>1, <3>1, <3>2 DEF Routed
  <2>3. CASE ServiceRejects(request[t]) # "OK"
    <3>1. account' = account /\ pc' = [pc EXCEPT ![t] = "answered"]
      BY <1>5, <2>3 DEF CallService, Refuse, Finish
    <3> QED  BY <1>0, <2>1, <3>1 DEF Routed
  <2> QED  BY <2>2, <2>3
<1>6. ASSUME NEW t \in Threads, ServiceWorks(t) PROVE Routed'
  <2>1. Works(t) /\ UNCHANGED <<boot, accounts, stage, request, account>>
    BY <1>6 DEF ServiceWorks, registry, calls
  <2>2. /\ DOMAIN pc' = Threads
        /\ \A u \in Threads : pc'[u] \in {"listing", "looking"} => pc[u] \in {"listing", "looking"}
    BY <2>1, WorksOnItself DEF Routed
  <2> QED  BY <1>0, <2>1, <2>2 DEF Routed
<1> QED  BY <1>1, <1>2, <1>3, <1>4, <1>5, <1>6 DEF FrontendsNext

LEMMA RoutedOwnAccount == Loaded /\ Routed => OwnAccount
<1> SUFFICES ASSUME Loaded, Routed, NEW t \in Threads, pc[t] \in {"listing", "looking"}
             PROVE  LET n == request[t].account
                        same == {i \in 1 .. Len(manifest) :
                                    n # NoName => Trimmed[manifest[i].name] = Trimmed[n]}
                    IN  /\ same # {}
                        /\ \E i \in same : /\ account[t].key = manifest[i].key
                                           /\ \A j \in same : j <= i
                        /\ \A i, j \in same : Trimmed[manifest[i].name] = Trimmed[manifest[j].name]
  BY DEF OwnAccount
<1> DEFINE n == request[t].account
           same == {i \in 1 .. Len(manifest) :
                       n # NoName => Trimmed[manifest[i].name] = Trimmed[n]}
<1>1. /\ boot = "serving" /\ n \in Names \cup {NoName, NotText}
      /\ Resolution(n) = "OK" /\ account[t] = Resolve(n)
  BY RequestsAssumption DEF Routed
<1>2. \E m \in DOMAIN accounts :
         /\ account[t] = accounts[m]
         /\ n # NoName => m = Trimmed[n]
         /\ n = NoName => DOMAIN accounts = {m}
  <2>1. CASE n = NoName
    <3>1. DOMAIN accounts # {} /\ \A a, b \in DOMAIN accounts : a = b
      BY <1>1, <2>1, RegistryAssumption DEF Resolution
    <3>2. (CHOOSE m \in DOMAIN accounts : TRUE) \in DOMAIN accounts
      BY <3>1
    <3> QED  BY <1>1, <2>1, <3>1, <3>2 DEF Resolve
  <2>2. CASE n # NoName
    <3>1. n \in Names /\ Trimmed[n] \in DOMAIN accounts
      BY <1>1, <2>2, RegistryAssumption DEF Resolution
    <3> QED  BY <1>1, <2>2, <3>1 DEF Resolve
  <2> QED  BY <2>1, <2>2
<1>3. PICK m \in DOMAIN accounts :
         /\ account[t] = accounts[m]
         /\ n # NoName => m = Trimmed[n]
         /\ n = NoName => DOMAIN accounts = {m}
  BY <1>2
<1>4. loaded = Len(manifest) /\ loaded \in Nat
  BY <1>1, <1>3 DEF Loaded
<1>5. PICK i \in 1 .. loaded :
         /\ Trimmed[manifest[i].name] = m
         /\ accounts[m] = [name |-> m, key |-> manifest[i].key, metric |-> manifest[i].metric]
         /\ \A j \in i + 1 .. loaded : Trimmed[manifest[j].name] # m
  BY DEF Loaded, TableOfManifest
<1>6. \A j \in same : Trimmed[manifest[j].name] = m
  BY <1>3, <1>4 DEF Loaded
<1>7. i \in same /\ account[t].key = manifest[i].key
  BY <1>3, <1>4, <1>5
<1>8. \A j \in same : j <= i
  BY <1>4, <1>5, <1>6
<1> QED  BY <1>6, <1>7, <1>8

\* Whatever the manifest holds and callers send, Klaviyo is asked with the key of
\* the account named, or of the only one (registry.py:60-66).
THEOREM CallsOwnAccount == FrontendsSpec => []OwnAccount
<1>1. FrontendsSpec => []Routed
  BY RoutedInit, RoutedStep, PTL DEF FrontendsSpec
<1> QED  BY <1>1, LoadedAlways, RoutedOwnAccount, PTL

-----------------------------------------------------------------------------
(* What became of a request.                                               *)

\* A call is in one place: with the front end, in the service, or answered; and
\* what is asked of Klaviyo is what the request translates to.
Placed ==
    /\ DOMAIN call = Threads /\ DOMAIN reply = Threads
    /\ DOMAIN tool = Threads /\ DOMAIN code = Threads
    /\ stage \in [Threads -> {"idle", "sent", "called", "replied"}]
    /\ \A t \in Threads :
          /\ stage[t] \in {"idle", "sent"} => pc[t] = "idle" /\ reply[t] = "NONE"
          /\ stage[t] = "called" => pc[t] # "idle" /\ reply[t] = "NONE"
          /\ stage[t] = "replied" => reply[t] # "NONE"
          /\ pc[t] = "answered" => code[t] # "NONE"
          /\ pc[t] \in {"listing", "looking"} =>
                /\ call[t] = Coerced(request[t])
                /\ tool[t] = Sweeps(Coerced(request[t]), request[t])

\* A step of the service moves the caller's own call, to an answer at most.
LEMMA WorksForward ==
    ASSUME DOMAIN pc = Threads, DOMAIN code = Threads, NEW t \in Threads, Works(t)
    PROVE  /\ pc[t] \in {"listing", "looking"} /\ tool' = tool
           /\ pc'[t] \in {"listing", "looking", "answered"} /\ DOMAIN code' = Threads
           /\ pc'[t] = "answered" => code'[t] \in {"OK", "INTERNAL_ERROR"} \cup Failures
           /\ \A u \in Threads \ {t} : pc'[u] = pc[u] /\ code'[u] = code[u]
<1>1. CASE \E rs \in Listings : Listed(t, rs)
  BY <1>1 DEF Listed
<1>2. CASE \E k \in Keys(t) : Found(t, k) \/ Lacks(t, k)
  BY <1>2 DEF Found, Lacks, Note
<1>3. CASE \E c \in Failures : ListingFails(t, c)
  BY <1>3 DEF ListingFails, Finish
<1>4. CASE Raises(t) \/ Answer(t)
  BY <1>4 DEF Raises, Inside, Answer, Finish
<1> QED  BY <1>1, <1>2, <1>3, <1>4 DEF Works

LEMMA TurnedNotNone == \A r : Turned(r) # "NONE"
  BY DEF Turned, McpRejects, Barred, RestRejects

LEMMA PlacedInit == FrontendsInit => Placed
  BY DEF FrontendsInit, EnrichInit, Placed

LEMMA PlacedStep == Routed /\ Placed /\ [FrontendsNext]_frontends => Placed'
<1> SUFFICES ASSUME Routed, Placed, [FrontendsNext]_frontends PROVE Placed'
  OBVIOUS
<1>1. CASE UNCHANGED frontends \/ Over \/ StartUp
  <2>1. UNCHANGED <<pc, tool, code, calls>>
    BY <1>1 DEF Over, StartUp, frontends, vars
  <2> QED  BY <2>1 DEF Placed, calls
<1>2. ASSUME NEW t \in Threads, NEW r \in Requests, Send(t, r) PROVE Placed'
  <2>1. /\ UNCHANGED <<pc, tool, code, call, reply>> /\ stage[t] = "idle"
        /\ stage' = [stage EXCEPT ![t] = "sent"] /\ request' = [request EXCEPT ![t] = r]
    BY <1>2 DEF Send, vars
  <2> QED  BY <2>1 DEF Placed, Routed
<1>3. ASSUME NEW t \in Threads, NEW c, c # "NONE", Replied(t, c), stage[t] \in {"sent", "called"},
             UNCHANGED <<vars, request, call>>
      PROVE Placed'
  <2>1. UNCHANGED <<pc, tool, code, request, call>>
    BY <1>3 DEF vars
  <2>2. /\ stage' = [stage EXCEPT ![t] = "replied"] /\ reply' = [reply EXCEPT ![t] = c]
    BY <1>3 DEF Replied
  <2> QED  BY <1>3, <2>1, <2>2 DEF Placed
<1>4. ASSUME NEW t \in Threads, TurnAway(t) PROVE Placed'
  BY <1>3, <1>4, TurnedNotNone DEF TurnAway
<1>5. ASSUME NEW t \in Threads, Reply(t) PROVE Placed'
  <2>1. code[t] # "NONE"  BY <1>5 DEF Reply, Placed
  <2> QED  BY <1>3, <1>5, <2>1 DEF Reply
<1>6. ASSUME NEW t \in Threads, CallService(t) PROVE Placed'
  <2>1. /\ UNCHANGED <<request, reply>> /\ stage[t] = "sent"
        /\ stage' = [stage EXCEPT ![t] = "called"]
        /\ call' = [call EXCEPT ![t] = Coerced(request[t])]
    BY <1>6 DEF CallService, Called
  <2>2. CASE ServiceRejects(request[t]) = "OK"
    <3>1. /\ pc' = [pc EXCEPT ![t] = "listing"] /\ code' = code
          /\ tool' = [tool EXCEPT ![t] = Sweeps(Coerced(request[t]), request[t])]
      BY <1>6, <2>2 DEF CallService, Accept
    <3> QED  BY <2>1, <3>1 DEF Placed, Routed
  <2>3. CASE ServiceRejects(request[t]) # "OK"
    <3>1. /\ pc' = [pc EXCEPT ![t] = "answered"] /\ tool' = tool
          /\ code' = [code EXCEPT ![t] = ServiceRejects(request[t])]
      BY <1>6, <2>3 DEF CallService, Refuse, Finish
    <3>2. ServiceRejects(request[t]) # "NONE"
      BY <2>3, RejectsInRefusals, EnrichAssumption
    <3> QED  BY <2>1, <3>1, <3>2 DEF Placed, Routed
  <2> QED  BY <2>2, <2>3
<1>7. ASSUME NEW t \in Threads, ServiceWorks(t) PROVE Placed'
  <2>1. Works(t) /\ UNCHANGED calls /\ stage[t] = "called"
    BY <1>7 DEF ServiceWorks
  <2>2. /\ pc[t] \in {"listing", "looking"} /\ tool' = tool
        /\ pc'[t] \in {"listing", "looking", "answered"} /\ DOMAIN code' = Threads
        /\ pc'[t] = "answered" => code'[t] \in {"OK", "INTERNAL_ERROR"} \cup Failures
        /\ \A u \in Threads \ {t} : pc'[u] = pc[u] /\ code'[u] = code[u]
    BY <2>1, WorksForward DEF Placed, Routed
  <2>3. "NONE" \notin {"OK", "INTERNAL_ERROR"} \cup Failures
    BY EnrichAssumption
  <2> QED  BY <2>1, <2>2, <2>3 DEF Placed, calls
<1> QED  BY <1>1, <1>2, <1>4, <1>5, <1>6, <1>7 DEF FrontendsNext

LEMMA PlacedAlways == FrontendsSpec => [](Routed /\ Placed)
<1>1. FrontendsInit => Routed /\ Placed  BY RoutedInit, PlacedInit
<1>2. Routed /\ Placed /\ [FrontendsNext]_frontends => (Routed /\ Placed)'
  BY RoutedStep, PlacedStep
<1> QED  BY <1>1, <1>2, PTL DEF FrontendsSpec

\* Every call is in one place, and its state there is well-typed.
THEOREM FrontendsTyped == FrontendsSpec => []TypeOK
<1>1. EnrichTypeOK /\ Loaded /\ Routed /\ Placed => TypeOK
  BY DEF TypeOK, Loaded, Routed, Placed
<1> QED  BY <1>1, FrontendsAreEnrich, EnrichTyped, LoadedAlways, PlacedAlways, PTL

\* Whatever front end a request comes in by, what it asks for is what documented
\* arguments mean (README.md:70, TRD.md:52).
THEOREM CallsAlike == FrontendsSpec => []SameCall
<1>1. ASSUME Placed, NEW t \in Threads, pc[t] \in {"listing", "looking"}, Documented(request[t])
      PROVE  LET r == request[t]
                 c == call[t]
             IN  /\ r.op \in OptionOps =>
                       (tool[t] # "plain"
                           <=> On(r.option) /\ ~(r.op = "flow_report" /\ On(r.rollup)))
                 /\ r.op = "flows" =>
                       /\ c.option = "absent" <=> r.option = "absent"
                       /\ On(c.option) <=> On(r.option)
  <2> DEFINE r == request[t]
  <2>1. call[t] = Coerced(r) /\ tool[t] = Sweeps(call[t], r)
    BY <1>1 DEF Placed
  <2>2. \A v : v # "text" => (Truthy(v) = "true" <=> On(v)) /\ Truthy(v) \in {"true", "false"}
    BY DEF Truthy, On
  <2>3. r.option # "text" /\ r.rollup # "text"
    BY <1>1 DEF Documented
  <2>4. ASSUME r.op \in OptionOps
        PROVE  tool[t] # "plain" <=> On(r.option) /\ ~(r.op = "flow_report" /\ On(r.rollup))
    <3>1. /\ call[t].op = r.op /\ r.op \in {"campaigns", "flow_report"}
          /\ call[t].option = Truthy(r.option) /\ call[t].rollup = Truthy(r.rollup)
      BY <2>1, <2>4 DEF Coerced, OptionOps
    <3>2. CASE r.op = "campaigns"
      BY <2>1, <2>2, <2>3, <3>1, <3>2 DEF Sweeps
    <3>3. CASE r.op = "flow_report"
      BY <2>1, <2>2, <2>3, <3>1, <3>3 DEF Sweeps
    <3> QED  BY <3>1, <3>2, <3>3
  <2>5. ASSUME r.op = "flows"
        PROVE  (call[t].option = "absent" <=> r.option = "absent") /\ (On(call[t].option) <=> On(r.option))
    <3>1. CASE r.option = "absent"
      <4>1. call[t].option = "absent"
        BY <2>1, <2>5, <3>1 DEF Coerced, OptionOps
      <4> QED  BY <3>1, <4>1
    <3>2. CASE r.option # "absent"
      <4>1. call[t].option = Truthy(r.option)
        BY <2>1, <2>5, <3>2 DEF Coerced, OptionOps
      <4> QED  BY <2>2, <2>3, <3>2, <4>1 DEF On
    <3> QED  BY <3>1, <3>2
  <2> QED  BY <2>4, <2>5
<1>2. Placed => SameCall  BY <1>1 DEF SameCall
<1> QED  BY <1>2, PlacedAlways, PTL

-----------------------------------------------------------------------------
(* One worker, one call.                                                   *)

Cause(r) == r.op = "unknown" \/ r.account = NotText \/ Presented(r) = NotAscii

\* A sync worker is inside the service for one caller at a time, so that nobody can
\* be lost to a collision.
Alone ==
    deployment = "gunicorn" =>
        /\ \A t, u \in Threads : stage[t] = "called" /\ stage[u] = "called" => t = u
        /\ \A t \in Threads :
              /\ stage[t] = "called" /\ pc[t] = "answered" /\ code[t] = "INTERNAL_ERROR"
                    => Cause(request[t])
              /\ reply[t] = "INTERNAL_ERROR" => Cause(request[t])

LEMMA AloneInit == FrontendsInit => Alone
  BY DEF FrontendsInit, EnrichInit, Alone

LEMMA RefusedWithCause == \A r : ServiceRejects(r) = "INTERNAL_ERROR" => Cause(r)
  BY DEF ServiceRejects, Resolution, Cause

LEMMA TurnedWithCause ==
    deployment = "gunicorn" => \A r : Turned(r) = "INTERNAL_ERROR" => Cause(r)
  BY DEF Turned, Barred, RestRejects, Cause

LEMMA AloneStep == Routed /\ Placed /\ Alone /\ [FrontendsNext]_frontends => Alone'
<1> SUFFICES ASSUME Routed, Placed, Alone, [FrontendsNext]_frontends, deployment' = "gunicorn"
             PROVE  /\ \A t, u \in Threads : stage'[t] = "called" /\ stage'[u] = "called" => t = u
                    /\ \A t \in Threads :
                          /\ stage'[t] = "called" /\ pc'[t] = "answered" /\ code'[t] = "INTERNAL_ERROR"
                                => Cause(request[t])'
                          /\ reply'[t] = "INTERNAL_ERROR" => Cause(request[t])'
  BY DEF Alone
<1> DEFINE One == \A t, u \in Threads : stage'[t] = "called" /\ stage'[u] = "called" => t = u
           Caused == \A t \in Threads :
                          /\ stage'[t] = "called" /\ pc'[t] = "answered" /\ code'[t] = "INTERNAL_ERROR"
                                => Cause(request[t])'
                          /\ reply'[t] = "INTERNAL_ERROR" => Cause(request[t])'
<1>0. deployment = "gunicorn"
  BY DEF FrontendsNext, frontends, StartUp, Send, TurnAway, CallService, ServiceWorks, Reply, Over
<1>1. CASE UNCHANGED frontends \/ Over \/ StartUp
  <2>1. UNCHANGED <<pc, code, stage, request, reply>>
    BY <1>1 DEF Over, StartUp, frontends, vars, calls
  <2> QED  BY <1>0, <2>1 DEF Alone, Cause, Presented
<1>2. ASSUME NEW t \in Threads, NEW r \in Requests, Send(t, r) PROVE One /\ Caused
  <2>1. /\ UNCHANGED <<pc, code, reply>> /\ stage[t] = "idle" /\ reply[t] = "NONE"
        /\ stage' = [stage EXCEPT ![t] = "sent"] /\ request' = [request EXCEPT ![t] = r]
    BY <1>2 DEF Send, vars, Placed
  <2>2. One  BY <1>0, <2>1 DEF Alone, Placed
  <2>3. Caused  BY <1>0, <2>1 DEF Alone, Placed, Routed, Cause, Presented
  <2> QED  BY <2>2, <2>3
<1>3. ASSUME NEW t \in Threads, TurnAway(t) PROVE One /\ Caused
  <2>1. /\ UNCHANGED <<pc, code, request>> /\ stage[t] = "sent"
        /\ stage' = [stage EXCEPT ![t] = "replied"]
        /\ reply' = [reply EXCEPT ![t] = Turned(request[t])]
    BY <1>3 DEF TurnAway, Replied, vars
  <2>2. One  BY <1>0, <2>1 DEF Alone, Placed
  <2>3. Caused
    BY <1>0, <2>1, TurnedWithCause DEF Alone, Placed, Cause, Presented
  <2> QED  BY <2>2, <2>3
<1>4. ASSUME NEW t \in Threads, Reply(t) PROVE One /\ Caused
  <2>1. /\ UNCHANGED <<pc, code, request>> /\ stage[t] = "called" /\ pc[t] = "answered"
        /\ stage' = [stage EXCEPT ![t] = "replied"]
        /\ reply' = [reply EXCEPT ![t] = code[t]]
    BY <1>4 DEF Reply, Replied, vars
  <2>2. One  BY <1>0, <2>1 DEF Alone, Placed
  <2>3. Caused
    BY <1>0, <2>1 DEF Alone, Placed, Cause, Presented
  <2> QED  BY <2>2, <2>3
<1>5. ASSUME NEW t \in Threads, CallService(t) PROVE One /\ Caused
  <2>1. /\ UNCHANGED <<request, reply>> /\ stage[t] = "sent"
        /\ stage' = [stage EXCEPT ![t] = "called"]
        /\ \A u \in Threads : stage[u] # "called"
    BY <1>0, <1>5 DEF CallService, Called, Free
  <2>2. One  BY <2>1 DEF Placed
  <2>3. CASE ServiceRejects(request[t]) = "OK"
    <3>1. pc' = [pc EXCEPT ![t] = "listing"] /\ code' = code
      BY <1>5, <2>3 DEF CallService, Accept
    <3>2. Caused  BY <1>0, <2>1, <3>1 DEF Alone, Placed, Routed, Cause, Presented
    <3> QED  BY <2>2, <3>2
  <2>4. CASE ServiceRejects(request[t]) # "OK"
    <3>1. code' = [code EXCEPT ![t] = ServiceRejects(request[t])]
      BY <1>5, <2>4 DEF CallService, Refuse, Finish
    <3>2. Caused
      BY <1>0, <2>1, <3>1, RefusedWithCause DEF Alone, Placed, Cause, Presented
    <3> QED  BY <2>2, <3>2
  <2> QED  BY <2>3, <2>4
<1>6. ASSUME NEW t \in Threads, ServiceWorks(t) PROVE One /\ Caused
  <2>1. Works(t) /\ UNCHANGED <<stage, request, reply>> /\ stage[t] = "called"
    BY <1>6 DEF ServiceWorks, calls
  <2>2. One  BY <1>0, <2>1 DEF Alone
  <2>3. \A u \in Threads \ {t} : stage[u] # "called" /\ pc[u] \notin {"listing", "looking"}
    BY <1>0, <2>1 DEF Alone, Routed
  <2>4. ~Raises(t)
    BY <2>3 DEF Raises, Inside
  <2>5. pc'[t] = "answered" => code'[t] # "INTERNAL_ERROR"
    <3>1. CASE \E rs \in Listings : Listed(t, rs)
      BY <3>1 DEF Listed, Routed
    <3>2. CASE \E k \in Keys(t) : Found(t, k) \/ Lacks(t, k)
      BY <3>2 DEF Found, Lacks, Note
    <3>3. CASE \E c \in Failures : ListingFails(t, c)
      BY <3>3, ServiceAssumption DEF ListingFails, Finish, Placed
    <3>4. CASE Answer(t)
      BY <3>4 DEF Answer, Finish, Placed
    <3> QED  BY <2>1, <2>4, <3>1, <3>2, <3>3, <3>4 DEF Works
  <2>6. Caused
    BY <1>0, <2>1, <2>3, <2>5 DEF Alone, Cause, Presented
  <2> QED  BY <2>2, <2>6
<1> QED  BY <1>1, <1>2, <1>3, <1>4, <1>5, <1>6 DEF FrontendsNext

\* Under the sync workers of the Dockerfile no call is lost to another one.
THEOREM WorkersDoNotCollide == FrontendsSpec => []OneAtATime
<1>1. Routed /\ Placed /\ Alone => OneAtATime
  BY DEF Alone, OneAtATime, Cause
<1>2. Routed /\ Placed /\ Alone /\ [FrontendsNext]_frontends => (Routed /\ Placed /\ Alone)'
  BY RoutedStep, PlacedStep, AloneStep
<1>3. FrontendsInit => Routed /\ Placed /\ Alone
  BY RoutedInit, PlacedInit, AloneInit
<1> QED  BY <1>1, <1>2, <1>3, PTL DEF FrontendsSpec
=============================================================================

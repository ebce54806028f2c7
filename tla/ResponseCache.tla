--------------------------- MODULE ResponseCache ---------------------------
(***************************************************************************)
(* What KlaviyoClient may rely on when it calls a response cache           *)
(* (klaviyo_analytics/cache.py, class ResponseCache).  A set asks the      *)
(* cache to keep its own value under its own key, for at most TTL.  A get  *)
(* answers with a miss, or with the value kept under the key it asked for, *)
(* which was still live when the cache looked at the clock.  The cache may *)
(* let go of any entry at any time, or ignore a set, but it never makes an *)
(* entry of its own.  A call may also fail: that is no part of the         *)
(* protocol's docstring, but TTLCache does it when threads collide, so the *)
(* contract a client can count on has to say so.                           *)
(***************************************************************************)
EXTENDS Naturals

CONSTANTS Threads, Keys, Values, TTL, MaxTime, Nothing

VARIABLES
    now,      \* the monotonic clock
    held,     \* held[k]: the entry kept for k, or Nothing
    asked,    \* asked[t]: the key of the call t is in, or made last
    phase,    \* phase[t]: how far that call has come
    pick,     \* pick[t]: the entry a get has found, or a set brings
    reply     \* reply[t]: how the call ended

vars == <<now, held, asked, phase, pick, reply>>

Init ==
    /\ now = 0
    /\ held = [k \in Keys |-> Nothing]
    /\ asked = [t \in Threads |-> Nothing]
    /\ phase = [t \in Threads |-> "idle"]
    /\ pick = [t \in Threads |-> Nothing]
    /\ reply = [t \in Threads |-> "none"]

\* An implementation may forget whatever it wants.
LetGo == \E kept \in SUBSET Keys :
            held' = [k \in Keys |-> IF k \in kept THEN held[k] ELSE Nothing]

Tick == now < MaxTime /\ now' = now + 1 /\ UNCHANGED <<held, asked, phase, pick, reply>>

Trim == LetGo /\ UNCHANGED <<now, asked, phase, pick, reply>>

Ask(t, k) == phase[t] = "idle" /\ asked' = [asked EXCEPT ![t] = k]

Begin(t, step, e) ==
    /\ phase' = [phase EXCEPT ![t] = step]
    /\ pick' = [pick EXCEPT ![t] = e]
    /\ reply' = [reply EXCEPT ![t] = "none"]

End(t, how) ==
    /\ phase' = [phase EXCEPT ![t] = "idle"]
    /\ pick' = [pick EXCEPT ![t] = Nothing]
    /\ reply' = [reply EXCEPT ![t] = how]

\* get: what it finds is the entry of the key it asked for, or it misses.
Look(t, k) ==
    /\ Ask(t, k)
    /\ \/ held[k] # Nothing /\ Begin(t, "looking", held[k])
       \/ End(t, "miss")
    /\ UNCHANGED <<now, held>>

\* Only an entry that is live now may be served.
Approve(t) ==
    /\ phase[t] = "looking"
    /\ now < pick[t].expires
    /\ phase' = [phase EXCEPT ![t] = "serving"]
    /\ UNCHANGED <<now, held, asked, pick, reply>>

Serve(t) == phase[t] = "serving" /\ End(t, pick[t].value) /\ UNCHANGED <<now, held, asked>>

Miss(t) == phase[t] = "looking" /\ End(t, "miss") /\ LetGo /\ UNCHANGED <<now, asked>>

\* set: an entry with the value of this call, to be stored under its key.
Bring(t, k, v) ==
    /\ Ask(t, k)
    /\ \E life \in 0 .. TTL : Begin(t, "storing", [expires |-> now + life, value |-> v])
    /\ UNCHANGED <<now, held>>

Put(t) ==
    /\ phase[t] = "storing"
    /\ held' = [held EXCEPT ![asked[t]] = pick[t]]
    /\ phase' = [phase EXCEPT ![t] = "stored"]
    /\ pick' = [pick EXCEPT ![t] = Nothing]
    /\ UNCHANGED <<now, asked, reply>>

Ack(t) ==
    /\ phase[t] \in {"storing", "stored"}
    /\ End(t, "stored") /\ UNCHANGED <<now, held, asked>>

Fail(t) == phase[t] # "idle" /\ End(t, "raised") /\ UNCHANGED <<now, held, asked>>

Next ==
    \/ Tick
    \/ Trim
    \/ \E t \in Threads :
          \/ \E k \in Keys : Look(t, k) \/ \E v \in Values : Bring(t, k, v)
          \/ Approve(t) \/ Serve(t) \/ Miss(t) \/ Put(t) \/ Ack(t) \/ Fail(t)

Spec == Init /\ [][Next]_vars
=============================================================================

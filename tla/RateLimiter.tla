----------------------------- MODULE RateLimiter -----------------------------
(***************************************************************************)
(* The rate limiter in front of login, signup, the resets and the public   *)
(* pages (core/auth.py, RateLimiter): per key, the calls allowed in the    *)
(* last Window are kept and counted.  allow() holds a lock throughout, so  *)
(* each call is one step.                                                  *)
(***************************************************************************)
EXTENDS Integers, FiniteSets

CONSTANTS
    Keys,          \* pairs of a client address and a bucket
    MaxRequests,   \* max_requests
    Window,        \* window_seconds
    MaxKeys,       \* the keys kept before a cleanup: 10_000 in the code
    MaxTime,       \* bound of the clock
    MaxCalls       \* bound of the calls

ASSUME RateLimiterConstants ==
    /\ MaxRequests \in Nat
    /\ Window \in Nat \ {0}
    /\ MaxKeys \in Nat
    /\ MaxTime \in Nat
    /\ MaxCalls \in Nat

VARIABLES
    now,           \* time.monotonic()
    hits,          \* self._hits: for each key kept, the calls that count
    calls          \* history: every call and its answer

limiterVars == <<now, hits, calls>>

-----------------------------------------------------------------------------

Call == [id : 1..MaxCalls, key : Keys, at : 0..MaxTime, allowed : BOOLEAN]

LimiterTypeOK ==
    /\ now \in 0..MaxTime
    /\ calls \subseteq Call
    /\ DOMAIN hits \subseteq Keys
    /\ \A k \in DOMAIN hits : hits[k] \subseteq calls

LimiterInit ==
    /\ now = 0
    /\ hits = [k \in {} |-> {}]
    /\ calls = {}

InWindow(c) == now - c.at < Window

\* window: what is left of the key's list.
Recent(k) == IF k \in DOMAIN hits THEN {c \in hits[k] : InWindow(c)} ELSE {}

Put(k, window) ==
    [x \in DOMAIN hits \cup {k} |-> IF x = k THEN window ELSE hits[x]]

\* Mutant: the cleanup empties the table.
SweptClean(h) == IF Cardinality(DOMAIN h) > MaxKeys THEN [x \in {} |-> {}] ELSE h

\* The opportunistic cleanup: keys with nothing in the window go.
Swept(h) ==
    IF Cardinality(DOMAIN h) > MaxKeys
    THEN [x \in {y \in DOMAIN h : \E c \in h[y] : InWindow(c)} |-> h[x]]
    ELSE h

\* The record of this call, numbered after the calls before it.
NewCall(k, allowed) ==
    [id |-> Cardinality(calls) + 1, key |-> k, at |-> now, allowed |-> allowed]

Admit(k) ==
    /\ Cardinality(calls) < MaxCalls
    /\ Cardinality(Recent(k)) < MaxRequests
    /\ LET c == NewCall(k, TRUE)
       IN  /\ hits' = Swept(Put(k, Recent(k) \cup {c}))
           /\ calls' = calls \cup {c}
    /\ UNCHANGED now

\* Mutant: a refused call counts.
RefuseRecorded(k) ==
    /\ Cardinality(calls) < MaxCalls
    /\ Cardinality(Recent(k)) >= MaxRequests
    /\ LET c == NewCall(k, FALSE)
       IN  /\ hits' = Put(k, Recent(k) \cup {c})
           /\ calls' = calls \cup {c}
    /\ UNCHANGED now

\* A refused call does not count: the pruned list is stored without it.
Refuse(k) ==
    /\ Cardinality(calls) < MaxCalls
    /\ Cardinality(Recent(k)) >= MaxRequests
    /\ hits' = Put(k, Recent(k))
    /\ calls' = calls \cup {NewCall(k, FALSE)}
    /\ UNCHANGED now

Tick ==
    /\ now < MaxTime
    /\ now' = now + 1
    /\ UNCHANGED <<hits, calls>>

LimiterNext ==
    \/ \E k \in Keys : Admit(k) \/ Refuse(k)
    \/ Tick

LimiterSpec == LimiterInit /\ [][LimiterNext]_limiterVars

-----------------------------------------------------------------------------

\* The reference: the calls of key k allowed in the window that ends at t.
Admitted(k, t) ==
    {c \in calls : c.key = k /\ c.allowed /\ c.at <= t /\ t - c.at < Window}

\* No window, wherever it is laid, holds more allowed calls of a key than
\* MaxRequests, whatever the pruning and the cleanup have thrown away.
WindowsAreLimited ==
    \A k \in Keys, t \in 0..now : Cardinality(Admitted(k, t)) <= MaxRequests

\* A refused call found the window of its own key full of allowed calls: other
\* keys, refused calls and calls that have aged out never turn one away.
RefusalsAreEarned ==
    \A c \in calls :
        ~c.allowed => Cardinality(Admitted(c.key, c.at)) = MaxRequests

\* The limiter refuses a call exactly when the window before it is full
\* (RateLimiter.allow).
RefusesExactlyWhenFull == WindowsAreLimited /\ RefusalsAreEarned

=============================================================================

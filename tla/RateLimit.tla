------------------------------ MODULE RateLimit ------------------------------
(***************************************************************************)
(* The sliding-window rate limiter in front of every route                 *)
(* (api/middleware/rate_limit.py).  Its dispatch awaits nothing between    *)
(* the first look at a client's window and the append, so a request is one *)
(* step of the event loop.                                                 *)
(***************************************************************************)
EXTENDS Integers, Sequences, FiniteSets, FiniteSetsExt

CONSTANTS
    Clients,        \* client addresses
    max_requests,   \* 100 in main.py
    window_seconds, \* 60 in main.py
    MaxTime         \* bound on the clock

ASSUME LimiterAssumption ==
    /\ max_requests \in Nat \ {0}
    /\ window_seconds \in Nat
    /\ MaxTime \in Nat

VARIABLES
    now,        \* time.monotonic()
    hits,       \* the deque of each client
    admitted,   \* history: the times of all requests let through
    response    \* history: the last request's client, time and status

limiterVars == <<now, hits, admitted, response>>

NoResponse == [status |-> 0]

LimiterInit ==
    /\ now = 0
    /\ hits = [c \in Clients |-> <<>>]
    /\ admitted = [c \in Clients |-> <<>>]
    /\ response = NoResponse

\* Variant: a hit exactly window_seconds old is dropped.
PruneEarly(window) ==
    LET young == {i \in DOMAIN window : now - window[i] < window_seconds}
    IN  SubSeq(window, Min(young \cup {Len(window) + 1}), Len(window))

\* The window without its leading old hits: popleft stops at the first that is
\* not old.
Prune(window) ==
    LET young == {i \in DOMAIN window : now - window[i] <= window_seconds}
    IN  SubSeq(window, Min(young \cup {Len(window) + 1}), Len(window))

Admit(c) ==
    /\ Len(Prune(hits[c])) < max_requests
    /\ hits' = [hits EXCEPT ![c] = Append(Prune(@), now)]
    /\ admitted' = [admitted EXCEPT ![c] = Append(@, now)]
    /\ response' = [status |-> 200, client |-> c, time |-> now]
    /\ UNCHANGED now

\* Variant: a refused request counts as well, in place of the oldest.
RefuseAndCount(c) ==
    /\ Len(Prune(hits[c])) >= max_requests
    /\ hits' = [hits EXCEPT ![c] = Append(Tail(Prune(@)), now)]
    /\ response' = [status |-> 429, client |-> c, time |-> now]
    /\ UNCHANGED <<now, admitted>>

Refuse(c) ==
    /\ Len(Prune(hits[c])) >= max_requests
    /\ hits' = [hits EXCEPT ![c] = Prune(@)]
    /\ response' = [status |-> 429, client |-> c, time |-> now]
    /\ UNCHANGED <<now, admitted>>

Tick ==
    /\ now < MaxTime
    /\ now' = now + 1
    /\ UNCHANGED <<hits, admitted, response>>

LimiterNext == Tick \/ \E c \in Clients : Admit(c) \/ Refuse(c)

LimiterSpec == LimiterInit /\ [][LimiterNext]_limiterVars

-----------------------------------------------------------------------------
(* Properties.                                                             *)

Between(times, from, to) ==
    {i \in DOMAIN times : from <= times[i] /\ times[i] <= to}

LimiterTypeOK ==
    /\ now \in 0..MaxTime
    /\ hits \in [Clients -> Seq(0..MaxTime)]
    /\ admitted \in [Clients -> Seq(0..MaxTime)]
    /\ response \in {NoResponse}
         \cup [status : {200, 429}, client : Clients, time : 0..MaxTime]
    /\ \A c \in Clients : Len(hits[c]) <= max_requests

\* In every interval of window_seconds, both ends included and wherever it
\* begins, at most max_requests requests of a client get through, although the
\* deque forgets and the window slides (rate_limit.py:28-37).
WindowIsBounded ==
    \A c \in Clients, t \in 0..now :
        Cardinality(Between(admitted[c], t, t + window_seconds)) <= max_requests

\* A client is refused only for requests that got through: max_requests of them
\* in the last window_seconds.  Refused requests do not count, nor do those of
\* other clients, so insisting never locks a client out (rate_limit.py:31-37).
RefusedOnlyWhenFull ==
    response.status = 429 =>
        LET c == response.client
        IN  Cardinality(Between(admitted[c], response.time - window_seconds,
                                response.time)) = max_requests
=============================================================================

--------------------------- MODULE SlidingWindow ---------------------------
(* The clock, and the deques of timestamps src/src/pychat/server.py counts  *)
(* with: the rate limit of a client and the failed authentications of an    *)
(* address.                                                                 *)
EXTENDS Integers, Sequences

CONSTANT Horizon  \* the last instant (a bound for TLC)

VARIABLE now      \* time.monotonic()

Passes == now < Horizon /\ now' = now + 1

\* Mutant of Stale: an entry leaves when it is exactly `width` old.
StaleEarly(t, width, time) == time - t >= width

\* time - entry > width, the condition both while loops pop under.
Stale(t, width, time) == time - t > width

\* Mutant of Popped: the loop that pops is missing.
PoppedNone(s, k, width, time) == k = 0

\* The while loop pops exactly the first k entries of s.
Popped(s, k, width, time) ==
    /\ k \in 0..Len(s)
    /\ \A i \in 1..k : Stale(s[i], width, time)
    /\ k < Len(s) => ~Stale(s[k + 1], width, time)

\* What is left of s then.
Kept(s, k) == SubSeq(s, k + 1, Len(s))

-----------------------------------------------------------------------------
\* For stating invariants about a deque s and the history h it is taken from:
\* s is the end of h, and everything before that end is stale.
EndOf(s, h) ==
    /\ Len(s) <= Len(h)
    /\ \A i \in 1..Len(s) : s[i] = h[Len(h) - Len(s) + i]

RestStale(s, h, width, time) ==
    \A i \in 1..(Len(h) - Len(s)) : Stale(h[i], width, time)
=============================================================================

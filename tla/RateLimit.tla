----------------------------- MODULE RateLimit -----------------------------
(* Client.rate_limited() (src/src/pychat/server.py): a client's messages   *)
(* against a sliding window.                                               *)
EXTENDS SlidingWindow

CONSTANTS
    Messages,   \* RATE_LIMIT_MESSAGES
    RateWidth   \* RATE_LIMIT_WINDOW

ASSUME RateAssumption == Messages \in Nat \ {0} /\ RateWidth \in Nat /\ Horizon \in Nat

VARIABLES
    sentAt,    \* Client.sent_at
    accepted,  \* history: when each message that was relayed came
    limited    \* what the latest call returned, until the clock moves

rateVars == <<now, sentAt, accepted, limited>>

RateTypeOK ==
    /\ now \in Nat
    /\ sentAt \in Seq(Nat) /\ Len(sentAt) <= Messages
    /\ accepted \in Seq(Nat)
    /\ limited \in BOOLEAN

RateInit == now = 0 /\ sentAt = <<>> /\ accepted = <<>> /\ limited = FALSE

RateTick ==
    /\ Passes
    /\ limited' = FALSE
    /\ UNCHANGED <<sentAt, accepted>>

\* rate_limited(now): expire, then refuse or record.
RateLimited ==
    \E k \in 0..Len(sentAt) :
        /\ Popped(sentAt, k, RateWidth, now)
        /\ \/ /\ Len(Kept(sentAt, k)) >= Messages
              /\ sentAt' = Kept(sentAt, k)
              /\ limited' = TRUE
              /\ UNCHANGED accepted
           \/ /\ Len(Kept(sentAt, k)) < Messages
              /\ sentAt' = Append(Kept(sentAt, k), now)
              /\ accepted' = Append(accepted, now)
              /\ limited' = FALSE
        /\ UNCHANGED now

RateNext == RateTick \/ RateLimited

RateSpec == RateInit /\ [][RateNext]_rateVars

-----------------------------------------------------------------------------
\* Of any Messages + 1 relayed messages in a row, the first and the last are
\* more than the window apart.
RateHolds ==
    \A i \in 1..Len(accepted) : \A j \in 1..Len(accepted) :
        j >= i + Messages => accepted[j] - accepted[i] > RateWidth

\* A message is refused only when the room has relayed Messages of this client's
\* within the window: refusals themselves do not prolong the silence.
LimitedJustly ==
    limited =>
        /\ Len(accepted) >= Messages
        /\ now - accepted[Len(accepted) - Messages + 1] <= RateWidth

\* Inductive: the deque is the end of the history, the rest of which is stale.
Window == EndOf(sentAt, accepted) /\ RestStale(sentAt, accepted, RateWidth, now)
=============================================================================

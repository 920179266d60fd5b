----------------------------- MODULE MCLimiters -----------------------------
(* The instance of Lockout and RateLimit for TLC: an address and a client,  *)
(* which share nothing but the server's clock.                              *)
EXTENDS Lockout, RateLimit

CONSTANT MaxFailed

BothInit == Init /\ RateInit

BothNext ==
    \/ Tick /\ RateTick
    \/ (Arrive \/ Refuse \/ Fail \/ Succeed \/ GiveUp) /\ UNCHANGED rateVars
    \/ RateLimited /\ UNCHANGED vars

BothSpec == BothInit /\ [][BothNext]_<<vars, rateVars>>

\* Since they share nothing else, it is enough to look at either while nothing
\* has happened to the other.
OneBusy ==
    \/ accepted = <<>>
    \/ failures = <<>> /\ lockedUntil = NotLocked /\ pending = 0 /\ failed = <<>>

\* A bound on failures in a row without a success.
FewFailed == Len(failed) <= MaxFailed
=============================================================================

------------------------------ MODULE Lockout ------------------------------
(* LockoutTracker (src/src/pychat/server.py) and the handshakes of one      *)
(* address that consult it: is_locked() when a connection arrives, and      *)
(* record_failure() or record_success() when its proof has been read, any   *)
(* number of other handshakes of the address later.  Entries of different   *)
(* addresses never meet.                                                    *)
EXTENDS SlidingWindow

CONSTANTS
    Threshold,   \* LOCKOUT_THRESHOLD
    Width,       \* LOCKOUT_WINDOW
    Duration,    \* LOCKOUT_DURATION
    MaxPending,  \* handshakes of the address in progress (a bound for TLC)
    NotLocked

ASSUME LockoutAssumption ==
    /\ Threshold \in Nat \ {0} /\ Width \in Nat /\ Duration \in Nat \ {0}
    /\ MaxPending \in Nat /\ Horizon \in Nat
    /\ NotLocked \notin Nat

VARIABLES
    failures,     \* _failures[ip]; an absent entry is the empty deque
    lockedUntil,  \* _locked_until[ip]
    pending,      \* handshakes past is_locked() whose proof is not verified yet
    failed        \* history: failed proofs since the latest success

vars == <<now, failures, lockedUntil, pending, failed>>

TypeOK ==
    /\ now \in Nat
    /\ failures \in Seq(Nat) /\ Len(failures) < Threshold
    /\ lockedUntil \in Nat \cup {NotLocked}
    /\ pending \in Nat
    /\ failed \in Seq(Nat)

Init ==
    /\ now = 0
    /\ failures = <<>>
    /\ lockedUntil = NotLocked
    /\ pending = 0
    /\ failed = <<>>

Tick ==
    /\ Passes
    /\ UNCHANGED <<failures, lockedUntil, pending, failed>>

\* Whether the address is refused now, however long ago the entry was made.
Locked == lockedUntil # NotLocked /\ now < lockedUntil

\* is_locked() is false: an entry that ran out is forgotten with its failures.
Arrive ==
    /\ ~Locked
    /\ pending < MaxPending
    /\ pending' = pending + 1
    /\ lockedUntil' = NotLocked
    /\ failures' = IF lockedUntil = NotLocked THEN failures ELSE <<>>
    /\ UNCHANGED <<now, failed>>

\* is_locked() is true: the connection is refused, nothing else changes.
Refuse == Locked /\ UNCHANGED vars

\* record_failure(): append, expire, and lock the address at the threshold,
\* also when it is locked already.
RecordFailure ==
    \E k \in 0..(Len(failures) + 1) :
        LET recent == Kept(Append(failures, now), k) IN
        /\ Popped(Append(failures, now), k, Width, now)
        /\ \/ /\ Len(recent) >= Threshold
              /\ lockedUntil' = now + Duration
              /\ failures' = <<>>
           \/ /\ Len(recent) < Threshold
              /\ failures' = recent
              /\ UNCHANGED lockedUntil

\* The proof is wrong.
Fail ==
    /\ pending > 0
    /\ pending' = pending - 1
    /\ failed' = Append(failed, now)
    /\ RecordFailure
    /\ UNCHANGED now

\* Mutant of RecordSuccess: the lockout is lifted as well.
RecordSuccessLifting ==
    /\ failures' = <<>>
    /\ lockedUntil' = NotLocked

\* record_success(): the failures are forgiven, a lockout is not.
RecordSuccess ==
    /\ failures' = <<>>
    /\ UNCHANGED lockedUntil

\* The proof is right.
Succeed ==
    /\ pending > 0
    /\ pending' = pending - 1
    /\ failed' = <<>>
    /\ RecordSuccess
    /\ UNCHANGED now

\* The connection ends, times out or sends no proof: nothing is recorded.
GiveUp ==
    /\ pending > 0
    /\ pending' = pending - 1
    /\ UNCHANGED <<now, failures, lockedUntil, failed>>

Next == Tick \/ Arrive \/ Refuse \/ Fail \/ Succeed \/ GiveUp

Spec == Init /\ [][Next]_vars

-----------------------------------------------------------------------------
\* A lockout is earned: it starts, or starts again, only on a failure that is
\* the last of Threshold failures in a row, with no success between them, all
\* within the window, and it lasts Duration from then.
LockEarned ==
    [][lockedUntil' \notin {lockedUntil, NotLocked} =>
         /\ lockedUntil' = now + Duration
         /\ Len(failed') >= Threshold
         /\ now - failed'[Len(failed') - Threshold + 1] <= Width]_vars

\* A lockout holds: whatever the handshakes that were already in progress do,
\* a success among them included, it is neither lifted nor shortened before its
\* end, and the address starts no new handshake.
LockHolds ==
    [][Locked =>
         /\ lockedUntil' # NotLocked /\ lockedUntil' >= lockedUntil
         /\ pending' <= pending]_vars

\* Inductive: the deque holds the latest failures since the latest success, and
\* no lockout reaches further than Duration from now.
Tracked ==
    /\ EndOf(failures, failed)
    /\ lockedUntil # NotLocked => lockedUntil <= now + Duration
=============================================================================

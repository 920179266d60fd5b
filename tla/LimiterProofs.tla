--------------------------- MODULE LimiterProofs ---------------------------
(* Theorems about Lockout, for every threshold, window and duration and any *)
(* number of handshakes in progress, and about RateLimit, for every limit,  *)
(* window and sequence of calls; first, lemmas about the deques of both.    *)
EXTENDS Lockout, RateLimit, TLAPS

\* The entries a pop leaves are the last ones.
LEMMA KeptEntries ==
    ASSUME NEW s \in Seq(Nat), NEW k \in 0..Len(s)
    PROVE  /\ Kept(s, k) \in Seq(Nat)
           /\ Len(Kept(s, k)) = Len(s) - k
           /\ \A i \in 1..(Len(s) - k) : Kept(s, k)[i] = s[k + i]
  BY DEF Kept

\* What appending does to a sequence of moments.
LEMMA AppendEntries ==
    ASSUME NEW s \in Seq(Nat), NEW t \in Nat
    PROVE  /\ Append(s, t) \in Seq(Nat)
           /\ Len(Append(s, t)) = Len(s) + 1
           /\ Append(s, t)[Len(s) + 1] = t
           /\ \A i \in 1..Len(s) : Append(s, t)[i] = s[i]
  OBVIOUS

\* A popped deque is still the end of its history.
LEMMA EndOfKept ==
    ASSUME NEW s \in Seq(Nat), NEW h \in Seq(Nat), NEW k \in 0..Len(s), EndOf(s, h)
    PROVE  EndOf(Kept(s, k), h)
  <1> DEFINE r == Kept(s, k)
  <1>1. r \in Seq(Nat) /\ Len(r) = Len(s) - k
    BY KeptEntries
  <1>2. ASSUME NEW i \in 1..Len(r) PROVE r[i] = h[Len(h) - Len(r) + i]
    <2>1. k + i \in 1..Len(s) /\ r[i] = s[k + i]
      BY <1>1, KeptEntries
    <2>2. s[k + i] = h[Len(h) - Len(s) + (k + i)]
      BY <2>1 DEF EndOf
    <2>3. Len(h) - Len(s) + (k + i) = Len(h) - Len(r) + i
      BY <1>1
    <2> QED
      BY <2>1, <2>2, <2>3
  <1> QED
    BY <1>1, <1>2 DEF EndOf

\* Recording a moment in both keeps the deque the end of the history.
LEMMA EndOfAppend ==
    ASSUME NEW s \in Seq(Nat), NEW h \in Seq(Nat), NEW t \in Nat, EndOf(s, h)
    PROVE  EndOf(Append(s, t), Append(h, t))
  <1> DEFINE r == Append(s, t)
             g == Append(h, t)
  <1>1. /\ Len(r) = Len(s) + 1 /\ r[Len(s) + 1] = t
        /\ Len(g) = Len(h) + 1 /\ g[Len(h) + 1] = t
        /\ \A i \in 1..Len(s) : r[i] = s[i]
        /\ \A i \in 1..Len(h) : g[i] = h[i]
    OBVIOUS
  <1> HIDE DEF r, g
  <1>2. Len(g) - Len(r) = Len(h) - Len(s) /\ Len(r) <= Len(g)
    BY <1>1 DEF EndOf
  <1>3. ASSUME NEW i \in 1..Len(s) + 1 PROVE r[i] = g[Len(h) - Len(s) + i]
    <2>1. CASE i = Len(s) + 1
      <3>1. Len(h) - Len(s) + i = Len(h) + 1
        BY <2>1
      <3> QED
        BY <1>1, <2>1, <3>1
    <2>2. CASE i \in 1..Len(s)
      <3>1. Len(h) - Len(s) + i \in 1..Len(h)
        BY <2>2 DEF EndOf
      <3> QED
        BY <1>1, <2>2, <3>1 DEF EndOf
    <2> QED
      BY <2>1, <2>2
  <1>4. EndOf(r, g)
    BY <1>1, <1>2, <1>3 DEF EndOf
  <1> QED
    BY <1>4 DEF r, g

\* What the loop pops was stale, so the rest of the history still is.
LEMMA RestStaleKept ==
    ASSUME NEW s \in Seq(Nat), NEW h \in Seq(Nat), NEW k \in 0..Len(s),
           NEW width, NEW time,
           EndOf(s, h), RestStale(s, h, width, time), Popped(s, k, width, time)
    PROVE  RestStale(Kept(s, k), h, width, time)
  <1>1. Len(Kept(s, k)) = Len(s) - k
    BY KeptEntries
  <1> SUFFICES ASSUME NEW i \in 1..(Len(h) - Len(s) + k)
               PROVE  Stale(h[i], width, time)
    BY <1>1 DEF RestStale
  <1>2. CASE i \in 1..(Len(h) - Len(s))
    BY <1>2 DEF RestStale
  <1>3. CASE i > Len(h) - Len(s)
    <2> DEFINE j == i - (Len(h) - Len(s))
    <2>1. j \in 1..k /\ j \in 1..Len(s) /\ Len(h) - Len(s) + j = i
      BY <1>3 DEF EndOf
    <2>2. s[j] = h[i]
      BY <2>1 DEF EndOf
    <2>3. Stale(s[j], width, time)
      BY <2>1 DEF Popped
    <2> QED
      BY <2>2, <2>3
  <1> QED
    BY <1>2, <1>3

\* Recording a moment in both leaves the rest as it was.
LEMMA RestStaleAppend ==
    ASSUME NEW s \in Seq(Nat), NEW h \in Seq(Nat), NEW t \in Nat, NEW width, NEW time,
           RestStale(s, h, width, time), Len(s) <= Len(h)
    PROVE  RestStale(Append(s, t), Append(h, t), width, time)
  <1>1. Len(Append(h, t)) - Len(Append(s, t)) = Len(h) - Len(s)
    OBVIOUS
  <1>2. \A i \in 1..(Len(h) - Len(s)) : Append(h, t)[i] = h[i]
    OBVIOUS
  <1> QED
    BY <1>1, <1>2 DEF RestStale

\* What is stale stays stale.
LEMMA RestStaleLater ==
    ASSUME NEW s \in Seq(Nat), NEW h \in Seq(Nat), NEW width \in Nat, NEW time \in Nat,
           NEW later \in Nat, later >= time, RestStale(s, h, width, time)
    PROVE  RestStale(s, h, width, later)
  <1> SUFFICES ASSUME NEW i \in 1..(Len(h) - Len(s)) PROVE Stale(h[i], width, later)
    BY DEF RestStale
  <1>1. h[i] \in Nat
    OBVIOUS
  <1>2. Stale(h[i], width, time)
    BY DEF RestStale
  <1> QED
    BY <1>1, <1>2 DEF Stale

-----------------------------------------------------------------------------
(* The lockout of an address.                                               *)

\* Fewer failures than the threshold, which are the latest of the history.
Inv == TypeOK /\ Tracked

\* What record_failure() does, with the number of entries it popped named.
Recorded(k) ==
    LET all == Append(failures, now) IN
    /\ Popped(all, k, Width, now)
    /\ \/ /\ Len(all) - k >= Threshold
          /\ lockedUntil' = now + Duration
          /\ failures' = <<>>
       \/ /\ Len(all) - k < Threshold
          /\ failures' = Kept(all, k)
          /\ lockedUntil' = lockedUntil

\* record_failure() pops some number of entries, and Recorded says the rest.
LEMMA FailRecorded ==
    ASSUME TypeOK, RecordFailure
    PROVE  \E k \in 0..Len(Append(failures, now)) : Recorded(k)
  <1> DEFINE all == Append(failures, now)
  <1>1. all \in Seq(Nat) /\ Len(all) = Len(failures) + 1
    BY AppendEntries DEF TypeOK
  <1>2. PICK k \in 0..(Len(failures) + 1) :
          /\ Popped(all, k, Width, now)
          /\ \/ /\ Len(Kept(all, k)) >= Threshold
                /\ lockedUntil' = now + Duration
                /\ failures' = <<>>
             \/ /\ Len(Kept(all, k)) < Threshold
                /\ failures' = Kept(all, k)
                /\ UNCHANGED lockedUntil
    BY DEF RecordFailure
  <1> HIDE DEF all
  <1>3. k \in 0..Len(all)
    BY <1>1, <1>2
  <1>4. Len(Kept(all, k)) = Len(all) - k
    BY <1>1, <1>3, KeptEntries
  <1>5. Recorded(k)
    BY <1>2, <1>4 DEF Recorded, all
  <1> QED
    BY <1>3, <1>5 DEF all

\* No failure is the end of no history.
LEMMA InvInit == Init => Inv
  <1> SUFFICES ASSUME Init PROVE Inv
    OBVIOUS
  <1>1. <<>> \in Seq(Nat) /\ Len(<<>>) = 0
    OBVIOUS
  <1>2. TypeOK
    BY <1>1, LockoutAssumption DEF Init, TypeOK
  <1>3. Tracked
    BY <1>1 DEF Init, Tracked, EndOf
  <1> QED
    BY <1>2, <1>3 DEF Inv

\* The empty deque is the end of every history.
LEMMA EmptyEnd ==
    ASSUME NEW h \in Seq(Nat)
    PROVE  <<>> \in Seq(Nat) /\ Len(<<>>) = 0 /\ EndOf(<<>>, h)
  <1>1. <<>> \in Seq(Nat) /\ Len(<<>>) = 0 /\ Len(h) \in Nat
    OBVIOUS
  <1> QED
    BY <1>1 DEF EndOf

\* A failure is recorded in the deque and the history alike; at the threshold
\* the deque is emptied and the lockout set to end Duration from now.
LEMMA InvFail == Inv /\ Fail => Inv'
  <1> SUFFICES ASSUME Inv, Fail PROVE Inv'
    OBVIOUS
  <1>1. /\ TypeOK /\ EndOf(failures, failed)
        /\ lockedUntil # NotLocked => lockedUntil <= now + Duration
    BY DEF Inv, Tracked
  <1>2. failed' = Append(failed, now) /\ now' = now /\ pending' \in Nat
    BY <1>1 DEF Fail, TypeOK
  <1> DEFINE all == Append(failures, now)
  <1>3. /\ all \in Seq(Nat)
        /\ failed' \in Seq(Nat)
        /\ EndOf(all, failed')
    BY <1>1, <1>2, AppendEntries, EndOfAppend DEF TypeOK
  <1>4. PICK k \in 0..Len(all) : Recorded(k)
    BY <1>1, FailRecorded DEF Fail
  <1>5. CASE failures' = <<>> /\ lockedUntil' = now + Duration
    <2>1. /\ failures' \in Seq(Nat) /\ Len(failures') < Threshold
          /\ EndOf(failures', failed')
      BY <1>3, <1>5, EmptyEnd, LockoutAssumption
    <2>2. lockedUntil' \in Nat /\ lockedUntil' = now' + Duration
      BY <1>1, <1>2, <1>5, LockoutAssumption DEF TypeOK
    <2>3. TypeOK'
      BY <1>1, <1>2, <1>3, <2>1, <2>2 DEF TypeOK
    <2>4. Tracked'
      BY <2>1, <2>2 DEF Tracked
    <2> QED
      BY <2>3, <2>4 DEF Inv
  <1>6. CASE /\ Len(all) - k < Threshold
             /\ failures' = Kept(all, k)
             /\ lockedUntil' = lockedUntil
    <2>1. /\ failures' \in Seq(Nat) /\ Len(failures') < Threshold
          /\ EndOf(failures', failed')
      BY <1>3, <1>6, KeptEntries, EndOfKept
    <2>2. TypeOK'
      BY <1>1, <1>2, <1>3, <1>6, <2>1 DEF TypeOK
    <2>3. Tracked'
      BY <1>1, <1>2, <1>6, <2>1 DEF Tracked
    <2> QED
      BY <2>2, <2>3 DEF Inv
  <1> QED
    BY <1>4, <1>5, <1>6 DEF Recorded

\* The other steps leave the deque alone or empty it.
LEMMA InvNext == Inv /\ [Next]_vars => Inv'
  <1> SUFFICES ASSUME Inv, [Next]_vars PROVE Inv'
    OBVIOUS
  <1>1. TypeOK /\ Tracked
    BY DEF Inv
  <1>2. CASE Tick
    <2>1. TypeOK'
      BY <1>1, <1>2 DEF TypeOK, Tick, Passes
    <2>2. lockedUntil # NotLocked => lockedUntil <= now + 1 + Duration
      BY <1>1, LockoutAssumption DEF TypeOK, Tracked
    <2> QED
      BY <1>1, <1>2, <2>1, <2>2 DEF Inv, Tracked, Tick, Passes
  <1>3. CASE Arrive
    <2>1. failures' \in Seq(Nat) /\ Len(failures') < Threshold /\ EndOf(failures', failed)
      BY <1>1, <1>3, EmptyEnd, LockoutAssumption DEF TypeOK, Tracked, Arrive
    <2>2. TypeOK'
      BY <1>1, <1>3, <2>1 DEF TypeOK, Arrive
    <2>3. Tracked'
      BY <1>3, <2>1 DEF Tracked, Arrive
    <2> QED
      BY <2>2, <2>3 DEF Inv
  <1>4. CASE Fail
    BY <1>4, InvFail
  <1>5. CASE Succeed
    <2>1. failed' = <<>> /\ failures' = <<>> /\ <<>> \in Seq(Nat)
      BY <1>5, EmptyEnd DEF Succeed, RecordSuccess
    <2>2. Len(failures') < Threshold /\ EndOf(failures', failed')
      <3>1. Len(<<>>) = 0 /\ EndOf(<<>>, <<>>)
        BY <2>1, EmptyEnd
      <3> QED
        BY <2>1, <3>1, LockoutAssumption
    <2>3. TypeOK'
      BY <1>1, <1>5, <2>1, <2>2 DEF TypeOK, Succeed, RecordSuccess
    <2>4. Tracked'
      BY <1>1, <1>5, <2>2 DEF Tracked, Succeed, RecordSuccess
    <2> QED
      BY <2>3, <2>4 DEF Inv
  <1>6. CASE GiveUp
    BY <1>1, <1>6 DEF Inv, TypeOK, Tracked, GiveUp
  <1>7. CASE UNCHANGED vars
    BY <1>1, <1>7 DEF Inv, TypeOK, Tracked, vars
  <1> QED
    BY <1>2, <1>3, <1>4, <1>5, <1>6, <1>7 DEF Next, Refuse

\* The deque never holds Threshold failures, and what it holds are the latest
\* ones since the latest success.
THEOREM Tracking == Spec => [](TypeOK /\ Tracked)
  BY InvInit, InvNext, PTL DEF Spec, Inv

-----------------------------------------------------------------------------
(* Lockouts are earned, and hold.                                           *)

\* The failure that locks leaves exactly Threshold entries in the deque, so it
\* popped none, and the oldest of them is in the window.
LEMMA EarnedStep ==
    ASSUME Inv, [Next]_vars, lockedUntil' \notin {lockedUntil, NotLocked}
    PROVE  /\ lockedUntil' = now + Duration
           /\ Len(failed') >= Threshold
           /\ now - failed'[Len(failed') - Threshold + 1] <= Width
  <1> DEFINE all == Append(failures, now)
  <1>1. TypeOK /\ EndOf(failures, failed)
    BY DEF Inv, Tracked
  <1>2. Fail
    BY DEF Next, Tick, Passes, Arrive, Refuse, Succeed, RecordSuccess, GiveUp, vars
  <1>3. failed' = Append(failed, now)
    BY <1>2 DEF Fail
  <1>4. all \in Seq(Nat) /\ Len(all) = Len(failures) + 1 /\ failed' \in Seq(Nat)
    BY <1>1, <1>3, AppendEntries DEF TypeOK
  <1>5. EndOf(all, failed')
    BY <1>1, <1>3, EndOfAppend DEF TypeOK
  <1>6. PICK k \in 0..Len(all) : Recorded(k)
    BY <1>1, <1>2, FailRecorded DEF Fail
  <1>7. /\ Popped(all, k, Width, now)
        /\ Len(all) - k >= Threshold
        /\ lockedUntil' = now + Duration
    BY <1>6 DEF Recorded
  <1> HIDE DEF all
  <1>8. k = 0 /\ Len(all) = Threshold
    BY <1>1, <1>4, <1>7, LockoutAssumption DEF TypeOK
  <1>9. ~Stale(all[1], Width, now)
    BY <1>7, <1>8, LockoutAssumption DEF Popped
  <1>10. Len(failed') >= Threshold /\ all[1] = failed'[Len(failed') - Threshold + 1]
    <2>1. 1 \in 1..Len(all) /\ Len(all) <= Len(failed')
      BY <1>4, <1>5, <1>8, LockoutAssumption DEF EndOf
    <2>2. all[1] = failed'[Len(failed') - Len(all) + 1]
      BY <1>5, <2>1 DEF EndOf
    <2> QED
      BY <1>8, <2>1, <2>2
  <1>11. all[1] \in Nat
    BY <1>4, <1>8, LockoutAssumption
  <1> QED
    BY <1>1, <1>7, <1>9, <1>10, <1>11, LockoutAssumption DEF Stale, TypeOK

\* For every threshold, window and duration: no address is locked out but by
\* Threshold failures in a row within the window.
THEOREM LockoutsEarned == Spec => LockEarned
  <1>1. Inv /\ [Next]_vars =>
          (lockedUntil' \notin {lockedUntil, NotLocked} =>
             /\ lockedUntil' = now + Duration
             /\ Len(failed') >= Threshold
             /\ now - failed'[Len(failed') - Threshold + 1] <= Width)
    BY EarnedStep
  <1> QED
    BY <1>1, InvInit, InvNext, PTL DEF Spec, LockEarned

\* Only a failure touches the entry of a locked address, and it cannot shorten
\* it: the entry never reaches further than Duration from now.
LEMMA HoldsStep ==
    ASSUME Inv, [Next]_vars, Locked
    PROVE  /\ lockedUntil' # NotLocked /\ lockedUntil' >= lockedUntil
           /\ pending' <= pending
  <1>1. /\ now \in Nat /\ pending \in Nat /\ lockedUntil \in Nat
        /\ lockedUntil # NotLocked /\ lockedUntil <= now + Duration
    BY DEF Inv, TypeOK, Tracked, Locked
  <1>2. CASE Fail
    <2>1. lockedUntil' \in {lockedUntil, now + Duration}
      BY <1>2 DEF Fail, RecordFailure
    <2>2. pending' = pending - 1
      BY <1>2 DEF Fail
    <2> QED
      BY <1>1, <2>1, <2>2, LockoutAssumption
  <1>3. CASE lockedUntil' = lockedUntil /\ pending' \in {pending, pending - 1}
    BY <1>1, <1>3
  <1> QED
    BY <1>2, <1>3 DEF Next, Tick, Passes, Arrive, Refuse, Succeed, RecordSuccess, GiveUp, vars, Locked

\* For every threshold, window and duration: no handshake in progress, however
\* it ends, lifts or shortens a lockout, and none starts while it lasts.
THEOREM LockoutsHold == Spec => LockHolds
  <1>1. Inv /\ [Next]_vars =>
          (Locked => /\ lockedUntil' # NotLocked /\ lockedUntil' >= lockedUntil
                     /\ pending' <= pending)
    BY HoldsStep
  <1> QED
    BY <1>1, InvInit, InvNext, PTL DEF Spec, LockHolds

-----------------------------------------------------------------------------
(* The rate limit of a client.                                             *)

\* A deque within the limit that is the end of the history of what was relayed.
RateInv == RateTypeOK /\ Window

\* An empty deque is the end of an empty history.
LEMMA RateInvInit == RateInit => RateInv
  <1> SUFFICES ASSUME RateInit PROVE RateInv
    OBVIOUS
  <1>1. <<>> \in Seq(Nat) /\ Len(<<>>) = 0
    OBVIOUS
  <1>2. limited \in BOOLEAN
    BY DEF RateInit
  <1>3. RateTypeOK
    BY <1>1, <1>2, RateAssumption DEF RateInit, RateTypeOK
  <1>4. Window
    BY <1>1 DEF RateInit, Window, EndOf, RestStale
  <1> QED
    BY <1>3, <1>4 DEF RateInv

\* The clock only makes stale entries staler.
LEMMA RateInvTick == RateInv /\ RateTick => RateInv'
  <1> SUFFICES ASSUME RateInv, RateTick PROVE RateInv'
    OBVIOUS
  <1>1. limited' \in BOOLEAN
    BY DEF RateTick, Passes
  <1>2. RateTypeOK'
    BY <1>1 DEF RateInv, RateTypeOK, RateTick, Passes
  <1>3. RestStale(sentAt, accepted, RateWidth, now')
    BY RestStaleLater, RateAssumption DEF RateInv, RateTypeOK, Window, RateTick, Passes
  <1> QED
    BY <1>2, <1>3, RateAssumption DEF RateInv, Window, RateTick, Passes

\* What a call does, with the number of entries it popped named.
Called(k) ==
    /\ Popped(sentAt, k, RateWidth, now)
    /\ \/ /\ Len(sentAt) - k >= Messages
          /\ sentAt' = Kept(sentAt, k)
          /\ limited' = TRUE
          /\ accepted' = accepted
       \/ /\ Len(sentAt) - k < Messages
          /\ sentAt' = Append(Kept(sentAt, k), now)
          /\ accepted' = Append(accepted, now)
          /\ limited' = FALSE
    /\ now' = now

\* rate_limited() pops some number of entries, and Called says the rest.
LEMMA CallCalled ==
    ASSUME RateTypeOK, RateLimited
    PROVE  \E k \in 0..Len(sentAt) : Called(k)
  <1>1. PICK k \in 0..Len(sentAt) :
          /\ Popped(sentAt, k, RateWidth, now)
          /\ \/ /\ Len(Kept(sentAt, k)) >= Messages
                /\ sentAt' = Kept(sentAt, k)
                /\ limited' = TRUE
                /\ UNCHANGED accepted
             \/ /\ Len(Kept(sentAt, k)) < Messages
                /\ sentAt' = Append(Kept(sentAt, k), now)
                /\ accepted' = Append(accepted, now)
                /\ limited' = FALSE
          /\ UNCHANGED now
    BY DEF RateLimited
  <1>2. Len(Kept(sentAt, k)) = Len(sentAt) - k
    BY KeptEntries DEF RateTypeOK
  <1>3. Called(k)
    BY <1>1, <1>2 DEF Called
  <1> QED
    BY <1>3

\* A call pops a stale prefix; what it appends it appends to the history too.
LEMMA RateInvCall == RateInv /\ RateLimited => RateInv'
  <1> SUFFICES ASSUME RateInv, RateLimited PROVE RateInv'
    OBVIOUS
  <1>1. /\ RateTypeOK /\ EndOf(sentAt, accepted) /\ RestStale(sentAt, accepted, RateWidth, now)
        /\ Messages \in Nat \ {0}
    BY RateAssumption DEF RateInv, Window
  <1>2. PICK k \in 0..Len(sentAt) : Called(k)
    BY <1>1, CallCalled
  <1> DEFINE kept == Kept(sentAt, k)
  <1>3. /\ kept \in Seq(Nat) /\ Len(kept) = Len(sentAt) - k
        /\ EndOf(kept, accepted) /\ RestStale(kept, accepted, RateWidth, now)
    BY <1>1, <1>2, KeptEntries, EndOfKept, RestStaleKept DEF RateTypeOK, Called
  <1> HIDE DEF kept
  <1>4. CASE sentAt' = kept /\ limited' = TRUE /\ accepted' = accepted
    <2>1. limited' \in BOOLEAN
      BY <1>4
    <2>2. RateTypeOK'
      BY <1>1, <1>2, <1>3, <1>4, <2>1 DEF RateTypeOK, Called
    <2> QED
      BY <1>1, <1>2, <1>3, <1>4, <2>2 DEF RateInv, Window, Called
  <1>5. CASE /\ Len(sentAt) - k < Messages
             /\ sentAt' = Append(kept, now)
             /\ accepted' = Append(accepted, now)
             /\ limited' = FALSE
    <2>1. limited' \in BOOLEAN
      BY <1>5
    <2>2. /\ sentAt' \in Seq(Nat) /\ Len(sentAt') = Len(kept) + 1
          /\ accepted' \in Seq(Nat)
      BY <1>1, <1>3, <1>5, AppendEntries DEF RateTypeOK
    <2>3. Len(sentAt') <= Messages
      BY <1>1, <1>3, <1>5, <2>2 DEF RateTypeOK
    <2>4. RateTypeOK'
      BY <1>1, <1>2, <2>1, <2>2, <2>3 DEF RateTypeOK, Called
    <2>5. EndOf(sentAt', accepted')
      BY <1>1, <1>3, <1>5, EndOfAppend DEF RateTypeOK
    <2>6. RestStale(sentAt', accepted', RateWidth, now')
      BY <1>1, <1>2, <1>3, <1>5, RestStaleAppend DEF RateTypeOK, Called, EndOf
    <2> QED
      BY <1>1, <2>4, <2>5, <2>6 DEF RateInv, Window
  <1> QED
    BY <1>2, <1>4, <1>5 DEF Called, kept

\* Every step keeps the invariant.
LEMMA RateInvNext == RateInv /\ [RateNext]_rateVars => RateInv'
  <1>1. RateInv /\ UNCHANGED rateVars => RateInv'
    BY RateAssumption DEF RateInv, RateTypeOK, Window, EndOf, RestStale, rateVars
  <1> QED
    BY <1>1, RateInvTick, RateInvCall DEF RateNext

\* A deque never holds more than the limit, and it is always the end of the
\* history of relayed messages, everything before it being out of the window.
THEOREM WindowCorrect == RateSpec => [](RateTypeOK /\ Window)
  <1>1. RateInv => RateTypeOK /\ Window
    BY DEF RateInv, Window
  <1> QED
    BY <1>1, RateInvInit, RateInvNext, PTL DEF RateSpec

-----------------------------------------------------------------------------
(* The two promises.                                                        *)

\* The call that relays one more message too many finds its Messages
\* predecessors in the window.
LEMMA RateStep == RateInv /\ RateHolds /\ [RateNext]_rateVars => RateHolds'
  <1> SUFFICES ASSUME RateInv, RateHolds, [RateNext]_rateVars PROVE RateHolds'
    OBVIOUS
  <1>1. CASE accepted' = accepted
    BY <1>1 DEF RateHolds
  <1>2. CASE RateLimited /\ accepted' # accepted
    <2>1. /\ RateTypeOK /\ EndOf(sentAt, accepted) /\ RestStale(sentAt, accepted, RateWidth, now)
          /\ Messages \in Nat \ {0} /\ RateWidth \in Nat
      BY RateAssumption DEF RateInv, Window
    <2>2. PICK k \in 0..Len(sentAt) : Called(k)
      BY <1>2, <2>1, CallCalled
    <2> DEFINE kept == Kept(sentAt, k)
    <2>3. /\ Len(kept) = Len(sentAt) - k /\ Len(kept) \in Nat
          /\ RestStale(kept, accepted, RateWidth, now)
      BY <2>1, <2>2, KeptEntries, RestStaleKept DEF RateTypeOK, Called
    <2> HIDE DEF kept
    <2>4. Len(kept) < Messages /\ accepted' = Append(accepted, now)
      BY <1>2, <2>2, <2>3 DEF Called
    <2>5. /\ Len(accepted') = Len(accepted) + 1 /\ accepted'[Len(accepted) + 1] = now
          /\ \A i \in 1..Len(accepted) : accepted'[i] = accepted[i]
      BY <2>1, <2>4, AppendEntries DEF RateTypeOK
    <2> SUFFICES ASSUME NEW i \in 1..Len(accepted'), NEW j \in 1..Len(accepted'),
                        j >= i + Messages
                 PROVE  accepted'[j] - accepted'[i] > RateWidth
      BY DEF RateHolds
    <2>6. Len(accepted) \in Nat /\ Messages \in Nat \ {0}
      BY <2>1 DEF RateTypeOK
    <2>7. CASE j = Len(accepted) + 1
      <3>1. i \in 1..Len(accepted) /\ i \in 1..(Len(accepted) - Len(kept))
        BY <2>3, <2>4, <2>6, <2>7
      <3>2. Stale(accepted[i], RateWidth, now)
        BY <2>3, <3>1 DEF RestStale
      <3> QED
        BY <2>5, <2>7, <3>1, <3>2 DEF Stale
    <2>8. CASE j \in 1..Len(accepted)
      <3>1. i \in 1..Len(accepted)
        BY <2>6, <2>8, <2>5
      <3> QED
        BY <2>5, <2>8, <3>1 DEF RateHolds
    <2> QED
      BY <2>5, <2>6, <2>7, <2>8
  <1> QED
    BY <1>1, <1>2 DEF RateNext, RateTick, Passes, rateVars

\* For every client, limit and window: more than Messages messages are never
\* relayed within a window.
THEOREM RateCorrect == RateSpec => []RateHolds
  <1>1. RateInit => RateInv /\ RateHolds
    <2>1. RateInit => accepted = <<>>
      BY DEF RateInit
    <2>2. accepted = <<>> => RateHolds
      BY DEF RateHolds
    <2> QED
      BY <2>1, <2>2, RateInvInit
  <1> QED
    BY <1>1, RateInvNext, RateStep, PTL DEF RateSpec

\* A refusal finds Messages entries left, the oldest of them in the window.
LEMMA LimitedStep == RateInv /\ LimitedJustly /\ [RateNext]_rateVars => LimitedJustly'
  <1> SUFFICES ASSUME RateInv, LimitedJustly, [RateNext]_rateVars, limited'
               PROVE  /\ Len(accepted') >= Messages
                      /\ now' - accepted'[Len(accepted') - Messages + 1] <= RateWidth
    BY DEF LimitedJustly
  <1>1. CASE UNCHANGED rateVars
    BY <1>1 DEF LimitedJustly, rateVars
  <1>2. CASE RateTick
    BY <1>2 DEF RateTick, Passes
  <1>3. CASE RateLimited
    <2>1. /\ RateTypeOK /\ EndOf(sentAt, accepted)
          /\ Messages \in Nat \ {0} /\ RateWidth \in Nat
      BY RateAssumption DEF RateInv, Window
    <2>2. PICK k \in 0..Len(sentAt) : Called(k)
      BY <1>3, <2>1, CallCalled
    <2>3. /\ Popped(sentAt, k, RateWidth, now) /\ now' = now
          /\ Len(sentAt) - k >= Messages /\ accepted' = accepted
      BY <2>2 DEF Called
    <2>4. k = 0 /\ Len(sentAt) = Messages
      BY <2>1, <2>3 DEF RateTypeOK
    <2>5. ~Stale(sentAt[1], RateWidth, now)
      BY <2>1, <2>3, <2>4 DEF Popped
    <2>6. sentAt[1] = accepted[Len(accepted) - Messages + 1] /\ Len(accepted) >= Messages
      BY <2>1, <2>4 DEF EndOf
    <2>7. sentAt[1] \in Nat
      BY <2>1, <2>4 DEF RateTypeOK
    <2> QED
      BY <2>1, <2>3, <2>5, <2>6, <2>7 DEF Stale, RateTypeOK
  <1> QED
    BY <1>1, <1>2, <1>3 DEF RateNext

\* For every client, limit and window: only a client that had Messages messages
\* relayed within the last window is refused.
THEOREM LimitJust == RateSpec => []LimitedJustly
  <1>1. RateInit => RateInv /\ LimitedJustly
    BY RateInvInit DEF RateInit, LimitedJustly
  <1> QED
    BY <1>1, RateInvNext, LimitedStep, PTL DEF RateSpec
=============================================================================

--------------------------- MODULE ChatRoomProofs ---------------------------
(* Theorems about ChatRoom, for every set of connections, names and every   *)
(* capacity.                                                               *)
EXTENDS ChatRoom, TLAPS

-----------------------------------------------------------------------------
(* Tasks and names.                                                        *)

\* The three kinds of task are distinct, and a task names its connection.
LEMMA TaskFacts ==
    /\ \A c \in Conns : Handler(c) \in Tasks /\ Departure(c) \in Tasks
    /\ Main \in Tasks
    /\ \A c, d : Handler(c) = Handler(d) => c = d
    /\ \A c, d : Departure(c) = Departure(d) => c = d
    /\ \A c, d : Handler(c) # Departure(d)
    /\ \A c : Handler(c) # Main /\ Departure(c) # Main
  BY DEF Tasks, Handler, Departure, Main

\* What unique_name() returns is a name, and unless it is a `user-xxxxxx` no
\* registered client has it.
LEMMA UniqueNameFree ==
    ASSUME NEW n \in Names, NEW u \in UniqueName(n)
    PROVE  u \in Names /\ (u \notin Taken \/ u \in Fallbacks)
  <1> DEFINE free == {k \in Suffixes : Tag(n, k) \notin Taken}
  <1>1. CASE n \notin Taken
    BY <1>1 DEF UniqueName
  <1>2. CASE n \in Taken /\ free # {}
    <2>1. u \in {Tag(n, k) : k \in {i \in free : \A j \in free : i <= j}}
      BY <1>2 DEF UniqueName
    <2> QED
      BY <2>1, ConstantsAssumption
  <1>3. CASE n \in Taken /\ free = {}
    <2>1. u \in Fallbacks
      BY <1>3 DEF UniqueName
    <2> QED
      BY <2>1, ConstantsAssumption
  <1> QED
    BY <1>1, <1>2, <1>3

-----------------------------------------------------------------------------
(* Type correctness.                                                       *)

\* Every variable starts in its set.
LEMMA TypeInit == Init => TypeOK
  <1>1. NoRoster \in Rosters
    BY DEF Rosters
  <1> SUFFICES ASSUME Init PROVE TypeOK
    OBVIOUS
  <1>2. /\ wait \in [Tasks -> SUBSET Conns] /\ fail \in [Tasks -> SUBSET Conns]
        /\ kids \in [Tasks -> SUBSET Conns] /\ roster \in [Conns -> Rosters]
    BY <1>1 DEF Init
  <1>3. leftCount \in [Conns -> 0..2]
    <2>1. 0 \in 0..2
      OBVIOUS
    <2> QED
      BY <2>1, Zenon DEF Init
  <1>4. shuttingDown \in BOOLEAN
    BY DEF Init
  <1> QED
    BY <1>2, <1>3, <1>4 DEF Init, TypeOK

\* The shapes that several actions share keep the types of what they assign.
LEMMA TypeBroadcast ==
    ASSUME TypeOK, NEW t \in Tasks, NEW S \in SUBSET Conns, Broadcast(t, S)
    PROVE  wait' \in [Tasks -> SUBSET Conns] /\ fail' \in [Tasks -> SUBSET Conns]
  BY DEF TypeOK, Broadcast, Live

\* A roster broadcast leaves sets of connections and rosters.
LEMMA TypeBroadcastRoster ==
    ASSUME TypeOK, NEW t \in Tasks, BroadcastRoster(t)
    PROVE  /\ wait' \in [Tasks -> SUBSET Conns] /\ fail' \in [Tasks -> SUBSET Conns]
           /\ roster' \in [Conns -> Rosters]
  BY TypeBroadcast DEF TypeOK, BroadcastRoster, Rosters

\* Closing sockets leaves transports, sends and rosters in their sets.
LEMMA TypeHangUp ==
    ASSUME TypeOK, NEW S \in SUBSET Conns, NEW how \in {"closed", "goingaway"}, HangUp(S, how)
    PROVE  /\ ws' \in [Conns -> {"none", "open", "stalled", "closed", "goingaway"}]
           /\ wait' \in [Tasks -> SUBSET Conns] /\ fail' \in [Tasks -> SUBSET Conns]
           /\ roster' \in [Conns -> Rosters]
  <1>1. ws' \in [Conns -> {"none", "open", "stalled", "closed", "goingaway"}]
    BY DEF TypeOK, HangUp
  <1>2. wait' \in [Tasks -> SUBSET Conns] /\ fail' \in [Tasks -> SUBSET Conns]
    BY DEF TypeOK, HangUp
  <1>3. NoRoster \in Rosters
    BY DEF Rosters
  <1>4. roster' \in [Conns -> Rosters]
    BY <1>3 DEF TypeOK, HangUp
  <1> QED
    BY <1>1, <1>2, <1>4

\* So does the first turn of depart().
LEMMA TypeDepartBegin ==
    ASSUME TypeOK, NEW c \in Conns, NEW t \in Tasks, DepartBegin(c, t) \/ DepartNoop(c)
    PROVE  /\ ws' \in [Conns -> {"none", "open", "stalled", "closed", "goingaway"}]
           /\ wait' \in [Tasks -> SUBSET Conns] /\ fail' \in [Tasks -> SUBSET Conns]
           /\ roster' \in [Conns -> Rosters]
           /\ registry' \in SUBSET Conns /\ departed' \in SUBSET Conns
           /\ name' = name
           /\ dpc' \in [Conns -> {"none", "closing", "left", "roster", "done"}]
           /\ owner' \in [Conns -> Tasks \cup {NoTask}]
  <1>1. CASE DepartBegin(c, t)
    BY <1>1, TypeHangUp DEF TypeOK, DepartBegin
  <1>2. CASE DepartNoop(c)
    BY <1>2 DEF TypeOK, DepartNoop, client
  <1> QED
    BY <1>1, <1>2

\* A registered client has a name, and its connection is one of Conns.
LEMMA TypeRegister ==
    ASSUME TypeOK, NEW c \in Conns, Register(c)
    PROVE  name' \in [Conns -> Names \cup {NoName}] /\ registry' \in SUBSET Conns
           /\ departed' = departed
  BY UniqueNameFree, ConstantsAssumption DEF TypeOK, Register

\* Every variable keeps its type.
THEOREM TypeStep == TypeOK /\ [Next]_vars => TypeOK'
  <1> SUFFICES ASSUME TypeOK, [Next]_vars PROVE TypeOK'
    OBVIOUS
  <1> USE TaskFacts DEF Goto, client, casts
  <1>1. ASSUME NEW c \in Conns, Admit(c) PROVE TypeOK'
    BY <1>1 DEF TypeOK, Admit
  <1>2. ASSUME NEW c \in Conns, Refuse(c) PROVE TypeOK'
    BY <1>2 DEF TypeOK, Refuse
  <1>3. ASSUME NEW c \in Conns, Handshake(c) PROVE TypeOK'
    <2>1. CASE AuthReject(c)
      BY <2>1, TypeHangUp DEF TypeOK, AuthReject
    <2>2. CASE AuthAccept(c)
      BY <2>2, TypeBroadcast, TypeRegister DEF TypeOK, AuthAccept, Rosters
    <2>3. CASE AuthAcceptDead(c)
      BY <2>3, TypeRegister DEF TypeOK, AuthAcceptDead
    <2> QED
      BY <1>3, <2>1, <2>2, <2>3 DEF Handshake
  <1>4. ASSUME NEW c \in Conns, Proceed(c) PROVE TypeOK'
    <2>1. CASE AfterJoined(c)
      BY <2>1, TypeBroadcastRoster DEF TypeOK, AfterJoined
    <2>2. CASE Replied(c) \/ BackToServe(c) \/ Unwound(c)
      BY <2>2 DEF TypeOK, Replied, BackToServe, Unwound
    <2> QED
      BY <1>4, <2>1, <2>2 DEF Proceed
  <1>5. ASSUME NEW c \in Conns, Read(c) PROVE TypeOK'
    <2>1. CASE Relay(c)
      BY <2>1, TypeBroadcast DEF TypeOK, Relay
    <2>2. CASE Reply(c)
      BY <2>2 DEF TypeOK, Reply
    <2>3. CASE Expel(c)
      BY <2>3, TypeHangUp DEF TypeOK, Expel
    <2> QED
      BY <1>5, <2>1, <2>2, <2>3 DEF Read
  <1>6. ASSUME NEW c \in Conns, ServeEnd(c) PROVE TypeOK'
    BY <1>6, TypeDepartBegin DEF TypeOK, ServeEnd
  <1>7. ASSUME NEW c \in Conns, Depart(c) PROVE TypeOK'
    <2>1. CASE DepartClosed(c)
      BY <2>1, TypeBroadcast DEF TypeOK, DepartClosed
    <2>2. CASE DepartRoster(c)
      BY <2>2, TypeBroadcastRoster DEF TypeOK, DepartRoster
    <2>3. CASE DepartSilently(c) \/ DepartEnd(c)
      BY <2>3 DEF TypeOK, DepartSilently, DepartEnd
    <2> QED
      BY <1>7, <2>1, <2>2, <2>3 DEF Depart
  <1>8. ASSUME NEW c \in Conns, Socket(c) PROVE TypeOK'
    <2>1. CASE Stall(c)
      BY <2>1 DEF TypeOK, Stall
    <2>2. CASE Recover(c)
      BY <2>2 DEF TypeOK, Recover
    <2>3. CASE PeerGone(c)
      BY <2>3, TypeHangUp DEF TypeOK, PeerGone
    <2> QED
      BY <1>8, <2>1, <2>2, <2>3 DEF Socket
  <1>9. ASSUME NEW t \in Tasks, Clean(t) PROVE TypeOK'
    <2>1. CASE Cleanup(t)
      BY <2>1 DEF TypeOK, Cleanup
    <2>2. ASSUME NEW c \in Conns, RunKid(t, c) PROVE TypeOK'
      BY <2>2, TypeDepartBegin DEF TypeOK, RunKid
    <2> QED
      BY <1>9, <2>1, <2>2 DEF Clean
  <1>10. CASE StopSignal
    BY <1>10 DEF TypeOK, StopSignal
  <1>11. CASE Stopping
    <2>1. CASE LibClose
      BY <2>1, TypeHangUp DEF TypeOK, LibClose
    <2>2. CASE MainShutdown
      BY <2>2, TypeBroadcast DEF TypeOK, MainShutdown
    <2>3. CASE MainCloseAll
      BY <2>3, TypeHangUp DEF TypeOK, MainCloseAll
    <2>4. CASE MainExit
      BY <2>4 DEF TypeOK, MainExit
    <2> QED
      BY <1>11, <2>1, <2>2, <2>3, <2>4 DEF Stopping
  <1>12. CASE UNCHANGED vars
    BY <1>12 DEF TypeOK, vars
  <1> QED
    BY <1>1, <1>2, <1>3, <1>4, <1>5, <1>6, <1>7, <1>8, <1>9, <1>10, <1>11, <1>12
       DEF Next, Terminated

\* The state of the room always has the types the code gives it.
THEOREM TypeCorrect == Spec => []TypeOK
  BY TypeInit, TypeStep, PTL DEF Spec

-----------------------------------------------------------------------------
(* One leave notice per client.                                            *)

\* The count is zero until depart() has announced, and only a client whose
\* flag is set has a depart() in progress.
LeaveInv ==
    \A c \in Conns :
        /\ leftCount[c] <= 1
        /\ dpc[c] \in {"none", "closing"} => leftCount[c] = 0
        /\ dpc[c] # "none" => c \in departed

\* depart() starts only for a client whose flag is clear, so its counter is 0.
LEMMA LeaveDepartBegin ==
    ASSUME TypeOK, LeaveInv, NEW c \in Conns, NEW t \in Tasks,
           DepartBegin(c, t) \/ DepartNoop(c), leftCount' = leftCount
    PROVE  LeaveInv'
  <1>1. CASE DepartBegin(c, t)
    BY <1>1 DEF TypeOK, LeaveInv, DepartBegin
  <1>2. CASE DepartNoop(c)
    BY <1>2 DEF LeaveInv, DepartNoop, client
  <1> QED
    BY <1>1, <1>2

\* depart() counts one announcement, when it leaves "closing".
LEMMA LeaveDepart ==
    ASSUME TypeOK, LeaveInv, NEW c \in Conns, Depart(c)
    PROVE  LeaveInv'
  <1> USE DEF client
  <1>1. CASE DepartClosed(c)
    <2>1. leftCount[c] = 0 /\ c \in departed
      BY <1>1 DEF LeaveInv, DepartClosed
    <2>2. leftCount' = [leftCount EXCEPT ![c] = 1]
      BY <1>1, <2>1 DEF DepartClosed, TypeOK
    <2> QED
      BY <1>1, <2>1, <2>2 DEF TypeOK, LeaveInv, DepartClosed
  <1>2. CASE DepartSilently(c)
    BY <1>2 DEF TypeOK, LeaveInv, DepartSilently
  <1>3. CASE DepartRoster(c)
    BY <1>3 DEF TypeOK, LeaveInv, DepartRoster
  <1>4. CASE DepartEnd(c)
    BY <1>4 DEF TypeOK, LeaveInv, DepartEnd
  <1> QED
    BY <1>1, <1>2, <1>3, <1>4 DEF Depart

\* No step announces a second leave: only DepartClosed announces, once per
\* effective depart(), and there is one such depart() per client.
LEMMA LeaveStep == TypeOK /\ LeaveInv /\ [Next]_vars => LeaveInv'
  <1> SUFFICES ASSUME TypeOK, LeaveInv, [Next]_vars PROVE LeaveInv'
    OBVIOUS
  <1> USE DEF client
  <1>1. ASSUME dpc' = dpc, leftCount' = leftCount, departed \subseteq departed'
        PROVE  LeaveInv'
    BY <1>1 DEF LeaveInv
  <1>2. ASSUME NEW c \in Conns,
               \/ Admit(c) \/ Refuse(c) \/ Handshake(c) \/ Proceed(c)
               \/ Read(c) \/ Socket(c)
        PROVE  LeaveInv'
    BY <1>1, <1>2 DEF Admit, Refuse, Handshake, AuthReject, AuthAccept, AuthAcceptDead, Register,
       Proceed, AfterJoined, Replied, BackToServe, Unwound, Read, Relay, Reply, Expel,
       Socket, Stall, Recover, PeerGone
  <1>3. ASSUME NEW c \in Conns, ServeEnd(c) PROVE LeaveInv'
    BY <1>3, LeaveDepartBegin, TaskFacts DEF ServeEnd
  <1>4. ASSUME NEW c \in Conns, Depart(c) PROVE LeaveInv'
    BY <1>4, LeaveDepart
  <1>5. ASSUME NEW t \in Tasks, Clean(t) PROVE LeaveInv'
    <2>1. CASE Cleanup(t)
      BY <1>1, <2>1 DEF Cleanup
    <2>2. ASSUME NEW c \in Conns, RunKid(t, c) PROVE LeaveInv'
      BY <2>2, LeaveDepartBegin DEF RunKid
    <2> QED
      BY <1>5, <2>1, <2>2 DEF Clean
  <1>6. CASE StopSignal \/ Stopping \/ UNCHANGED vars
    BY <1>1, <1>6 DEF StopSignal, Stopping, LibClose, MainShutdown, MainCloseAll, MainExit, vars
  <1> QED
    BY <1>2, <1>3, <1>4, <1>5, <1>6 DEF Next, Terminated

\* A client that left is announced at most once, for any number of connections.
THEOREM LeaveOnce == Spec => []LeaveAnnouncedOnce
  <1>1. Init => LeaveInv
    BY DEF Init, LeaveInv
  <1>2. LeaveInv => LeaveAnnouncedOnce
    BY DEF LeaveInv, LeaveAnnouncedOnce
  <1> QED
    BY <1>1, <1>2, LeaveStep, TypeCorrect, PTL DEF Spec

-----------------------------------------------------------------------------
(* Names.                                                                  *)

\* Registering keeps the names apart: the new one is free or a fallback.
LEMMA NamesRegister ==
    ASSUME TypeOK, UniqueNames, NEW c \in Conns, Register(c)
    PROVE  UniqueNames'
  <1>1. PICK n \in Requested : \E u \in UniqueName(n) : name' = [name EXCEPT ![c] = u]
    BY DEF Register
  <1>2. PICK u \in UniqueName(n) : name' = [name EXCEPT ![c] = u]
    BY <1>1
  <1>3. u \notin Taken \/ u \in Fallbacks
    BY UniqueNameFree, ConstantsAssumption
  <1>4. registry' = registry \cup {c}
    BY DEF Register
  <1> SUFFICES ASSUME NEW d \in registry', NEW e \in registry', d # e, name'[d] = name'[e]
               PROVE  name'[d] \in Fallbacks
    BY DEF UniqueNames
  <1>5. CASE d # c /\ e # c
    BY <1>2, <1>4, <1>5 DEF TypeOK, UniqueNames
  <1>6. CASE d = c
    <2>1. name'[d] = u /\ name[e] = u /\ e \in registry
      BY <1>2, <1>4, <1>6 DEF TypeOK
    <2> QED
      BY <2>1, <1>3 DEF Taken
  <1>7. CASE e = c
    <2>1. name'[d] = u /\ name[d] = u /\ d \in registry
      BY <1>2, <1>4, <1>7 DEF TypeOK
    <2> QED
      BY <2>1, <1>3 DEF Taken
  <1> QED
    BY <1>5, <1>6, <1>7

\* Every step keeps registered names apart: only Register gives one.
LEMMA NamesStep == TypeOK /\ UniqueNames /\ [Next]_vars => UniqueNames'
  <1> SUFFICES ASSUME TypeOK, UniqueNames, [Next]_vars PROVE UniqueNames'
    OBVIOUS
  <1> USE DEF client
  <1>1. ASSUME name' = name, registry' \subseteq registry PROVE UniqueNames'
    BY <1>1 DEF UniqueNames
  <1>2. ASSUME NEW c \in Conns, Handshake(c) PROVE UniqueNames'
    BY <1>1, <1>2, NamesRegister DEF Handshake, AuthReject, AuthAccept, AuthAcceptDead
  <1>3. ASSUME NEW c \in Conns,
               \/ Admit(c) \/ Refuse(c) \/ Proceed(c) \/ Read(c) \/ Socket(c)
        PROVE  UniqueNames'
    BY <1>1, <1>3 DEF Admit, Refuse, Proceed, AfterJoined, Replied, BackToServe, Unwound,
       Read, Relay, Reply, Expel, Socket, Stall, Recover, PeerGone
  <1>4. ASSUME NEW c \in Conns, ServeEnd(c) \/ Depart(c) PROVE UniqueNames'
    BY <1>1, <1>4 DEF ServeEnd, DepartBegin, DepartNoop,
       Depart, DepartClosed, DepartSilently, DepartRoster, DepartEnd
  <1>5. ASSUME NEW t \in Tasks, Clean(t) PROVE UniqueNames'
    BY <1>1, <1>5 DEF Clean, Cleanup, RunKid, DepartBegin, DepartNoop
  <1>6. CASE StopSignal \/ Stopping \/ UNCHANGED vars
    BY <1>1, <1>6 DEF StopSignal, Stopping, LibClose, MainShutdown, MainCloseAll, MainExit, vars
  <1> QED
    BY <1>2, <1>3, <1>4, <1>5, <1>6 DEF Next, Terminated

\* No two registered clients share a name, unless it is a `user-xxxxxx`.
THEOREM NamesDistinct == Spec => []UniqueNames
  <1>1. Init => UniqueNames
    BY DEF Init, UniqueNames
  <1> QED
    BY <1>1, NamesStep, TypeCorrect, PTL DEF Spec

-----------------------------------------------------------------------------
(* Rosters converge.  Four invariants, each preserved by every step.         *)

\* A task's sends and departures are over when it is outside a broadcast.
LEMMA TidyStep == TypeOK /\ CastsTidy /\ DepartedGone /\ [Next]_vars => CastsTidy'
  <1> SUFFICES ASSUME TypeOK, CastsTidy, DepartedGone, [Next]_vars PROVE CastsTidy'
    OBVIOUS
  <1> USE TaskFacts DEF Goto, client, casts
  \* Steps that move no task in or out of a broadcast.
  <1>1. ASSUME \A t \in Tasks : Broadcasting(t) => Broadcasting(t)',
               kids' = kids,
               \A t \in Tasks : wait'[t] \subseteq wait[t] /\ fail'[t] \subseteq fail[t] \cup wait[t]
        PROVE  CastsTidy'
    BY <1>1 DEF CastsTidy
  <1>2. ASSUME NEW c \in Conns, Admit(c) PROVE CastsTidy'
    BY <1>1, <1>2 DEF TypeOK, Admit, Broadcasting
  <1>3. ASSUME NEW c \in Conns, Refuse(c) PROVE CastsTidy'
    BY <1>1, <1>3 DEF TypeOK, Refuse, Broadcasting
  <1>4. ASSUME NEW c \in Conns, Handshake(c) PROVE CastsTidy'
    <2>1. CASE AuthReject(c)
      BY <1>1, <2>1 DEF TypeOK, AuthReject, HangUp, Broadcasting
    <2>2. CASE AuthAccept(c)
      BY <2>2 DEF TypeOK, AuthAccept, Broadcast, CastsTidy, Broadcasting
    <2>3. CASE AuthAcceptDead(c)
      BY <1>1, <2>3 DEF TypeOK, AuthAcceptDead, Broadcasting
    <2> QED
      BY <1>4, <2>1, <2>2, <2>3 DEF Handshake
  <1>5. ASSUME NEW c \in Conns, Proceed(c) PROVE CastsTidy'
    <2>1. CASE AfterJoined(c)
      BY <2>1 DEF TypeOK, AfterJoined, BroadcastRoster, Broadcast, Returned, CastsTidy, Broadcasting
    <2>2. CASE Replied(c)
      BY <1>1, <2>2 DEF TypeOK, Replied, Broadcasting
    <2>3. CASE BackToServe(c)
      BY <2>3 DEF TypeOK, BackToServe, Returned, CastsTidy, Broadcasting
    <2>4. CASE Unwound(c)
      BY <1>1, <2>4 DEF TypeOK, Unwound, Broadcasting
    <2> QED
      BY <1>5, <2>1, <2>2, <2>3, <2>4 DEF Proceed
  <1>6. ASSUME NEW c \in Conns, Read(c) PROVE CastsTidy'
    <2>1. CASE Relay(c)
      BY <2>1 DEF TypeOK, Relay, Broadcast, CastsTidy, Broadcasting
    <2>2. CASE Reply(c)
      BY <1>1, <2>2 DEF TypeOK, Reply, Broadcasting
    <2>3. CASE Expel(c)
      BY <1>1, <2>3 DEF TypeOK, Expel, HangUp, Broadcasting
    <2> QED
      BY <1>6, <2>1, <2>2, <2>3 DEF Read
  <1>7. ASSUME NEW c \in Conns, ServeEnd(c) PROVE CastsTidy'
    <2>1. CASE DepartBegin(c, Handler(c)) /\ Goto(c, "unwind") /\ kids' = kids /\ main' = main
      <3>1. pc[c] \in {"serve", "expelled"}
        BY <1>7 DEF ServeEnd
      <3>2. dpc[c] = "none"
        BY <2>1 DEF DepartBegin, DepartedGone
      <3>3. \A u \in Tasks : Broadcasting(u) => Broadcasting(u)'
        BY <2>1, <3>1, <3>2 DEF TypeOK, DepartBegin, Broadcasting
      <3> QED
        BY <1>1, <2>1, <3>3 DEF TypeOK, DepartBegin, HangUp
    <2>2. CASE DepartNoop(c)
      BY <1>1, <1>7, <2>2 DEF TypeOK, ServeEnd, DepartBegin, DepartNoop, HangUp, Broadcasting
    <2> QED
      BY <1>7, <2>1, <2>2 DEF ServeEnd
  <1>8. ASSUME NEW c \in Conns, Depart(c) PROVE CastsTidy'
    <2>1. CASE DepartClosed(c)
      BY <2>1 DEF TypeOK, DepartClosed, Broadcast, CastsTidy, Broadcasting
    <2>2. CASE DepartSilently(c)
      BY <1>1, <2>2 DEF TypeOK, DepartSilently, Broadcasting
    <2>3. CASE DepartRoster(c)
      BY <2>3 DEF TypeOK, DepartRoster, BroadcastRoster, Broadcast, Returned, CastsTidy, Broadcasting
    <2>4. CASE DepartEnd(c)
      BY <2>4 DEF TypeOK, DepartEnd, Returned, CastsTidy, Broadcasting
    <2> QED
      BY <1>8, <2>1, <2>2, <2>3, <2>4 DEF Depart
  <1>9. ASSUME NEW c \in Conns, Socket(c) PROVE CastsTidy'
    <2>1. CASE Stall(c)
      BY <1>1, <2>1 DEF TypeOK, Stall, Broadcasting
    <2>2. CASE Recover(c)
      BY <1>1, <2>2 DEF TypeOK, Recover, Broadcasting
    <2>3. CASE PeerGone(c)
      BY <1>1, <2>3 DEF TypeOK, PeerGone, HangUp, Broadcasting
    <2> QED
      BY <1>9, <2>1, <2>2, <2>3 DEF Socket
  <1>10. ASSUME NEW t \in Tasks, Clean(t) PROVE CastsTidy'
    <2>1. CASE Cleanup(t)
      BY <2>1 DEF TypeOK, Cleanup, CastsTidy, Broadcasting
    <2>2. ASSUME NEW c \in Conns, RunKid(t, c), DepartBegin(c, t) PROVE CastsTidy'
      <3>1. dpc[c] = "none"
        BY <2>2 DEF DepartBegin, DepartedGone
      <3>2. \A u \in Tasks : Broadcasting(u) => Broadcasting(u)'
        BY <2>2, <3>1 DEF TypeOK, RunKid, DepartBegin, Broadcasting
      <3> QED
        BY <2>2, <3>2 DEF TypeOK, RunKid, DepartBegin, HangUp, CastsTidy
    <2>3. ASSUME NEW c \in Conns, RunKid(t, c), DepartNoop(c) PROVE CastsTidy'
      BY <2>3 DEF TypeOK, RunKid, DepartNoop, CastsTidy, Broadcasting
    <2> QED
      BY <1>10, <2>1, <2>2, <2>3 DEF Clean, RunKid
  <1>11. CASE StopSignal
    BY <1>1, <1>11 DEF StopSignal, Broadcasting
  <1>12. CASE Stopping
    <2>1. CASE LibClose
      BY <1>1, <2>1 DEF TypeOK, LibClose, HangUp, Broadcasting
    <2>2. CASE MainShutdown
      BY <2>2 DEF TypeOK, MainShutdown, Broadcast, CastsTidy, Broadcasting
    <2>3. CASE MainCloseAll
      BY <2>3 DEF TypeOK, MainCloseAll, HangUp, Returned, CastsTidy, Broadcasting
    <2>4. CASE MainExit
      BY <1>1, <2>4 DEF MainExit, Broadcasting
    <2> QED
      BY <1>12, <2>1, <2>2, <2>3, <2>4 DEF Stopping
  <1>13. CASE UNCHANGED vars
    BY <1>1, <1>13 DEF vars, Broadcasting
  <1> QED
    BY <1>2, <1>3, <1>4, <1>5, <1>6, <1>7, <1>8, <1>9, <1>10, <1>11, <1>12, <1>13
       DEF Next, Terminated

\* A connection still in its handshake is in nobody's hands.
LEMMA StrangersStep == TypeOK /\ StrangersUnknown /\ [Next]_vars => StrangersUnknown'
  <1> SUFFICES ASSUME TypeOK, StrangersUnknown, [Next]_vars PROVE StrangersUnknown'
    OBVIOUS
  <1> USE TaskFacts DEF Goto, client, casts
  \* Steps that only shrink what is known, or draw it from what was known.
  <1>1. ASSUME Strangers' \subseteq Strangers,
               Strangers' \cap (registry' \cup departed') = {},
               \A t \in Tasks : wait'[t] \cup fail'[t] \cup kids'[t]
                                \subseteq wait[t] \cup fail[t] \cup kids[t] \cup registry
        PROVE  StrangersUnknown'
    BY <1>1 DEF StrangersUnknown
  <1>2. ASSUME NEW c \in Conns, Admit(c) \/ Refuse(c) PROVE StrangersUnknown'
    BY <1>1, <1>2 DEF TypeOK, Admit, Refuse, Strangers, StrangersUnknown
  <1>3. ASSUME NEW c \in Conns, Handshake(c) PROVE StrangersUnknown'
    <2>1. CASE AuthReject(c)
      BY <1>1, <2>1 DEF TypeOK, AuthReject, HangUp, Strangers, StrangersUnknown
    <2>2. CASE AuthAccept(c)
      BY <1>1, <2>2 DEF TypeOK, AuthAccept, Register, Broadcast, Strangers, StrangersUnknown
    <2>3. CASE AuthAcceptDead(c)
      BY <1>1, <2>3 DEF TypeOK, AuthAcceptDead, Register, Strangers, StrangersUnknown
    <2> QED
      BY <1>3, <2>1, <2>2, <2>3 DEF Handshake
  <1>4. ASSUME NEW c \in Conns, Proceed(c) PROVE StrangersUnknown'
    <2>1. CASE AfterJoined(c)
      BY <1>1, <2>1 DEF TypeOK, AfterJoined, BroadcastRoster, Broadcast, Strangers, StrangersUnknown
    <2>2. CASE Replied(c) \/ BackToServe(c) \/ Unwound(c)
      BY <1>1, <2>2 DEF TypeOK, Replied, BackToServe, Unwound, Strangers, StrangersUnknown
    <2> QED
      BY <1>4, <2>1, <2>2 DEF Proceed
  <1>5. ASSUME NEW c \in Conns, Read(c) PROVE StrangersUnknown'
    <2>1. CASE Relay(c)
      BY <1>1, <2>1 DEF TypeOK, Relay, Broadcast, Strangers, StrangersUnknown
    <2>2. CASE Reply(c)
      BY <1>1, <2>2 DEF TypeOK, Reply, Strangers, StrangersUnknown
    <2>3. CASE Expel(c)
      BY <1>1, <2>3 DEF TypeOK, Expel, HangUp, Strangers, StrangersUnknown
    <2> QED
      BY <1>5, <2>1, <2>2, <2>3 DEF Read
  <1>6. ASSUME NEW c \in Conns, ServeEnd(c) PROVE StrangersUnknown'
    <2>1. c \notin Strangers
      BY <1>6 DEF ServeEnd, Strangers
    <2>2. CASE DepartBegin(c, Handler(c)) /\ Goto(c, "unwind") /\ kids' = kids
      BY <1>1, <2>1, <2>2 DEF TypeOK, DepartBegin, HangUp, Strangers, StrangersUnknown
    <2>3. CASE DepartNoop(c) /\ Goto(c, "done") /\ kids' = kids
      BY <1>1, <2>1, <2>3 DEF TypeOK, DepartNoop, Strangers, StrangersUnknown
    <2> QED
      BY <1>6, <2>2, <2>3 DEF ServeEnd
  <1>7. ASSUME NEW c \in Conns, Depart(c) PROVE StrangersUnknown'
    <2>1. CASE DepartClosed(c)
      BY <1>1, <2>1 DEF TypeOK, DepartClosed, Broadcast, Strangers, StrangersUnknown
    <2>2. CASE DepartRoster(c)
      BY <1>1, <2>2 DEF TypeOK, DepartRoster, BroadcastRoster, Broadcast, Strangers, StrangersUnknown
    <2>3. CASE DepartSilently(c) \/ DepartEnd(c)
      BY <1>1, <2>3 DEF TypeOK, DepartSilently, DepartEnd, Strangers, StrangersUnknown
    <2> QED
      BY <1>7, <2>1, <2>2, <2>3 DEF Depart
  <1>8. ASSUME NEW c \in Conns, Socket(c) PROVE StrangersUnknown'
    <2>1. CASE Stall(c)
      BY <1>1, <2>1 DEF TypeOK, Stall, Strangers, StrangersUnknown
    <2>2. CASE Recover(c)
      BY <1>1, <2>2 DEF TypeOK, Recover, Strangers, StrangersUnknown
    <2>3. CASE PeerGone(c)
      BY <1>1, <2>3 DEF TypeOK, PeerGone, HangUp, Strangers, StrangersUnknown
    <2> QED
      BY <1>8, <2>1, <2>2, <2>3 DEF Socket
  <1>9. ASSUME NEW t \in Tasks, Clean(t) PROVE StrangersUnknown'
    <2>1. CASE Cleanup(t)
      BY <1>1, <2>1 DEF TypeOK, Cleanup, Strangers, StrangersUnknown
    <2>2. ASSUME NEW c \in Conns, RunKid(t, c), DepartBegin(c, t) PROVE StrangersUnknown'
      BY <1>1, <2>2 DEF TypeOK, RunKid, DepartBegin, HangUp, Strangers, StrangersUnknown
    <2>3. ASSUME NEW c \in Conns, RunKid(t, c), DepartNoop(c) PROVE StrangersUnknown'
      BY <1>1, <2>3 DEF TypeOK, RunKid, DepartNoop, Strangers, StrangersUnknown
    <2> QED
      BY <1>9, <2>1, <2>2, <2>3 DEF Clean, RunKid
  <1>10. CASE StopSignal
    BY <1>1, <1>10 DEF TypeOK, StopSignal, Strangers, StrangersUnknown
  <1>11. CASE Stopping
    <2>1. CASE LibClose
      BY <1>1, <2>1 DEF TypeOK, LibClose, HangUp, Strangers, StrangersUnknown
    <2>2. CASE MainShutdown
      BY <1>1, <2>2 DEF TypeOK, MainShutdown, Broadcast, Strangers, StrangersUnknown
    <2>3. CASE MainCloseAll
      BY <1>1, <2>3 DEF TypeOK, MainCloseAll, HangUp, Strangers, StrangersUnknown
    <2>4. CASE MainExit
      BY <1>1, <2>4 DEF TypeOK, MainExit, Strangers, StrangersUnknown
    <2> QED
      BY <1>11, <2>1, <2>2, <2>3, <2>4 DEF Stopping
  <1>12. CASE UNCHANGED vars
    BY <1>1, <1>12 DEF vars, Strangers, StrangersUnknown
  <1> QED
    BY <1>2, <1>3, <1>4, <1>5, <1>6, <1>7, <1>8, <1>9, <1>10, <1>11, <1>12
       DEF Next, Terminated

\* The departed are out of the registry until shutdown() takes it over.
LEMMA DepartedStep ==
    TypeOK /\ StrangersUnknown /\ DepartedGone /\ [Next]_vars => DepartedGone'
  <1> SUFFICES ASSUME TypeOK, StrangersUnknown, DepartedGone, [Next]_vars PROVE DepartedGone'
    OBVIOUS
  <1> USE TaskFacts DEF Goto, client, casts
  <1>1. ASSUME NEW c \in Conns, Admit(c) \/ Refuse(c) PROVE DepartedGone'
    BY <1>1 DEF TypeOK, Admit, Refuse, DepartedGone
  <1>2. ASSUME NEW c \in Conns, Handshake(c) PROVE DepartedGone'
    BY <1>2 DEF TypeOK, Handshake, AuthReject, AuthAccept, AuthAcceptDead, Register,
       Strangers, StrangersUnknown, DepartedGone
  <1>3. ASSUME NEW c \in Conns, Proceed(c) PROVE DepartedGone'
    BY <1>3 DEF TypeOK, Proceed, AfterJoined, Replied, BackToServe, Unwound, DepartedGone
  <1>4. ASSUME NEW c \in Conns, Read(c) \/ Socket(c) PROVE DepartedGone'
    BY <1>4 DEF TypeOK, Read, Relay, Reply, Expel, Socket, Stall, Recover, PeerGone, DepartedGone
  <1>5. ASSUME NEW c \in Conns, ServeEnd(c) PROVE DepartedGone'
    BY <1>5 DEF TypeOK, ServeEnd, DepartBegin, DepartNoop, DepartedGone
  <1>6. ASSUME NEW c \in Conns, Depart(c) PROVE DepartedGone'
    BY <1>6 DEF TypeOK, Depart, DepartClosed, DepartSilently, DepartRoster, DepartEnd, DepartedGone
  <1>7. ASSUME NEW t \in Tasks, Clean(t) PROVE DepartedGone'
    <2>1. CASE Cleanup(t)
      BY <2>1 DEF TypeOK, Cleanup, DepartedGone
    <2>2. ASSUME NEW c \in Conns, RunKid(t, c) PROVE DepartedGone'
      BY <2>2 DEF TypeOK, RunKid, DepartBegin, DepartNoop, DepartedGone
    <2> QED
      BY <1>7, <2>1, <2>2 DEF Clean
  <1>8. CASE StopSignal \/ LibClose \/ MainShutdown
    BY <1>8 DEF TypeOK, StopSignal, LibClose, MainShutdown, DepartedGone
  <1>10. CASE MainCloseAll \/ MainExit
    <2>1. main \in {"notify", "goodbye"} /\ main' \in {"goodbye", "exited"}
      BY <1>10 DEF MainCloseAll, MainExit
    <2>2. shuttingDown /\ shuttingDown'
      BY <1>10, <2>1 DEF MainCloseAll, MainExit, DepartedGone, TypeOK
    <2> QED
      BY <1>10, <2>1, <2>2 DEF MainCloseAll, MainExit, DepartedGone
  <1>9. CASE UNCHANGED vars
    BY <1>9 DEF vars, DepartedGone
  <1> QED
    BY <1>1, <1>2, <1>3, <1>4, <1>5, <1>6, <1>7, <1>8, <1>9, <1>10 DEF Next, Stopping, Terminated

\* What keeps the rosters in step: same members, no live member resent.
LEMMA SyncedKept ==
    ASSUME Synced, registry' = registry, Ghosts' = Ghosts,
           registry \cap Live' \subseteq Live,
           \A c \in registry \cap Live' : roster'[c] = roster[c]
    PROVE  Synced'
  BY DEF Synced

\* Unless a step breaks the agreement, or pays somebody's debt, it is kept.
LEMMA OwedKept ==
    ASSUME RostersOwed, shuttingDown' = shuttingDown,
           Synced => Synced', \A c \in Conns : Owed(c) => Owed(c)'
    PROVE  RostersOwed'
  BY DEF RostersOwed

\* depart() itself owes the roster it will send.
LEMMA OwedDepartBegin ==
    ASSUME TypeOK, NEW c \in Conns, NEW t \in Tasks, DepartBegin(c, t)
    PROVE  RostersOwed'
  BY DEF TypeOK, DepartBegin, RostersOwed, Owed

\* A broadcast of the roster leaves every live member with the registry.
LEMMA SyncedByRoster ==
    ASSUME TypeOK, NEW t \in Tasks, BroadcastRoster(t), registry' = registry, ws' = ws
    PROVE  Synced'
  BY DEF TypeOK, BroadcastRoster, Synced, Live, Ghosts

\* Whenever some live client's roster is out of date, somebody is bound to
\* broadcast a newer one.
LEMMA OwedStep == TypeOK /\ RosterInv /\ [Next]_vars => RostersOwed'
  <1> SUFFICES ASSUME TypeOK, RosterInv, [Next]_vars PROVE RostersOwed'
    OBVIOUS
  <1> USE TaskFacts DEF Goto, client, casts
  <1>0. CastsTidy /\ StrangersUnknown /\ DepartedGone /\ RostersOwed
    BY DEF RosterInv
  <1>1. ASSUME NEW c \in Conns, Admit(c) \/ Refuse(c) PROVE RostersOwed'
    <2>1. c \notin registry
      BY <1>0, <1>1 DEF Admit, Refuse, StrangersUnknown, Strangers
    <2>2. Ghosts' = Ghosts /\ registry \cap Live' \subseteq Live
      BY <1>1, <2>1 DEF TypeOK, Admit, Refuse, Ghosts, Live
    <2>3. Synced => Synced'
      BY <1>1, <2>2, SyncedKept DEF Admit, Refuse
    <2>4. \A d \in Conns : Owed(d) => Owed(d)'
      BY <1>1 DEF TypeOK, Admit, Refuse, Owed
    <2> QED
      BY <1>0, <1>1, <2>3, <2>4, OwedKept DEF Admit, Refuse
  <1>2. ASSUME NEW c \in Conns, AuthReject(c) PROVE RostersOwed'
    <2>1. c \notin registry
      BY <1>0, <1>2 DEF AuthReject, StrangersUnknown, Strangers
    <2>2. Ghosts' = Ghosts /\ registry \cap Live' \subseteq Live
      BY <1>2, <2>1 DEF TypeOK, AuthReject, HangUp, Ghosts, Live
    <2>3. \A d \in registry : roster'[d] = roster[d]
      BY <1>2, <2>1 DEF TypeOK, AuthReject, HangUp
    <2>4. Synced => Synced'
      BY <1>2, <2>2, <2>3, SyncedKept DEF AuthReject
    <2>5. \A d \in Conns : Owed(d) => Owed(d)'
      BY <1>2 DEF TypeOK, AuthReject, Owed
    <2> QED
      BY <1>0, <1>2, <2>4, <2>5, OwedKept DEF AuthReject
  <1>3. ASSUME NEW c \in Conns, AuthAccept(c) PROVE RostersOwed'
    BY <1>3 DEF TypeOK, AuthAccept, RostersOwed, Owed
  <1>4. ASSUME NEW c \in Conns, AuthAcceptDead(c) PROVE RostersOwed'
    <2>1. c \notin registry
      BY <1>0, <1>4 DEF AuthAcceptDead, StrangersUnknown, Strangers
    <2>2. Ghosts' = Ghosts \cup {c} /\ registry' = registry \cup {c} /\ Live' = Live
      BY <1>4, <2>1 DEF TypeOK, AuthAcceptDead, Register, Ghosts, Live
    <2>3. Synced => Synced'
      BY <1>4, <2>1, <2>2 DEF AuthAcceptDead, Synced
    <2>4. \A d \in Conns : Owed(d) => Owed(d)'
      BY <1>4 DEF TypeOK, AuthAcceptDead, Register, Owed
    <2> QED
      BY <1>0, <1>4, <2>3, <2>4, OwedKept DEF AuthAcceptDead
  <1>5. ASSUME NEW c \in Conns, Proceed(c) PROVE RostersOwed'
    <2>1. CASE AfterJoined(c)
      BY <2>1, SyncedByRoster DEF AfterJoined, RostersOwed
    <2>2. CASE Replied(c) \/ BackToServe(c) \/ Unwound(c)
      <3>1. Ghosts' = Ghosts \/ shuttingDown
        BY <1>0, <2>2 DEF TypeOK, Replied, BackToServe, Unwound, Ghosts, DepartedGone
      <3>2. CASE shuttingDown
        BY <2>2, <3>2 DEF Replied, BackToServe, Unwound, RostersOwed
      <3>3. CASE Ghosts' = Ghosts
        <4>1. Synced => Synced'
          BY <2>2, <3>3, SyncedKept DEF Replied, BackToServe, Unwound, Live
        <4>2. \A d \in Conns : Owed(d) => Owed(d)'
          BY <2>2 DEF TypeOK, Replied, BackToServe, Unwound, Owed
        <4> QED
          BY <1>0, <2>2, <4>1, <4>2, OwedKept DEF Replied, BackToServe, Unwound
      <3> QED
        BY <3>1, <3>2, <3>3
    <2> QED
      BY <1>5, <2>1, <2>2 DEF Proceed
  <1>6. ASSUME NEW c \in Conns, Relay(c) \/ Reply(c) PROVE RostersOwed'
    <2>1. Ghosts' = Ghosts /\ Live' = Live
      BY <1>6 DEF TypeOK, Relay, Reply, Ghosts, Live
    <2>2. Synced => Synced'
      BY <1>6, <2>1, SyncedKept DEF Relay, Reply
    <2>3. \A d \in Conns : Owed(d) => Owed(d)'
      BY <1>6 DEF TypeOK, Relay, Reply, Owed
    <2> QED
      BY <1>0, <1>6, <2>2, <2>3, OwedKept DEF Relay, Reply
  <1>7. ASSUME NEW c \in Conns, Expel(c) PROVE RostersOwed'
    <2>1. Ghosts' = Ghosts /\ Live' = Live \ {c}
      BY <1>7 DEF TypeOK, Expel, HangUp, Ghosts, Live
    <2>2. \A d \in registry \cap Live' : roster'[d] = roster[d]
      BY <1>7, <2>1 DEF TypeOK, Expel, HangUp
    <2>3. Synced => Synced'
      BY <1>7, <2>1, <2>2, SyncedKept DEF Expel
    <2>4. \A d \in Conns : Owed(d) => Owed(d)'
      BY <1>7 DEF TypeOK, Expel, Owed
    <2> QED
      BY <1>0, <1>7, <2>3, <2>4, OwedKept DEF Expel
  <1>8. ASSUME NEW c \in Conns, ServeEnd(c) PROVE RostersOwed'
    <2>1. CASE DepartBegin(c, Handler(c))
      BY <2>1, OwedDepartBegin
    <2>2. CASE DepartNoop(c) /\ Goto(c, "done")
      <3>1. Ghosts' = Ghosts \/ shuttingDown
        BY <1>0, <2>2 DEF TypeOK, DepartNoop, Ghosts, DepartedGone
      <3>2. CASE shuttingDown
        BY <1>8, <3>2 DEF ServeEnd, RostersOwed
      <3>3. CASE Ghosts' = Ghosts
        <4>1. Synced => Synced'
          BY <2>2, <3>3, SyncedKept DEF DepartNoop, Live
        <4>2. \A d \in Conns : Owed(d) => Owed(d)'
          BY <1>8, <2>2 DEF TypeOK, ServeEnd, DepartNoop, Owed
        <4> QED
          BY <1>0, <1>8, <4>1, <4>2, OwedKept DEF ServeEnd
      <3> QED
        BY <3>1, <3>2, <3>3
    <2> QED
      BY <1>8, <2>1, <2>2 DEF ServeEnd
  <1>9. ASSUME NEW c \in Conns, Depart(c) PROVE RostersOwed'
    <2>1. CASE DepartClosed(c)
      BY <2>1 DEF TypeOK, DepartClosed, RostersOwed, Owed
    <2>2. CASE DepartSilently(c)
      BY <2>2 DEF DepartSilently, RostersOwed
    <2>3. CASE DepartRoster(c)
      BY <2>3, SyncedByRoster DEF DepartRoster, RostersOwed
    <2>4. CASE DepartEnd(c)
      <3>1. Synced => Synced'
        BY <2>4, SyncedKept DEF DepartEnd, Ghosts, Live
      <3>2. \A d \in Conns : Owed(d) => Owed(d)'
        BY <2>4 DEF TypeOK, DepartEnd, Owed
      <3> QED
        BY <1>0, <2>4, <3>1, <3>2, OwedKept DEF DepartEnd
    <2> QED
      BY <1>9, <2>1, <2>2, <2>3, <2>4 DEF Depart
  <1>10. ASSUME NEW c \in Conns, Socket(c) PROVE RostersOwed'
    <2>1. Ghosts' = Ghosts /\ Live' \subseteq Live
      BY <1>10 DEF TypeOK, Socket, Stall, Recover, PeerGone, HangUp, Ghosts, Live
    <2>2. \A d \in Live' : roster'[d] = roster[d]
      BY <1>10 DEF TypeOK, Socket, Stall, Recover, PeerGone, HangUp, Live
    <2>3. registry' = registry /\ shuttingDown' = shuttingDown
      BY <1>10 DEF Socket, Stall, Recover, PeerGone
    <2>4. Synced => Synced'
      BY <2>1, <2>2, <2>3, SyncedKept
    <2>5. \A d \in Conns : Owed(d) => Owed(d)'
      BY <1>10 DEF Socket, Stall, Recover, PeerGone, Owed
    <2> QED
      BY <1>0, <2>3, <2>4, <2>5, OwedKept
  <1>11. ASSUME NEW t \in Tasks, Cleanup(t) PROVE RostersOwed'
    <2>1. CASE registry \cap fail[t] = {}
      <3>1. registry' = registry
        BY <1>11, <2>1 DEF Cleanup
      <3>2. Synced => Synced'
        BY <1>11, <3>1, SyncedKept DEF Cleanup, Ghosts, Live
      <3>3. \A d \in Conns : Owed(d) => Owed(d)'
        BY <1>0, <1>11 DEF TypeOK, Cleanup, Owed, CastsTidy
      <3> QED
        BY <1>0, <1>11, <3>2, <3>3, OwedKept DEF Cleanup
    <2>2. CASE registry \cap fail[t] # {} /\ ~shuttingDown
      <3>1. PICK f \in registry : f \in fail[t]
        BY <2>2
      <3>2. f \in Conns /\ f \notin departed'
        BY <1>0, <1>11, <2>2, <3>1 DEF TypeOK, Cleanup, DepartedGone
      <3>3. f \in kids'[t]
        BY <1>11, <3>1 DEF TypeOK, Cleanup
      <3> QED
        BY <3>2, <3>3 DEF RostersOwed, Owed
    <2>3. CASE shuttingDown
      BY <1>11, <2>3 DEF Cleanup, RostersOwed
    <2> QED
      BY <2>1, <2>2, <2>3
  <1>12. ASSUME NEW t \in Tasks, NEW c \in Conns, RunKid(t, c) PROVE RostersOwed'
    <2>1. CASE DepartBegin(c, t)
      BY <2>1, OwedDepartBegin
    <2>2. CASE DepartNoop(c)
      <3>1. Synced => Synced'
        BY <1>12, <2>2, SyncedKept DEF RunKid, DepartNoop, Ghosts, Live
      <3>2. \A d \in Conns : Owed(d) => Owed(d)'
        BY <1>12, <2>2 DEF TypeOK, RunKid, DepartNoop, Owed
      <3> QED
        BY <1>0, <1>12, <3>1, <3>2, OwedKept DEF RunKid
    <2> QED
      BY <1>12, <2>1, <2>2 DEF RunKid
  <1>13. CASE StopSignal \/ UNCHANGED vars
    <2>1. Synced => Synced'
      BY <1>13, SyncedKept DEF StopSignal, vars, Ghosts, Live
    <2>2. \A d \in Conns : Owed(d) => Owed(d)'
      BY <1>13 DEF StopSignal, vars, Owed
    <2> QED
      BY <1>0, <1>13, <2>1, <2>2, OwedKept DEF StopSignal, vars
  <1>14. CASE LibClose
    <2>1. Live' = {}
      BY <1>14 DEF TypeOK, LibClose, HangUp, Live
    <2> QED
      BY <2>1 DEF RostersOwed, Synced
  <1>15. CASE MainShutdown \/ MainCloseAll \/ MainExit
    <2>1. shuttingDown'
      BY <1>0, <1>15 DEF MainShutdown, MainCloseAll, MainExit, DepartedGone, TypeOK
    <2> QED
      BY <2>1 DEF RostersOwed
  <1> QED
    BY <1>1, <1>2, <1>3, <1>4, <1>5, <1>6, <1>7, <1>8, <1>9, <1>10, <1>11, <1>12, <1>13,
       <1>14, <1>15
       DEF Next, Handshake, Read, Clean, Stopping, Terminated

\* The empty room is synced and owes nothing.
LEMMA RosterInvInit == Init => RosterInv
  BY DEF Init, RosterInv, CastsTidy, StrangersUnknown, DepartedGone, RostersOwed, Synced

\* Outside every broadcast and departure no debt is left.
LEMMA RosterInvConverges == TypeOK /\ RosterInv => RosterConverges
  <1> SUFFICES ASSUME TypeOK, RosterInv, Quiet PROVE Synced
    BY DEF RosterConverges, Synced
  <1>1. ~shuttingDown
    BY DEF Quiet, RosterInv, DepartedGone
  <1>2. \A t \in Tasks : ~Broadcasting(t)
    BY DEF Quiet, Broadcasting
  <1>3. \A c \in Conns : ~Owed(c)
    BY <1>2 DEF Quiet, Owed, RosterInv, CastsTidy
  <1> QED
    BY <1>1, <1>3 DEF RosterInv, RostersOwed

\* The strengthened invariant holds of every behaviour.
THEOREM RosterInvariant == Spec => []RosterInv
  <1>1. TypeOK /\ RosterInv /\ [Next]_vars => RosterInv'
    BY TidyStep, StrangersStep, DepartedStep, OwedStep DEF RosterInv
  <1> QED
    BY <1>1, RosterInvInit, TypeCorrect, PTL DEF Spec

\* Once the room is quiet, every live client was last sent exactly the room.
THEOREM RostersConverge == Spec => []RosterConverges
  BY RosterInvariant, RosterInvConverges, TypeCorrect, PTL

-----------------------------------------------------------------------------
(* Connections and members.                                                 *)

\* An open connection past its handshake is a member's, until the registry is
\* cleared at the end; and only connections that are gone count as failed.
Members ==
    /\ main # "exited" => \A c \in Live : pc[c] \in {"idle", "hello"} \/ c \in registry
    /\ \A t \in Tasks : fail[t] \cap Live = {}

\* No step takes an open connection's client from the room: a broadcast drops
\* only recipients that are gone, and a departure closes its socket first.
LEMMA MembersStep == TypeOK /\ StrangersUnknown /\ Members /\ [Next]_vars => Members'
  <1> SUFFICES ASSUME TypeOK, StrangersUnknown, Members, [Next]_vars PROVE Members'
    OBVIOUS
  <1> USE TaskFacts DEF Goto, client, casts, TypeOK, Members, Live
  <1>1. ASSUME NEW c \in Conns, Admit(c) PROVE Members'
    <2>1. \A t \in Tasks : c \notin fail[t]
      BY <1>1 DEF Admit, StrangersUnknown, Strangers
    <2> QED
      BY <1>1, <2>1 DEF Admit
  <1>2. ASSUME NEW c \in Conns, Refuse(c) PROVE Members'
    BY <1>2 DEF Refuse
  <1>3. ASSUME NEW c \in Conns, Handshake(c) PROVE Members'
    <2>1. CASE AuthReject(c)
      BY <2>1 DEF AuthReject, HangUp
    <2>2. CASE AuthAccept(c)
      BY <2>2 DEF AuthAccept, Register, Broadcast
    <2>3. CASE AuthAcceptDead(c)
      BY <2>3 DEF AuthAcceptDead, Register
    <2> QED
      BY <1>3, <2>1, <2>2, <2>3 DEF Handshake
  <1>4. ASSUME NEW c \in Conns, Proceed(c) PROVE Members'
    <2>1. CASE AfterJoined(c)
      BY <2>1 DEF AfterJoined, BroadcastRoster, Broadcast
    <2>2. CASE Replied(c) \/ BackToServe(c) \/ Unwound(c)
      BY <2>2 DEF Replied, BackToServe, Unwound
    <2> QED
      BY <1>4, <2>1, <2>2 DEF Proceed
  <1>5. ASSUME NEW c \in Conns, Read(c) PROVE Members'
    <2>1. CASE Relay(c)
      BY <2>1 DEF Relay, Broadcast
    <2>2. CASE Reply(c)
      BY <2>2 DEF Reply
    <2>3. CASE Expel(c)
      BY <2>3 DEF Expel, HangUp
    <2> QED
      BY <1>5, <2>1, <2>2, <2>3 DEF Read
  <1>6. ASSUME NEW c \in Conns, ServeEnd(c) PROVE Members'
    <2>1. pc[c] \notin {"idle", "hello"} /\ UNCHANGED main
      BY <1>6 DEF ServeEnd
    <2>2. CASE DepartBegin(c, Handler(c)) /\ Goto(c, "unwind")
      BY <2>1, <2>2 DEF DepartBegin, HangUp
    <2>3. CASE DepartNoop(c) /\ Goto(c, "done")
      BY <2>1, <2>3 DEF DepartNoop
    <2> QED
      BY <1>6, <2>2, <2>3 DEF ServeEnd
  <1>7. ASSUME NEW c \in Conns, Depart(c) PROVE Members'
    <2>1. CASE DepartClosed(c)
      BY <2>1 DEF DepartClosed, Broadcast
    <2>2. CASE DepartRoster(c)
      BY <2>2 DEF DepartRoster, BroadcastRoster, Broadcast
    <2>3. CASE DepartSilently(c) \/ DepartEnd(c)
      BY <2>3 DEF DepartSilently, DepartEnd
    <2> QED
      BY <1>7, <2>1, <2>2, <2>3 DEF Depart
  <1>8. ASSUME NEW c \in Conns, Socket(c) PROVE Members'
    <2>1. CASE Stall(c) \/ Recover(c)
      BY <2>1 DEF Stall, Recover
    <2>2. CASE PeerGone(c)
      BY <2>2 DEF PeerGone, HangUp
    <2> QED
      BY <1>8, <2>1, <2>2 DEF Socket
  <1>9. ASSUME NEW t \in Tasks, Clean(t) PROVE Members'
    <2>1. CASE Cleanup(t)
      BY <2>1 DEF Cleanup
    <2>2. ASSUME NEW c \in Conns, RunKid(t, c) PROVE Members'
      BY <2>2 DEF RunKid, DepartBegin, DepartNoop, HangUp
    <2> QED
      BY <1>9, <2>1, <2>2 DEF Clean
  <1>10. CASE StopSignal
    BY <1>10 DEF StopSignal
  <1>11. CASE Stopping
    <2>1. CASE LibClose
      BY <2>1 DEF LibClose, HangUp
    <2>2. CASE MainShutdown
      BY <2>2 DEF MainShutdown, Broadcast
    <2>3. CASE MainCloseAll
      BY <2>3 DEF MainCloseAll, HangUp
    <2>4. CASE MainExit
      BY <2>4 DEF MainExit
    <2> QED
      BY <1>11, <2>1, <2>2, <2>3, <2>4 DEF Stopping
  <1>12. CASE UNCHANGED vars
    BY <1>12 DEF vars
  <1> QED
    BY <1>1, <1>2, <1>3, <1>4, <1>5, <1>6, <1>7, <1>8, <1>9, <1>10, <1>11, <1>12
       DEF Next, Terminated

-----------------------------------------------------------------------------
(* The shutdown.  A departure is awaited by somebody who cannot be done     *)
(* before it is, and departures do not await each other in a circle: once   *)
(* every handler is done and run() has no broadcast, none is left.          *)

\* An effective depart() of c has begun and not ended.
Departing(c) == dpc[c] \in {"closing", "left", "roster"}

\* Whoever awaits a departure is inside a broadcast, or the handler unwinding.
Awaited ==
    \A c \in Conns : Departing(c) =>
        /\ owner[c] \in Tasks
        /\ Broadcasting(owner[c]) \/ (owner[c] = Handler(c) /\ pc[c] = "unwind")

\* Of any departures, one is not awaited by another of them: the oldest.
Rooted ==
    \A S \in SUBSET {c \in Conns : Departing(c)} :
        S # {} => \E c \in S : \A d \in S : owner[c] # Departure(d)

\* What run() has brought to an end at each of its stages.
WoundUp ==
    /\ main \in {"draining", "notify", "goodbye", "exited"} => Live = {}
    /\ main \in {"notify", "goodbye", "exited"} => \A c \in Conns : pc[c] \in {"idle", "done"}
    /\ main \in {"goodbye", "exited"} => \A c \in Conns : ~Departing(c)
    /\ main = "exited" => registry = {}

\* A depart() that begins is gathered by a broadcast, or the handler's own.
LEMMA Beginning ==
    ASSUME TypeOK, CastsTidy, DepartedGone, NEW c \in Conns, NEW t \in Tasks, DepartBegin(c, t),
           (t = Handler(c) /\ pc[c] \in {"serve", "expelled"}) \/ c \in kids[t]
    PROVE  /\ dpc[c] = "none" /\ ~Broadcasting(Departure(c))
           /\ t # Departure(c)
           /\ c \in kids[t] => Broadcasting(t)
  <1> USE TaskFacts
  <1>1. dpc[c] = "none"
    BY DEF DepartBegin, DepartedGone
  <1>2. ~Broadcasting(Departure(c))
    BY <1>1 DEF Broadcasting
  <1>3. c \in kids[t] => Broadcasting(t)
    BY DEF CastsTidy
  <1> QED
    BY <1>1, <1>2, <1>3

\* Somebody goes on awaiting each departure until it is over.
LEMMA AwaitedStep ==
    TypeOK /\ CastsTidy /\ DepartedGone /\ Awaited /\ [Next]_vars => Awaited'
  <1> SUFFICES ASSUME TypeOK, CastsTidy, DepartedGone, Awaited, [Next]_vars PROVE Awaited'
    OBVIOUS
  <1> USE TaskFacts DEF Goto, client, casts
  \* Steps that end no broadcast and no unwinding that is awaited.
  <1>1. ASSUME \A c \in Conns : Departing(c)' => Departing(c) /\ owner'[c] = owner[c],
               \A t \in Tasks : Broadcasting(t) =>
                   Broadcasting(t)' \/ \A c \in Conns : Departing(c)' => owner[c] # t,
               \A c \in Conns : pc[c] = "unwind" => pc'[c] = "unwind" \/ ~Departing(c)
        PROVE  Awaited'
    BY <1>1 DEF Awaited
  <1>2. ASSUME NEW c \in Conns, Admit(c) \/ Refuse(c) \/ Handshake(c) PROVE Awaited'
    BY <1>1, <1>2 DEF TypeOK, Admit, Refuse, Handshake, AuthReject, AuthAccept, AuthAcceptDead,
       Departing, Broadcasting
  <1>3. ASSUME NEW c \in Conns, Proceed(c) PROVE Awaited'
    <2>1. CASE AfterJoined(c) \/ Replied(c)
      BY <1>1, <2>1 DEF TypeOK, AfterJoined, Replied, Departing, Broadcasting
    <2>2. CASE BackToServe(c)
      BY <1>1, <2>2 DEF TypeOK, BackToServe, Returned, Departing, Broadcasting
    <2>3. CASE Unwound(c)
      BY <1>1, <2>3 DEF TypeOK, Unwound, Departing, Broadcasting
    <2> QED
      BY <1>3, <2>1, <2>2, <2>3 DEF Proceed
  <1>4. ASSUME NEW c \in Conns, Read(c) \/ Socket(c) PROVE Awaited'
    BY <1>1, <1>4 DEF TypeOK, Read, Relay, Reply, Expel, Socket, Stall, Recover, PeerGone,
       Departing, Broadcasting
  <1>5. ASSUME NEW c \in Conns, ServeEnd(c) PROVE Awaited'
    <2>1. CASE DepartBegin(c, Handler(c)) /\ Goto(c, "unwind") /\ main' = main
      <3>1. pc[c] \in {"serve", "expelled"} /\ dpc[c] = "none"
        BY <1>5, <2>1, Beginning DEF ServeEnd
      <3>2. dpc' = [dpc EXCEPT ![c] = "closing"] /\ owner' = [owner EXCEPT ![c] = Handler(c)]
        BY <2>1 DEF DepartBegin
      <3>3. \A t \in Tasks : Broadcasting(t) => Broadcasting(t)'
        BY <2>1, <3>1, <3>2 DEF TypeOK, Broadcasting
      <3> QED
        BY <2>1, <3>1, <3>2, <3>3 DEF TypeOK, Awaited, Departing
    <2>2. CASE DepartNoop(c) /\ Goto(c, "done") /\ main' = main
      BY <1>1, <1>5, <2>2 DEF TypeOK, ServeEnd, DepartNoop, Departing, Broadcasting
    <2> QED
      BY <1>5, <2>1, <2>2 DEF ServeEnd
  <1>6. ASSUME NEW c \in Conns, Depart(c) PROVE Awaited'
    <2>1. CASE DepartClosed(c)
      BY <2>1 DEF TypeOK, DepartClosed, Awaited, Departing, Broadcasting
    <2>2. CASE DepartSilently(c)
      BY <1>1, <2>2 DEF TypeOK, DepartSilently, Departing, Broadcasting
    <2>3. CASE DepartRoster(c)
      BY <2>3 DEF TypeOK, DepartRoster, Awaited, Departing, Broadcasting
    <2>4. CASE DepartEnd(c)
      BY <1>1, <2>4 DEF TypeOK, DepartEnd, Returned, Departing, Broadcasting
    <2> QED
      BY <1>6, <2>1, <2>2, <2>3, <2>4 DEF Depart
  <1>7. ASSUME NEW t \in Tasks, Clean(t) PROVE Awaited'
    <2>1. CASE Cleanup(t)
      BY <1>1, <2>1 DEF Cleanup, Departing, Broadcasting
    <2>2. ASSUME NEW c \in Conns, RunKid(t, c), DepartBegin(c, t) PROVE Awaited'
      <3>1. dpc[c] = "none" /\ Broadcasting(t)
        BY <2>2, Beginning DEF RunKid
      <3>2. dpc' = [dpc EXCEPT ![c] = "closing"] /\ owner' = [owner EXCEPT ![c] = t]
        BY <2>2 DEF DepartBegin
      <3>3. \A u \in Tasks : Broadcasting(u) => Broadcasting(u)'
        BY <2>2, <3>1, <3>2 DEF TypeOK, RunKid, Broadcasting
      <3> QED
        BY <2>2, <3>1, <3>2, <3>3 DEF TypeOK, RunKid, Awaited, Departing
    <2>3. ASSUME NEW c \in Conns, RunKid(t, c), DepartNoop(c) PROVE Awaited'
      BY <1>1, <2>3 DEF RunKid, DepartNoop, Departing, Broadcasting
    <2> QED
      BY <1>7, <2>1, <2>2, <2>3 DEF Clean, RunKid
  <1>8. CASE StopSignal \/ LibClose \/ MainShutdown \/ MainExit
    BY <1>1, <1>8 DEF StopSignal, LibClose, MainShutdown, MainExit, Departing, Broadcasting
  <1>9. CASE MainCloseAll
    BY <1>1, <1>9 DEF MainCloseAll, Returned, Departing, Broadcasting
  <1>10. CASE UNCHANGED vars
    BY <1>1, <1>10 DEF vars, Departing, Broadcasting
  <1> QED
    BY <1>2, <1>3, <1>4, <1>5, <1>6, <1>7, <1>8, <1>9, <1>10 DEF Next, Stopping, Terminated

\* A departure of c begins, awaited by t.
Begins(c, t) ==
    /\ dpc[c] = "none" /\ t # Departure(c)
    /\ Broadcasting(t) \/ (t = Handler(c) /\ pc[c] \in {"serve", "expelled"})
    /\ dpc' = [dpc EXCEPT ![c] = "closing"]
    /\ owner' = [owner EXCEPT ![c] = t]
    /\ UNCHANGED main

\* A step begins one departure, or begins none and changes the owner of none.
LEMMA Departures ==
    ASSUME TypeOK, CastsTidy, DepartedGone, [Next]_vars
    PROVE  \/ \A c \in Conns : Departing(c)' => Departing(c) /\ owner'[c] = owner[c]
           \/ \E c \in Conns, t \in Tasks : Begins(c, t)
  <1> USE TaskFacts DEF client, casts
  <1> DEFINE Kept == \A c \in Conns : Departing(c)' => Departing(c) /\ owner'[c] = owner[c]
  <1>1. ASSUME UNCHANGED <<dpc, owner>> PROVE Kept
    BY <1>1 DEF Departing
  <1> HIDE DEF Kept
  <1>2. ASSUME NEW c \in Conns,
               \/ Admit(c) \/ Refuse(c) \/ Handshake(c) \/ Proceed(c) \/ Read(c) \/ Socket(c)
        PROVE  Kept
    BY <1>1, <1>2 DEF Admit, Refuse, Handshake, AuthReject, AuthAccept, AuthAcceptDead,
       Proceed, AfterJoined, Replied, BackToServe, Unwound, Read, Relay, Reply, Expel,
       Socket, Stall, Recover, PeerGone
  <1>3. ASSUME NEW c \in Conns, Depart(c) PROVE Kept
    BY <1>3 DEF TypeOK, Depart, DepartClosed, DepartSilently, DepartRoster, DepartEnd,
       Kept, Departing
  <1>4. ASSUME NEW c \in Conns, ServeEnd(c) PROVE Kept \/ Begins(c, Handler(c))
    BY <1>1, <1>4, Beginning DEF ServeEnd, DepartBegin, DepartNoop, Begins
  <1>5. ASSUME NEW t \in Tasks, NEW c \in Conns, RunKid(t, c) PROVE Kept \/ Begins(c, t)
    BY <1>1, <1>5, Beginning DEF RunKid, DepartBegin, DepartNoop, Begins
  <1>6. ASSUME NEW t \in Tasks, Cleanup(t) PROVE Kept
    BY <1>1, <1>6 DEF Cleanup
  <1>7. ASSUME StopSignal \/ Stopping PROVE Kept
    BY <1>1, <1>7 DEF StopSignal, Stopping, LibClose, MainShutdown, MainCloseAll, MainExit
  <1>8. ASSUME UNCHANGED vars PROVE Kept
    BY <1>1, <1>8 DEF vars
  <1> QED
    BY <1>2, <1>3, <1>4, <1>5, <1>6, <1>7, <1>8, TaskFacts DEF Next, Clean, Terminated, Kept

\* A new departure is nobody's owner yet, so it closes no circle.
LEMMA RootedStep ==
    TypeOK /\ CastsTidy /\ DepartedGone /\ Awaited /\ Rooted /\ [Next]_vars => Rooted'
  <1> SUFFICES ASSUME TypeOK, CastsTidy, DepartedGone, Awaited, Rooted, [Next]_vars,
                      NEW S \in SUBSET {c \in Conns : Departing(c)'}, S # {}
               PROVE  \E c \in S : \A d \in S : owner'[c] # Departure(d)
    BY DEF Rooted
  <1>1. CASE \A c \in Conns : Departing(c)' => Departing(c) /\ owner'[c] = owner[c]
    BY <1>1 DEF Rooted
  <1>2. ASSUME NEW b \in Conns, NEW t \in Tasks, Begins(b, t)
        PROVE  \E c \in S : \A d \in S : owner'[c] # Departure(d)
    <2>1. \A c \in Conns : c # b /\ Departing(c)' => Departing(c) /\ owner'[c] = owner[c]
      BY <1>2 DEF TypeOK, Begins, Departing
    <2>2. CASE S = {b}
      BY <1>2, <2>2 DEF TypeOK, Begins
    <2>3. CASE S # {b}
      <3>1. S \ {b} # {} /\ S \ {b} \in SUBSET {c \in Conns : Departing(c)}
        BY <2>1, <2>3
      <3>2. PICK c \in S \ {b} : \A d \in S \ {b} : owner[c] # Departure(d)
        BY <3>1 DEF Rooted
      <3>3. Departing(c) /\ owner'[c] = owner[c]
        BY <2>1, <3>1
      <3>4. ~Broadcasting(Departure(b))
        BY <1>2, TaskFacts DEF Begins, Broadcasting
      <3>5. owner[c] # Departure(b)
        BY <3>3, <3>4, TaskFacts DEF Awaited
      <3> QED
        BY <3>2, <3>3, <3>5
    <2> QED
      BY <2>2, <2>3
  <1> QED
    BY <1>1, <1>2, Departures

\* When every handler is done and run() is outside its broadcast, nobody is
\* left to await a departure, and so there is none.
LEMMA AllDeparted ==
    ASSUME TypeOK, Awaited, Rooted, \A c \in Conns : pc[c] \in {"idle", "done"},
           main # "notify" \/ \A c \in Conns : owner[c] # Main
    PROVE  \A c \in Conns : ~Departing(c)
  <1> DEFINE S == {c \in Conns : Departing(c)}
  <1> SUFFICES ASSUME S # {} PROVE FALSE
    OBVIOUS
  <1>1. PICK c \in S : \A d \in S : owner[c] # Departure(d)
    BY DEF Rooted
  <1>2. Broadcasting(owner[c])
    BY <1>1 DEF Awaited
  <1>3. PICK d \in Conns : owner[c] = Departure(d) /\ dpc[d] \in {"left", "roster"}
    BY <1>1, <1>2, TaskFacts DEF Broadcasting
  <1> QED
    BY <1>1, <1>3 DEF Departing

\* Nothing starts again behind run()'s back.
LEMMA WoundUpStep ==
    TypeOK /\ CastsTidy /\ DepartedGone /\ Awaited /\ Rooted /\ WoundUp /\ [Next]_vars => WoundUp'
  <1> SUFFICES ASSUME TypeOK, CastsTidy, DepartedGone, Awaited, Rooted, WoundUp, [Next]_vars
               PROVE  WoundUp'
    OBVIOUS
  <1> USE DEF Goto, client, casts
  <1>0. CASE LibClose
    BY <1>0 DEF TypeOK, LibClose, HangUp, Live, WoundUp
  <1>1. CASE MainShutdown
    BY <1>1 DEF MainShutdown, WoundUp, Live
  <1>2. CASE MainCloseAll
    <2>1. Live' = {}
      BY <1>2 DEF TypeOK, MainCloseAll, HangUp, Live, WoundUp
    <2>2. \A c \in Conns : ~Departing(c)
      BY <1>2, AllDeparted DEF MainCloseAll, Returned, WoundUp
    <2> QED
      BY <1>2, <2>1, <2>2 DEF MainCloseAll, WoundUp, Departing
  <1>3. CASE MainExit
    BY <1>3 DEF MainExit, WoundUp, Departing, Live
  <1>4. CASE UNCHANGED vars
    BY <1>4 DEF vars, WoundUp, Departing, Live
  <1>5. CASE StopSignal
    BY <1>5 DEF StopSignal, WoundUp
  \* The other steps, of a server that is no longer serving.
  <1>6. ASSUME \/ \E c \in Conns :
                     \/ Admit(c) \/ Refuse(c) \/ Handshake(c) \/ Proceed(c) \/ Read(c)
                     \/ ServeEnd(c) \/ Depart(c) \/ Socket(c)
               \/ \E t \in Tasks : Clean(t)
        PROVE  WoundUp'
    <2>1. UNCHANGED main
      BY <1>6 DEF Admit, Refuse, Handshake, AuthReject, AuthAccept, AuthAcceptDead,
         Proceed, AfterJoined, Replied, BackToServe, Unwound, Read, Relay, Reply, Expel,
         ServeEnd, Depart, DepartClosed, DepartSilently, DepartRoster, DepartEnd,
         Socket, Stall, Recover, PeerGone, Clean, Cleanup, RunKid
    <2>2. ASSUME main \in {"draining", "notify", "goodbye", "exited"} PROVE Live' = {}
      <3>1. \A d \in Conns : ws[d] \notin {"open", "stalled"}
        BY <2>2 DEF Live, WoundUp
      <3>2. \A d \in Conns : ws'[d] \notin {"open", "stalled"}
        BY <1>6, <2>2, <3>1 DEF TypeOK, Admit, Refuse, Handshake, AuthReject, AuthAccept,
           AuthAcceptDead, Proceed, AfterJoined, Replied, BackToServe, Unwound, Read, Relay, Reply,
           Expel, ServeEnd, DepartBegin, DepartNoop, Depart, DepartClosed, DepartSilently,
           DepartRoster, DepartEnd, Socket, Stall, Recover, PeerGone, Clean, Cleanup, RunKid,
           HangUp, Live
      <3> QED
        BY <3>2 DEF Live
    <2>3. ASSUME main \in {"notify", "goodbye", "exited"}
          PROVE  (\A d \in Conns : pc'[d] \in {"idle", "done"}) /\ registry' \subseteq registry
      <3>1. \A d \in Conns : pc[d] \in {"idle", "done"}
        BY <2>3 DEF WoundUp
      <3>2. UNCHANGED pc /\ registry' \subseteq registry
        BY <1>6, <2>3, <3>1 DEF Admit, Refuse, Handshake, AuthReject, AuthAccept,
           AuthAcceptDead, Proceed, AfterJoined, Replied, BackToServe, Unwound, Read, Relay, Reply,
           Expel, ServeEnd, DepartBegin, DepartNoop, Depart, DepartClosed, DepartSilently,
           DepartRoster, DepartEnd, Socket, Stall, Recover, PeerGone, Clean, Cleanup, RunKid
      <3> QED
        BY <3>1, <3>2
    <2>4. ASSUME main \in {"goodbye", "exited"} PROVE \A d \in Conns : ~Departing(d)'
      <3>1. \A d \in Conns : pc[d] \in {"idle", "done"} /\ ~Departing(d)
        BY <2>4 DEF WoundUp
      <3>2. \A t \in Tasks : ~Broadcasting(t)
        BY <2>4, <3>1 DEF Broadcasting, Departing
      <3>3. \A d \in Conns, t \in Tasks : ~Begins(d, t)
        BY <3>1, <3>2 DEF Begins
      <3> QED
        BY <3>1, <3>3, Departures
    <2> QED
      BY <2>1, <2>2, <2>3, <2>4 DEF WoundUp
  <1> QED
    BY <1>0, <1>1, <1>2, <1>3, <1>4, <1>5, <1>6 DEF Next, Stopping, Terminated

\* The invariant of the shutdown.
ShutdownInv == Awaited /\ Rooted /\ WoundUp

\* Every departure has somebody waiting for it, until run() is past them all.
LEMMA ShutdownInvariant == Spec => []ShutdownInv
  <1>1. Init => ShutdownInv
    BY DEF Init, ShutdownInv, Awaited, Rooted, WoundUp, Departing
  <1>2. TypeOK /\ RosterInv /\ ShutdownInv /\ [Next]_vars => ShutdownInv'
    BY AwaitedStep, RootedStep, WoundUpStep DEF RosterInv, ShutdownInv
  <1> QED
    BY <1>1, <1>2, TypeCorrect, RosterInvariant, PTL DEF Spec

\* The process exits with nobody registered, no socket open and no departure
\* cut short, for any number of connections and whatever order they end in.
THEOREM ExitsClean == Spec => []CleanExit
  <1>1. TypeOK /\ ShutdownInv => CleanExit
    BY DEF TypeOK, ShutdownInv, WoundUp, Departing, CleanExit
  <1> QED
    BY <1>1, ShutdownInvariant, TypeCorrect, PTL

-----------------------------------------------------------------------------
(* The registry is a Room.                                                  *)

\* Somebody has a use for the client of c, or had it.
Known(c) ==
    \/ pc[c] \notin {"idle", "hello", "done"}
    \/ c \in registry \cup departed
    \/ \E t \in Tasks : c \in wait[t] \cup fail[t] \cup kids[t]

\* Whoever is known has a name, and nobody has one before the handshake is over.
KnownNamed ==
    \A c \in Conns :
        /\ Known(c) => name[c] # NoName
        /\ pc[c] \in {"idle", "hello"} => name[c] = NoName

\* Until shutdown() a client that is out of the registry is being departed: it
\* was gathered by a broadcast, or depart() is on, or has announced it.
GoneDeparts ==
    ~shuttingDown => \A c \in Conns :
        /\ c \in departed => dpc[c] # "none"
        /\ dpc[c] \in {"left", "roster", "done"} => leftCount[c] > 0
        /\ c \notin registry /\ name[c] # NoName =>
              dpc[c] # "none" \/ \E t \in Tasks : c \in kids[t]

\* The step gives nobody a name, makes nobody known, starts no handshake anew.
NobodyNew ==
    /\ UNCHANGED name
    /\ \A c \in Conns :
          /\ Known(c)' => Known(c)
          /\ pc'[c] \in {"idle", "hello"} => pc[c] \in {"idle", "hello"}

\* Only a registration makes somebody known.
LEMMA KnownGrows ==
    ASSUME TypeOK, [Next]_vars
    PROVE  NobodyNew \/ \E c \in Conns : AuthAccept(c) \/ AuthAcceptDead(c)
  <1> USE TaskFacts DEF Goto, client, casts
  <1>1. ASSUME NEW c \in Conns, Admit(c) \/ Refuse(c) \/ AuthReject(c) PROVE NobodyNew
    BY <1>1 DEF TypeOK, Admit, Refuse, AuthReject, HangUp, Known, NobodyNew
  <1>2. ASSUME NEW c \in Conns, Proceed(c) PROVE NobodyNew
    <2>1. CASE AfterJoined(c)
      BY <2>1 DEF TypeOK, AfterJoined, BroadcastRoster, Broadcast, Known, NobodyNew
    <2>2. CASE Replied(c) \/ BackToServe(c) \/ Unwound(c)
      BY <2>2 DEF TypeOK, Replied, BackToServe, Unwound, Known, NobodyNew
    <2> QED
      BY <1>2, <2>1, <2>2 DEF Proceed
  <1>3. ASSUME NEW c \in Conns, Read(c) PROVE NobodyNew
    <2>1. CASE Relay(c)
      BY <2>1 DEF TypeOK, Relay, Broadcast, Known, NobodyNew
    <2>2. CASE Reply(c) \/ Expel(c)
      BY <2>2 DEF TypeOK, Reply, Expel, HangUp, Known, NobodyNew
    <2> QED
      BY <1>3, <2>1, <2>2 DEF Read
  <1>4. ASSUME NEW c \in Conns, ServeEnd(c) PROVE NobodyNew
    BY <1>4 DEF TypeOK, ServeEnd, DepartBegin, DepartNoop, HangUp, Known, NobodyNew
  <1>5. ASSUME NEW c \in Conns, Depart(c) PROVE NobodyNew
    <2>1. CASE DepartClosed(c)
      BY <2>1 DEF TypeOK, DepartClosed, Broadcast, Known, NobodyNew
    <2>2. CASE DepartRoster(c)
      BY <2>2 DEF TypeOK, DepartRoster, BroadcastRoster, Broadcast, Known, NobodyNew
    <2>3. CASE DepartSilently(c) \/ DepartEnd(c)
      BY <2>3 DEF TypeOK, DepartSilently, DepartEnd, Known, NobodyNew
    <2> QED
      BY <1>5, <2>1, <2>2, <2>3 DEF Depart
  <1>6. ASSUME NEW c \in Conns, Socket(c) PROVE NobodyNew
    BY <1>6 DEF TypeOK, Socket, Stall, Recover, PeerGone, HangUp, Known, NobodyNew
  <1>7. ASSUME NEW t \in Tasks, Cleanup(t) PROVE NobodyNew
    BY <1>7 DEF TypeOK, Cleanup, Known, NobodyNew
  <1>8. ASSUME NEW t \in Tasks, NEW c \in Conns, RunKid(t, c) PROVE NobodyNew
    <2>1. CASE DepartBegin(c, t)
      BY <1>8, <2>1 DEF TypeOK, RunKid, DepartBegin, HangUp, Known, NobodyNew
    <2>2. CASE DepartNoop(c)
      BY <1>8, <2>2 DEF TypeOK, RunKid, DepartNoop, Known, NobodyNew
    <2> QED
      BY <1>8, <2>1, <2>2 DEF RunKid
  <1>9. CASE StopSignal \/ UNCHANGED vars
    BY <1>9 DEF StopSignal, vars, Known, NobodyNew
  <1>10. CASE LibClose \/ MainCloseAll \/ MainExit
    BY <1>10 DEF TypeOK, LibClose, MainCloseAll, MainExit, HangUp, Known, NobodyNew
  <1>11. CASE MainShutdown
    BY <1>11 DEF TypeOK, MainShutdown, Broadcast, Known, NobodyNew
  <1> QED
    BY <1>1, <1>2, <1>3, <1>4, <1>5, <1>6, <1>7, <1>8, <1>9, <1>10, <1>11
       DEF Next, Handshake, Clean, Stopping, Terminated

\* A registration names whom it makes known.
LEMMA KnownStep == TypeOK /\ KnownNamed /\ [Next]_vars => KnownNamed'
  <1> SUFFICES ASSUME TypeOK, KnownNamed, [Next]_vars PROVE KnownNamed'
    OBVIOUS
  <1>1. CASE NobodyNew
    BY <1>1 DEF NobodyNew, KnownNamed
  <1>2. ASSUME NEW c \in Conns, AuthAccept(c) \/ AuthAcceptDead(c) PROVE KnownNamed'
    <2>1. PICK u \in Names : name' = [name EXCEPT ![c] = u]
      BY <1>2, UniqueNameFree, ConstantsAssumption DEF AuthAccept, AuthAcceptDead, Register
    <2>2. \A d \in Conns : Known(d)' => Known(d) \/ d = c
      BY <1>2, TaskFacts
      DEF TypeOK, AuthAccept, AuthAcceptDead, Register, Broadcast, Goto, casts, Known
    <2>3. pc'[c] \notin {"idle", "hello"} /\ \A d \in Conns \ {c} : pc'[d] = pc[d]
      BY <1>2 DEF TypeOK, AuthAccept, AuthAcceptDead, Goto
    <2> QED
      BY <2>1, <2>2, <2>3, ConstantsAssumption DEF TypeOK, KnownNamed
  <1> QED
    BY <1>1, <1>2, KnownGrows

\* Whoever leaves the registry is on the way to an announcement.
LEMMA GoneStep ==
    TypeOK /\ RosterInv /\ LeaveInv /\ KnownNamed /\ GoneDeparts /\ [Next]_vars => GoneDeparts'
  <1> SUFFICES ASSUME TypeOK, CastsTidy, DepartedGone, LeaveInv, KnownNamed, GoneDeparts,
                      [Next]_vars, ~shuttingDown'
               PROVE  GoneDeparts'
    BY DEF RosterInv, GoneDeparts
  <1> USE TaskFacts, ConstantsAssumption DEF Goto, client, casts
  <1>1. ~shuttingDown
    BY DEF TypeOK, Next, vars, Admit, Refuse, Handshake, AuthReject, AuthAccept,
       AuthAcceptDead, Proceed, AfterJoined, Replied, BackToServe, Unwound, Read, Relay, Reply,
       Expel, ServeEnd, Depart, DepartClosed, DepartSilently, DepartRoster, DepartEnd,
       Socket, Stall, Recover, PeerGone, Clean, Cleanup, RunKid, StopSignal, Stopping,
       LibClose, MainShutdown, MainCloseAll, MainExit, Terminated
  \* Steps that begin and end no departure and remove nobody.
  <1>2. ASSUME UNCHANGED <<departed, dpc, leftCount, kids>>,
               \A c \in Conns : c \in registry' \/ (c \notin registry /\ name'[c] = name[c])
        PROVE  GoneDeparts'
    BY <1>1, <1>2 DEF GoneDeparts
  <1>3. ASSUME NEW c \in Conns,
               Admit(c) \/ Refuse(c) \/ Proceed(c) \/ Read(c) \/ Socket(c) \/ AuthReject(c)
        PROVE  GoneDeparts'
    BY <1>2, <1>3 DEF Admit, Refuse, AuthReject, Proceed, AfterJoined, Replied, BackToServe,
       Unwound, Read, Relay, Reply, Expel, Socket, Stall, Recover, PeerGone
  <1>4. ASSUME NEW c \in Conns, AuthAccept(c) \/ AuthAcceptDead(c) PROVE GoneDeparts'
    BY <1>2, <1>4 DEF TypeOK, AuthAccept, AuthAcceptDead, Register
  <1>5. ASSUME NEW c \in Conns, ServeEnd(c) PROVE GoneDeparts'
    <2>1. CASE DepartBegin(c, Handler(c)) /\ UNCHANGED <<kids, leftCount>>
      BY <1>1, <2>1 DEF TypeOK, DepartBegin, GoneDeparts
    <2>2. CASE DepartNoop(c) /\ UNCHANGED <<kids, leftCount>>
      BY <1>2, <2>2 DEF DepartNoop
    <2> QED
      BY <1>5, <2>1, <2>2 DEF ServeEnd
  <1>6. ASSUME NEW c \in Conns, Depart(c) PROVE GoneDeparts'
    <2>1. CASE DepartClosed(c)
      BY <1>1, <2>1 DEF TypeOK, DepartClosed, GoneDeparts
    <2>2. CASE DepartRoster(c)
      BY <1>1, <2>2 DEF TypeOK, DepartRoster, GoneDeparts
    <2>3. CASE DepartEnd(c)
      BY <1>1, <2>3 DEF TypeOK, DepartEnd, GoneDeparts
    <2> QED
      BY <1>1, <1>6, <2>1, <2>2, <2>3 DEF Depart, DepartSilently
  <1>7. ASSUME NEW t \in Tasks, Cleanup(t) PROVE GoneDeparts'
    <2>1. kids[t] = {}
      BY <1>7 DEF Cleanup, CastsTidy
    <2> QED
      BY <1>1, <1>7, <2>1 DEF TypeOK, Cleanup, GoneDeparts
  <1>8. ASSUME NEW t \in Tasks, NEW c \in Conns, RunKid(t, c) PROVE GoneDeparts'
    <2>1. CASE DepartBegin(c, t)
      BY <1>1, <1>8, <2>1 DEF TypeOK, RunKid, DepartBegin, GoneDeparts
    <2>2. CASE DepartNoop(c)
      BY <1>1, <1>8, <2>2 DEF TypeOK, RunKid, DepartNoop, GoneDeparts
    <2> QED
      BY <1>8, <2>1, <2>2 DEF RunKid
  <1>9. CASE StopSignal \/ LibClose \/ UNCHANGED vars
    BY <1>2, <1>9 DEF StopSignal, LibClose, vars
  <1>10. ~(MainShutdown \/ MainCloseAll \/ MainExit)
    BY <1>1 DEF MainShutdown, MainCloseAll, MainExit, DepartedGone
  <1> QED
    BY <1>3, <1>4, <1>5, <1>6, <1>7, <1>8, <1>9, <1>10
       DEF Next, Handshake, Clean, Stopping, Terminated

\* What the mapping to Room needs to know of the states of the server.
RoomInv == RosterInv /\ LeaveInv /\ ShutdownInv /\ UniqueNames /\ KnownNamed /\ GoneDeparts

\* It holds throughout.
LEMMA RoomInvariant == Spec => [](TypeOK /\ RoomInv)
  <1>1. Init => LeaveInv /\ KnownNamed /\ GoneDeparts
    BY DEF Init, LeaveInv, KnownNamed, Known, GoneDeparts
  <1>2. /\ TypeOK /\ RosterInv /\ LeaveInv /\ KnownNamed /\ GoneDeparts /\ [Next]_vars
        => LeaveInv' /\ KnownNamed' /\ GoneDeparts'
    BY LeaveStep, KnownStep, GoneStep
  <1>3. Spec => [](LeaveInv /\ KnownNamed /\ GoneDeparts)
    BY <1>1, <1>2, TypeCorrect, RosterInvariant, PTL DEF Spec
  <1>4. RosterInv /\ ShutdownInv /\ UniqueNames /\ (LeaveInv /\ KnownNamed /\ GoneDeparts)
        => RoomInv
    BY DEF RoomInv
  <1> QED
    BY <1>3, <1>4, TypeCorrect, RosterInvariant, ShutdownInvariant, NamesDistinct, PTL

\* What each status says of the server's state.
LEMMA StatusIs ==
    ASSUME TypeOK, RoomInv, NEW c \in Conns
    PROVE  /\ Status(c) = "announced" <=> leftCount[c] > 0
           /\ Status(c) = "member" <=> leftCount[c] = 0 /\ c \in registry
           /\ Status(c) = "gone" <=>
                leftCount[c] = 0 /\ c \notin registry /\ name[c] # NoName
           /\ Status(c) = "outside" <=>
                leftCount[c] = 0 /\ c \notin registry /\ name[c] = NoName
           /\ c \in registry => name[c] # NoName
  <1>1. c \in registry => name[c] # NoName
    BY DEF RoomInv, KnownNamed, Known
  <1>2. leftCount[c] \in {0, 1}
    BY DEF TypeOK, RoomInv, LeaveInv
  <1> QED
    BY <1>1, <1>2 DEF Status

\* The same of the state a step reaches.
LEMMA StatusThen ==
    ASSUME TypeOK', RoomInv', NEW c \in Conns
    PROVE  /\ Status(c)' = "announced" <=> leftCount'[c] > 0
           /\ Status(c)' = "member" <=> leftCount'[c] = 0 /\ c \in registry'
           /\ Status(c)' = "gone" <=>
                leftCount'[c] = 0 /\ c \notin registry' /\ name'[c] # NoName
           /\ c \in registry' => name'[c] # NoName
  <1>1. c \in registry' => name'[c] # NoName
    BY DEF RoomInv, KnownNamed, Known
  <1>2. leftCount'[c] \in {0, 1}
    BY DEF TypeOK, RoomInv, LeaveInv
  <1> QED
    BY <1>1, <1>2 DEF Status

\* Clients that stay as they were keep their status.
LEMMA StatusKept ==
    ASSUME NEW c \in Conns, leftCount'[c] = leftCount[c], name'[c] = name[c],
           c \in registry' <=> c \in registry
    PROVE  Status(c)' = Status(c)
  BY DEF Status

\* A step that removes clients from the registry, or none, is Remove of those
\* that were members, or no step of the Room.
LEMMA RoomRemove ==
    ASSUME TypeOK, RoomInv, TypeOK', RoomInv',
           UNCHANGED <<name, leftCount, shuttingDown>>, registry' \subseteq registry
    PROVE  Abstract!Next \/ UNCHANGED Abstract!vars
  <1> DEFINE S == {c \in registry \ registry' : leftCount[c] = 0}
  <1>1. S \in SUBSET Conns
    BY DEF TypeOK
  <1>2. \A c \in S : Status(c) = "member" /\ Status(c)' = "gone"
    BY <1>1, StatusIs, StatusThen DEF TypeOK
  <1>3. \A c \in Conns \ S : Status(c)' = Status(c)
    <2> TAKE c \in Conns \ S
    <2>1. CASE leftCount[c] > 0
      BY <2>1 DEF Status
    <2>2. CASE leftCount[c] = 0
      <3>1. c \in registry' <=> c \in registry
        BY <2>2
      <3> QED
        BY <3>1, StatusKept
    <2> QED
      BY <2>1, <2>2 DEF TypeOK
  <1>4. CASE S = {}
    BY <1>3, <1>4 DEF Abstract!vars
  <1>5. CASE S # {}
    <2>1. Abstract!Remove(S)
      BY <1>1, <1>2, <1>3, <1>5 DEF Abstract!Remove, Abstract!Members
    <2> QED
      BY <1>1, <2>1 DEF Abstract!Next
  <1> QED
    BY <1>4, <1>5

\* Whoever registers joins under a name that is free, before the shutdown.
LEMMA RoomJoin ==
    ASSUME TypeOK, RoomInv, TypeOK', RoomInv', NEW c \in Conns, AuthAccept(c) \/ AuthAcceptDead(c)
    PROVE  Abstract!Next
  <1>1. /\ pc[c] = "hello" /\ Register(c)
        /\ UNCHANGED <<leftCount, shuttingDown, departed>>
    BY DEF AuthAccept, AuthAcceptDead, Register
  <1>2. ~shuttingDown
    <2>1. main \notin {"notify", "goodbye", "exited"}
      BY <1>1 DEF RoomInv, ShutdownInv, WoundUp
    <2> QED
      BY <2>1 DEF TypeOK, RoomInv, RosterInv, DepartedGone
  <1>3. PICK n \in Requested : \E u \in UniqueName(n) : name' = [name EXCEPT ![c] = u]
    BY <1>1 DEF Register
  <1>4. PICK u \in UniqueName(n) : name' = [name EXCEPT ![c] = u]
    BY <1>3
  <1>5. u \in Names /\ (u \notin Taken \/ u \in Fallbacks)
    BY UniqueNameFree, ConstantsAssumption
  <1>6. name[c] = NoName /\ c \notin registry /\ c \notin departed
    BY <1>1 DEF RoomInv, KnownNamed, Known
  <1>7. leftCount[c] = 0
    BY <1>6 DEF RoomInv, LeaveInv, TypeOK
  <1>8. Status(c) = "outside" /\ Status(c)' = "member"
    <2>1. leftCount'[c] = 0 /\ c \in registry'
      BY <1>1, <1>7 DEF Register
    <2> QED
      BY <2>1, <1>6, <1>7, StatusIs, StatusThen
  <1>9. \A d \in Conns \ {c} : Status(d)' = Status(d)
    BY <1>1, <1>4, StatusKept DEF TypeOK, Register
  <1>10. u \in Fallbacks \/ \A d \in Abstract!Members : name[d] # u
    BY <1>5, StatusIs DEF Abstract!Members, Taken
  <1>11. Abstract!Join(c)
    BY <1>1, <1>2, <1>4, <1>5, <1>8, <1>9, <1>10 DEF Abstract!Join
  <1> QED
    BY <1>11 DEF Abstract!Next

\* The notice of a departure is the Room's announcement.
LEMMA RoomAnnounce ==
    ASSUME TypeOK, RoomInv, TypeOK', RoomInv', NEW c \in Conns, DepartClosed(c)
    PROVE  Abstract!Next
  <1>1. c \in departed /\ c \notin registry /\ leftCount[c] = 0 /\ name[c] # NoName
    BY DEF DepartClosed, RoomInv, LeaveInv, RosterInv, DepartedGone, KnownNamed, Known
  <1>2. /\ leftCount' = [leftCount EXCEPT ![c] = 1]
        /\ UNCHANGED <<name, registry, shuttingDown>> /\ ~shuttingDown
    BY <1>1 DEF DepartClosed, client
  <1>3. Status(c) = "gone" /\ Status(c)' = "announced"
    <2>1. leftCount'[c] = 1
      BY <1>2 DEF TypeOK
    <2> QED
      BY <1>1, <2>1, StatusIs, StatusThen
  <1>4. \A d \in Conns \ {c} : Status(d)' = Status(d)
    BY <1>2, StatusKept DEF TypeOK
  <1>5. Abstract!Announce(c)
    BY <1>2, <1>3, <1>4 DEF Abstract!Announce
  <1> QED
    BY <1>5 DEF Abstract!Next

\* By the time shutdown() raises its flag, every departure has been announced.
LEMMA RoomClose ==
    ASSUME TypeOK, RoomInv, TypeOK', RoomInv', MainShutdown
    PROVE  Abstract!Next
  <1>1. ~shuttingDown /\ main # "notify" /\ \A c \in Conns : pc[c] \in {"idle", "done"}
    BY DEF MainShutdown, RoomInv, RosterInv, DepartedGone
  <1>2. \A c \in Conns : ~Departing(c)
    BY <1>1, AllDeparted DEF RoomInv, ShutdownInv
  <1>3. \A t \in Tasks : ~Broadcasting(t)
    BY <1>1, <1>2 DEF Broadcasting, Departing
  <1>4. \A t \in Tasks : kids[t] = {}
    BY <1>3 DEF RoomInv, RosterInv, CastsTidy
  <1>5. \A c \in Conns : Status(c) # "gone"
    <2> SUFFICES ASSUME NEW c \in Conns, Status(c) = "gone" PROVE FALSE
      OBVIOUS
    <2>1. leftCount[c] = 0 /\ c \notin registry /\ name[c] # NoName
      BY StatusIs
    <2>2. dpc[c] # "none"
      BY <1>1, <1>4, <2>1 DEF RoomInv, GoneDeparts
    <2>3. dpc[c] \in {"left", "roster", "done"}
      BY <1>2, <2>2 DEF TypeOK, Departing
    <2> QED
      BY <1>1, <2>1, <2>3 DEF RoomInv, GoneDeparts
  <1>6. \A c \in Conns : Status(c)' = Status(c)
    BY StatusKept DEF MainShutdown, client
  <1>7. Abstract!Close
    BY <1>1, <1>5, <1>6 DEF MainShutdown, client, Abstract!Close
  <1> QED
    BY <1>7 DEF Abstract!Next

\* The registry is a Room: the safety part of ImplementsRoom.  Who joins has a
\* name nobody else has, who is removed was a member, everybody is announced
\* once, and nobody removed is forgotten when the server closes.
THEOREM RegistryIsRoom == Spec => Abstract!Init /\ [][Abstract!Next]_(Abstract!vars)
  <1>1. Init => Abstract!Init
    <2> SUFFICES ASSUME Init PROVE Abstract!Init
      OBVIOUS
    <2>1. \A c \in Conns : Status(c) = "outside"
      BY DEF Init, Status
    <2> QED
      BY <2>1 DEF Init, Abstract!Init
  <1>2. TypeOK /\ RoomInv /\ (TypeOK /\ RoomInv)' /\ [Next]_vars
        => [Abstract!Next]_(Abstract!vars)
    <2> SUFFICES ASSUME TypeOK, RoomInv, TypeOK', RoomInv', [Next]_vars
                 PROVE  Abstract!Next \/ UNCHANGED Abstract!vars
      OBVIOUS
    <2> USE DEF client, casts
    <2>1. ASSUME NEW c \in Conns,
                 Admit(c) \/ Refuse(c) \/ AuthReject(c) \/ Proceed(c) \/ Read(c) \/ Socket(c)
          PROVE  Abstract!Next \/ UNCHANGED Abstract!vars
      BY <2>1, RoomRemove DEF Admit, Refuse, AuthReject, Proceed, AfterJoined, Replied,
         BackToServe, Unwound, Read, Relay, Reply, Expel, Socket, Stall, Recover, PeerGone
    <2>2. ASSUME NEW c \in Conns, AuthAccept(c) \/ AuthAcceptDead(c)
          PROVE  Abstract!Next \/ UNCHANGED Abstract!vars
      BY <2>2, RoomJoin
    <2>3. ASSUME NEW c \in Conns, ServeEnd(c)
          PROVE  Abstract!Next \/ UNCHANGED Abstract!vars
      BY <2>3, RoomRemove DEF ServeEnd, DepartBegin, DepartNoop
    <2>4. ASSUME NEW c \in Conns, Depart(c)
          PROVE  Abstract!Next \/ UNCHANGED Abstract!vars
      BY <2>4, RoomRemove, RoomAnnounce DEF Depart, DepartSilently, DepartRoster, DepartEnd
    <2>5. ASSUME NEW t \in Tasks, Clean(t)
          PROVE  Abstract!Next \/ UNCHANGED Abstract!vars
      BY <2>5, RoomRemove DEF Clean, Cleanup, RunKid, DepartBegin, DepartNoop
    <2>6. CASE StopSignal \/ LibClose \/ MainCloseAll \/ MainExit \/ UNCHANGED vars
      BY <2>6, RoomRemove DEF StopSignal, LibClose, MainCloseAll, MainExit, vars
    <2>7. CASE MainShutdown
      BY <2>7, RoomClose
    <2> QED
      BY <2>1, <2>2, <2>3, <2>4, <2>5, <2>6, <2>7
         DEF Next, Handshake, Stopping, Terminated
  <1> QED
    BY <1>1, <1>2, RoomInvariant, PTL DEF Spec
=============================================================================

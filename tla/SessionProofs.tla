---------------------------- MODULE SessionProofs ----------------------------
(* Theorems about Session, for every set of connections, capacity, limit of *)
(* attempts and certificate.  What client and server keep by themselves is  *)
(* taken from the proofs about them: their lemmas hold of their instances.  *)
EXTENDS Session, TLAPS

N == INSTANCE NetClientProofs WITH ws <- netws
R == INSTANCE ChatRoomProofs WITH ws <- srvws

-----------------------------------------------------------------------------
(* The components of Session are those the proofs are about.                *)

\* The types of the client are those of NetClient, and so are its first states.
LEMMA SameClient ==
    /\ Net!TypeOK <=> N!TypeOK
    /\ Net!Init <=> N!Init
  BY DEF Net!TypeOK, N!TypeOK, Net!Outcomes, N!Outcomes, Net!Events, N!Events, Net!Init, N!Init

\* What the client does between two connections.
LEMMA SameLoop ==
    /\ Net!Main <=> N!Main
    /\ Net!ConnectFail <=> N!ConnectFail
    /\ Net!ConnectOk <=> N!ConnectOk
    /\ Net!Closed <=> N!Closed
    /\ Net!Terminated <=> N!Terminated
  <1> USE DEF Net!loopvars, N!loopvars, Net!connvars, N!connvars, Net!pinvars, N!pinvars,
              Net!uivars, N!uivars, Net!Say, N!Say, Net!vars, N!vars
  <1>1. \A o : Net!SessionOver(o) <=> N!SessionOver(o)
    BY DEF Net!SessionOver, N!SessionOver, Net!Abort, N!Abort, Net!Retry, N!Retry,
           Net!Fatal, N!Fatal, Net!CountFailure, N!CountFailure
  <1>2. Net!Main <=> N!Main
    BY DEF Net!Main, N!Main, Net!Attempt, N!Attempt, Net!Leave, N!Leave,
           Net!Wake, N!Wake, Net!Finish, N!Finish
  <1>3. Net!ConnectFail <=> N!ConnectFail
    BY <1>1 DEF Net!ConnectFail, N!ConnectFail
  <1>4. Net!Closed <=> N!Closed
    BY <1>1 DEF Net!Closed, N!Closed
  <1>5. Net!ConnectOk <=> N!ConnectOk
    BY DEF Net!ConnectOk, N!ConnectOk, Net!TearDown, N!TearDown
  <1>6. Net!Terminated <=> N!Terminated
    BY DEF Net!Terminated, N!Terminated
  <1> QED
    BY <1>2, <1>3, <1>4, <1>5, <1>6

\* What it does on a connection.
LEMMA SameTalk ==
    /\ Net!Verify <=> N!Verify
    /\ Net!Hello <=> N!Hello
    /\ Net!Welcome <=> N!Welcome
    /\ Net!Refused <=> N!Refused
    /\ Net!HandshakeLost <=> N!HandshakeLost
    /\ Net!ReadEnd <=> N!ReadEnd
  <1> USE DEF Net!loopvars, N!loopvars, Net!connvars, N!connvars, Net!pinvars, N!pinvars,
              Net!uivars, N!uivars, Net!Say, N!Say, Net!TearDown, N!TearDown
  <1>1. Net!Verify <=> N!Verify
    BY DEF Net!Verify, N!Verify, Net!CertAccepted, N!CertAccepted, Net!CertUnsaved, N!CertUnsaved,
           Net!CertRejected, N!CertRejected
  <1>2. (Net!Hello <=> N!Hello) /\ (Net!Welcome <=> N!Welcome)
    BY DEF Net!Hello, N!Hello, Net!Welcome, N!Welcome
  <1>3. (Net!Refused <=> N!Refused) /\ (Net!HandshakeLost <=> N!HandshakeLost)
    BY DEF Net!Refused, N!Refused, Net!HandshakeLost, N!HandshakeLost
  <1>4. Net!ReadEnd <=> N!ReadEnd
    BY DEF Net!ReadEnd, N!ReadEnd
  <1> QED
    BY <1>1, <1>2, <1>3, <1>4

\* The calls of its other threads, the callbacks they post, and its file.
LEMMA SameCalls ==
    /\ Net!SendFails <=> N!SendFails
    /\ Net!SendSealed <=> N!SendSealed
    /\ Net!Answered <=> N!Answered
    /\ Net!SendMessage <=> N!SendMessage
    /\ Net!AnswerCertificate <=> N!AnswerCertificate
    /\ Net!Elsewhere <=> N!Elsewhere
  <1> USE DEF Net!loopvars, N!loopvars, Net!connvars, N!connvars, Net!pinvars, N!pinvars,
              Net!uivars, N!uivars, Net!Say, N!Say, Net!Running, N!Running, Net!Callback, N!Callback, Net!Post, N!Post
  <1>1. (Net!SendFails <=> N!SendFails) /\ (Net!SendSealed <=> N!SendSealed)
    BY DEF Net!SendFails, N!SendFails, Net!SendSealed, N!SendSealed
  <1>2. Net!Answered <=> N!Answered
    BY DEF Net!Answered, N!Answered
  <1>3. (Net!SendMessage <=> N!SendMessage) /\ (Net!AnswerCertificate <=> N!AnswerCertificate)
    BY DEF Net!SendMessage, N!SendMessage, Net!AnswerCertificate, N!AnswerCertificate
  <1>4. Net!Elsewhere <=> N!Elsewhere
    BY DEF Net!Elsewhere, N!Elsewhere
  <1> QED
    BY <1>1, <1>2, <1>3, <1>4

\* The types of the server, its first states and its tasks.
LEMMA SameServer ==
    /\ Server!TypeOK <=> R!TypeOK
    /\ Server!Init <=> R!Init
    /\ Server!Tasks = R!Tasks
  BY DEF Server!TypeOK, R!TypeOK, Server!Tasks, R!Tasks, Server!Rosters, R!Rosters,
         Server!NoRoster, R!NoRoster, Server!Handler, R!Handler, Server!Departure, R!Departure,
         Server!Main, R!Main, Server!Init, R!Init

\* Its handshakes.
LEMMA SameHandshake ==
    ASSUME NEW c \in Conns
    PROVE  /\ Server!Admit(c) <=> R!Admit(c)
           /\ Server!Refuse(c) <=> R!Refuse(c)
           /\ Server!AuthReject(c) <=> R!AuthReject(c)
           /\ Server!AuthAccept(c) <=> R!AuthAccept(c)
           /\ Server!AuthAcceptDead(c) <=> R!AuthAcceptDead(c)
           /\ Server!PeerGone(c) <=> R!PeerGone(c)
  <1> USE DEF Server!Goto, R!Goto, Server!client, R!client, Server!casts, R!casts
  <1>1. (Server!Admit(c) <=> R!Admit(c)) /\ (Server!Refuse(c) <=> R!Refuse(c))
    <2>1. Server!Cardinality(registry) = R!Cardinality(registry)
      BY DEF Server!Cardinality, R!Cardinality
    <2> QED
      BY <2>1 DEF Server!Admit, R!Admit, Server!Refuse, R!Refuse
  <1> USE DEF Server!Live, R!Live, Server!Tasks, R!Tasks, Server!Handler, R!Handler,
              Server!Departure, R!Departure, Server!Main, R!Main,
              Server!NoRoster, R!NoRoster, Server!HangUp, R!HangUp
  <1>2. (Server!AuthReject(c) <=> R!AuthReject(c)) /\ (Server!PeerGone(c) <=> R!PeerGone(c))
    BY DEF Server!AuthReject, R!AuthReject, Server!PeerGone, R!PeerGone
  <1>3. \A n : Server!UniqueName(n) = R!UniqueName(n)
    BY DEF Server!UniqueName, R!UniqueName, Server!Taken, R!Taken, Server!Suffixes, R!Suffixes
  <1>4. Server!Register(c) <=> R!Register(c)
    BY <1>3 DEF Server!Register, R!Register
  <1>5. Server!AuthAccept(c) <=> R!AuthAccept(c)
    BY <1>4 DEF Server!AuthAccept, R!AuthAccept, Server!Broadcast, R!Broadcast
  <1>6. Server!AuthAcceptDead(c) <=> R!AuthAcceptDead(c)
    BY <1>4 DEF Server!AuthAcceptDead, R!AuthAcceptDead
  <1> QED
    BY <1>1, <1>2, <1>5, <1>6

\* Its tasks after a handshake.
LEMMA SameTasks ==
    ASSUME NEW c \in Conns
    PROVE  /\ Server!Proceed(c) <=> R!Proceed(c)
           /\ Server!Depart(c) <=> R!Depart(c)
           /\ Server!ServeEnd(c) <=> R!ServeEnd(c)
  <1> USE DEF Server!Goto, R!Goto, Server!client, R!client, Server!casts, R!casts,
              Server!Live, R!Live, Server!Tasks, R!Tasks, Server!Handler, R!Handler,
              Server!Departure, R!Departure, Server!Main, R!Main,
              Server!NoRoster, R!NoRoster, Server!HangUp, R!HangUp,
              Server!Returned, R!Returned, Server!Broadcast, R!Broadcast,
              Server!BroadcastRoster, R!BroadcastRoster,
              Server!DepartBegin, R!DepartBegin, Server!DepartNoop, R!DepartNoop
  <1>1. Server!Proceed(c) <=> R!Proceed(c)
    BY DEF Server!Proceed, R!Proceed, Server!AfterJoined, R!AfterJoined, Server!Replied, R!Replied,
           Server!BackToServe, R!BackToServe, Server!Unwound, R!Unwound
  <1>2. Server!Depart(c) <=> R!Depart(c)
    BY DEF Server!Depart, R!Depart, Server!DepartClosed, R!DepartClosed,
           Server!DepartSilently, R!DepartSilently, Server!DepartRoster, R!DepartRoster,
           Server!DepartEnd, R!DepartEnd
  <1>3. Server!ServeEnd(c) <=> R!ServeEnd(c)
    BY DEF Server!ServeEnd, R!ServeEnd
  <1> QED
    BY <1>1, <1>2, <1>3

\* And what a broadcast does about recipients that are gone.
LEMMA SameFanout ==
    ASSUME NEW t \in R!Tasks
    PROVE  Server!Clean(t) <=> R!Clean(t)
  BY DEF Server!Clean, R!Clean, Server!Cleanup, R!Cleanup, Server!RunKid, R!RunKid,
         Server!DepartBegin, R!DepartBegin, Server!DepartNoop, R!DepartNoop,
         Server!HangUp, R!HangUp, Server!Live, R!Live, Server!client, R!client,
         Server!Tasks, R!Tasks, Server!Handler, R!Handler, Server!Departure, R!Departure,
         Server!Main, R!Main, Server!NoRoster, R!NoRoster

-----------------------------------------------------------------------------
(* Every step of Session is one of each side, or leaves that side alone.    *)

\* What moves the client, or one of its other threads.
LEMMA ClientMoves == Client => [N!Next]_(N!vars) /\ UNCHANGED R!vars
  <1> SUFFICES ASSUME Client PROVE N!Next /\ UNCHANGED R!vars
    OBVIOUS
  <1> USE SameLoop, SameTalk, SameCalls
      DEF N!Next, N!Connect, N!Handshake, N!Reading, N!Posted, N!Others
  <1>1. CASE Dial \/ HangUp
    BY <1>1 DEF Dial, HangUp, srvvars, R!vars
  <1>2. CASE ReadHello \/ ReadOk \/ ReadFail
    BY <1>2 DEF ReadHello, ReadOk, ReadFail, srvvars, R!vars
  <1>3. CASE SendEarly
    BY <1>3 DEF SendEarly, srvvars, R!vars
  <1>4. CASE Alone
    BY <1>4 DEF Alone, srvvars, R!vars
  <1> QED
    BY <1>1, <1>2, <1>3, <1>4 DEF Client

\* What the server does about one connection.
Served(c) == Greet(c) \/ TurnAway(c) \/ Handle(c) \/ Lose(c) \/ Run(c) \/ Unwind(c)

\* What moves the server's loop.
LEMMA ServerMoves ==
    /\ \A c \in Conns : Served(c) => R!Next /\ UNCHANGED N!vars
    /\ \A t \in R!Tasks : Fanout(t) => R!Next /\ UNCHANGED N!vars
  <1>1. ASSUME NEW c \in Conns, Served(c) PROVE R!Next /\ UNCHANGED N!vars
    <2>1. UNCHANGED N!vars
      BY <1>1 DEF Served, Greet, TurnAway, Handle, Accept, AcceptDead, Reject, Expire, Lose, Run,
                  Unwind, netvars, N!vars
    <2>2. \/ R!Admit(c) \/ R!Refuse(c) \/ R!Handshake(c) \/ R!Proceed(c)
          \/ R!ServeEnd(c) \/ R!Depart(c) \/ R!Socket(c)
      BY <1>1, SameHandshake, SameTasks
         DEF Served, Greet, TurnAway, Handle, Accept, AcceptDead, Reject, Expire, Lose, Run,
             Unwind, R!Handshake, R!Socket
    <2> QED
      BY <2>1, <2>2 DEF R!Next
  <1>2. ASSUME NEW t \in R!Tasks, Fanout(t) PROVE R!Next /\ UNCHANGED N!vars
    <2>1. R!Clean(t)
      BY <1>2, SameFanout DEF Fanout
    <2> QED
      BY <1>2, <2>1 DEF R!Next, Fanout, netvars, N!vars
  <1> QED
    BY <1>1, <1>2

\* So a step of Session is a step, or a stutter, of the client and of the room.
LEMMA SidesStep == [Next]_vars => [N!Next]_(N!vars) /\ [R!Next]_(R!vars)
  <1> SUFFICES ASSUME [Next]_vars PROVE [N!Next]_(N!vars) /\ [R!Next]_(R!vars)
    OBVIOUS
  <1>1. CASE Client
    BY <1>1, ClientMoves
  <1>2. ASSUME NEW c \in Conns, Served(c) PROVE [N!Next]_(N!vars) /\ [R!Next]_(R!vars)
    BY <1>2, ServerMoves
  <1>3. ASSUME NEW t \in Server!Tasks, Fanout(t) PROVE [N!Next]_(N!vars) /\ [R!Next]_(R!vars)
    BY <1>3, ServerMoves, SameServer
  <1>4. CASE Net!Terminated /\ UNCHANGED <<srvvars, links>>
    BY <1>4, SameLoop DEF N!Next, srvvars, R!vars
  <1>5. CASE UNCHANGED vars
    BY <1>5 DEF vars, netvars, srvvars, N!vars, R!vars
  <1> QED
    BY <1>1, <1>2, <1>3, <1>4, <1>5 DEF Next, Served

\* What each side keeps by itself, whoever is at the other end.
ClientInv == N!Inv /\ N!KeyKept

RoomInv == R!TypeOK /\ R!StrangersUnknown /\ R!Members

\* Neither side needs the other for that.
LEMMA SidesKeep == ClientInv /\ RoomInv /\ [Next]_vars => ClientInv' /\ RoomInv'
  <1> SUFFICES ASSUME ClientInv, RoomInv, [N!Next]_(N!vars), [R!Next]_(R!vars)
               PROVE  ClientInv' /\ RoomInv'
    BY SidesStep
  <1>1. N!Inv'
    BY N!InvStep, SessionAssumption DEF ClientInv
  <1>2. N!KeyKept'
    BY N!KeyStep, SessionAssumption DEF ClientInv
  <1>3. R!TypeOK'
    BY R!TypeStep, SessionAssumption DEF RoomInv, R!Suffixes
  <1>4. R!StrangersUnknown'
    BY R!StrangersStep, SessionAssumption DEF RoomInv, R!Suffixes
  <1>5. R!Members'
    BY R!MembersStep, SessionAssumption DEF RoomInv, R!Suffixes
  <1> QED
    BY <1>1, <1>2, <1>3, <1>4, <1>5 DEF ClientInv, RoomInv

-----------------------------------------------------------------------------
(* What is between them.                                                    *)

Frames == {"hello", "ok"} \cup Failures

LinkTypes ==
    /\ dialed \in SUBSET Conns /\ conn \in dialed \cup {NoOne}
    /\ first \in [Conns -> {"nothing", "proof", "sealed"}]
    /\ heard \in Seq(Frames)
    /\ reason \in Failures \cup {"none"}
    /\ right \in BOOLEAN

\* The client holds a connection from connect() to the end of its close; the
\* server knows of none that was not dialed.
Held ==
    /\ conn # NoOne <=> at \in {"asking", "hello", "reply", "reading", "closing"}
    /\ conn # NoOne <=> sock = "up"
    /\ sock # "shut" /\ ~stopping
    /\ \A c \in Conns \ dialed : first[c] = "nothing" /\ pc[c] = "idle"
    /\ main = "serving"

\* A message overtook the proof on the connection that is held just when it is
\* what the server reads first there.
FirstRead ==
    conn # NoOne =>
        /\ early <=> first[conn] = "sealed"
        /\ at \in {"asking", "hello"} => first[conn] # "proof"
        /\ at \in {"reply", "reading"} => first[conn] # "nothing"

\* What a handshake frame tells the client that holds the connection.
Tells(frame) ==
    /\ frame = "ok" => first[conn] = "proof" /\ right /\ pc[conn] \notin {"idle", "hello"}
    /\ frame = "bad_credentials" => first[conn] = "sealed" \/ ~right

\* Only frames of this connection are heard, at most one before its handshake is
\* over for the server, and each says what is so.
HeardInv ==
    /\ Len(heard) <= 2
    /\ conn = NoOne => heard = <<>>
    /\ conn # NoOne => /\ pc[conn] = "idle" => heard = <<>>
                       /\ pc[conn] = "hello" => Len(heard) <= 1
                       /\ \A i \in DOMAIN heard : Tells(heard[i])
    /\ at = "reading" => Tells("ok") /\ ~early

\* A reason is only known to a client that is refused for good.
Refusal ==
    /\ reason # "none" => (at = "closing" /\ outcome = "refused") \/ at \in {"ended", "stopped"}
    /\ WrongPasswordMeant

LinkInv == LinkTypes /\ Held /\ FirstRead /\ HeardInv /\ Refusal

\* Taking the first frame leaves what the others tell.
LEMMA TailOf ==
    ASSUME NEW S, NEW s \in Seq(S), s # <<>>
    PROVE  /\ Head(s) \in S /\ Head(s) = s[1] /\ 1 \in DOMAIN s
           /\ Tail(s) \in Seq(S) /\ Len(Tail(s)) = Len(s) - 1
           /\ \A i \in DOMAIN Tail(s) : i + 1 \in DOMAIN s /\ Tail(s)[i] = s[i + 1]
  OBVIOUS

\* Another frame comes after those that were there.
LEMMA AppendOf ==
    ASSUME NEW S, NEW s \in Seq(S), NEW x \in S
    PROVE  /\ Append(s, x) \in Seq(S) /\ Len(Append(s, x)) = Len(s) + 1
           /\ \A i \in DOMAIN Append(s, x) :
                 (i \in DOMAIN s /\ Append(s, x)[i] = s[i]) \/ Append(s, x)[i] = x
  OBVIOUS

\* A message submitted before the proof: it is the first frame on the
\* connection, unless something was sent there already.
LEMMA EarlyKeeps ==
    ASSUME ClientInv, LinkInv, SendEarly PROVE LinkInv'
  <1> USE DEF LinkInv
  <1>1. /\ netws /\ sock = "up" /\ (early' <=> early \/ at \in {"asking", "hello"})
        /\ UNCHANGED <<at, outcome, failures, connectedBefore, stopping, sock>>
    BY SameCalls DEF SendEarly, N!SendSealed, N!loopvars
  <1>2. at \in {"asking", "hello", "reply", "reading"} /\ conn # NoOne
    BY <1>1 DEF ClientInv, N!Inv, N!ConnectionInv, Held
  <1>3. conn \in dialed /\ conn \in Conns
    BY <1>2 DEF LinkTypes
  <1>4. /\ first' = [first EXCEPT ![conn] = IF @ = "nothing" THEN "sealed" ELSE @]
        /\ UNCHANGED <<pc, main, dialed, conn, heard, reason, right>>
    BY DEF SendEarly, Send, srvvars
  <1>5. LinkTypes'
    BY <1>3, <1>4 DEF LinkTypes
  <1>6. Held'
    BY <1>1, <1>3, <1>4 DEF Held, LinkTypes
  <1>7. FirstRead'
    BY <1>1, <1>2, <1>3, <1>4 DEF FirstRead, LinkTypes
  <1>8. HeardInv'
    <2>1. \A frame \in Frames : Tells(frame) => Tells(frame)'
      BY <1>1, <1>3, <1>4 DEF Tells, LinkTypes
    <2>2. at = "reading" => ~early'
      BY <1>1 DEF HeardInv
    <2>3. \A i \in DOMAIN heard : heard[i] \in Frames
      BY DEF LinkTypes
    <2> QED
      BY <1>1, <1>2, <1>4, <2>1, <2>2, <2>3 DEF HeardInv, Frames
  <1>9. Refusal'
    BY <1>1, <1>4 DEF Refusal, WrongPasswordMeant
  <1> QED
    BY <1>5, <1>6, <1>7, <1>8, <1>9

\* A connection of its own, on which nothing was sent or heard.
LEMMA DialKeeps ==
    ASSUME ClientInv, LinkInv, Dial PROVE LinkInv'
  <1> USE DEF LinkInv
  <1>1. /\ at = "connecting" /\ at' \in {"asking", "hello", "closing"} /\ sock' = "up"
        /\ ~early' /\ UNCHANGED <<stopping, connectedBefore>>
    BY SameLoop DEF Dial, N!ConnectOk, N!TearDown
  <1>2. PICK c \in Conns \ dialed : conn' = c /\ dialed' = dialed \cup {c}
    BY DEF Dial
  <1>3. heard' = <<>> /\ UNCHANGED <<first, reason, right, pc, main>>
    BY DEF Dial, srvvars
  <1>4. first[c] = "nothing" /\ pc[c] = "idle" /\ c # NoOne
    BY <1>2, SessionAssumption DEF Held
  <1>5. reason = "none"
    BY <1>1 DEF Refusal
  <1>6. LinkTypes'
    BY <1>2, <1>3 DEF LinkTypes
  <1>7. Held'
    BY <1>1, <1>2, <1>3, <1>4 DEF Held
  <1>8. FirstRead'
    BY <1>1, <1>2, <1>3, <1>4 DEF FirstRead
  <1>9. HeardInv'
    BY <1>1, <1>2, <1>3, <1>4 DEF HeardInv
  <1>10. Refusal'
    BY <1>3, <1>5 DEF Refusal, WrongPasswordMeant
  <1> QED
    BY <1>6, <1>7, <1>8, <1>9, <1>10

\* The greeting, answered by the proof, which the server reads unless a message
\* was faster.
LEMMA HelloKeeps ==
    ASSUME ClientInv, LinkInv, ReadHello PROVE LinkInv'
  <1> USE DEF LinkInv
  <1>1. /\ at = "hello" /\ at' = "reply"
        /\ UNCHANGED <<outcome, connectedBefore, stopping, sock, early>>
    BY SameTalk DEF ReadHello, N!Hello
  <1>2. heard # <<>> /\ heard' = Tail(heard) /\ UNCHANGED <<dialed, conn, reason, right, pc, main>>
    BY DEF ReadHello, NextHeard, srvvars
  <1>3. conn # NoOne /\ conn \in dialed /\ conn \in Conns
    BY <1>1 DEF Held, LinkTypes
  <1>4. first' = [first EXCEPT ![conn] = IF @ = "nothing" THEN "proof" ELSE @]
    BY DEF ReadHello, Send
  <1>5. /\ heard' \in Seq(Frames) /\ Len(heard') = Len(heard) - 1
        /\ \A i \in DOMAIN heard' : i + 1 \in DOMAIN heard /\ heard'[i] = heard[i + 1]
    BY <1>2, TailOf DEF LinkTypes
  <1>6. LinkTypes'
    BY <1>2, <1>3, <1>4, <1>5 DEF LinkTypes
  <1>7. Held'
    BY <1>1, <1>2, <1>3, <1>4 DEF Held, LinkTypes
  <1>8. FirstRead'
    BY <1>1, <1>2, <1>3, <1>4 DEF FirstRead, LinkTypes
  <1>9. HeardInv'
    <2>1. \A frame \in Frames : Tells(frame) => Tells(frame)'
      BY <1>2, <1>3, <1>4 DEF Tells, LinkTypes
    <2>2. \A i \in DOMAIN heard' : heard'[i] \in Frames /\ Tells(heard'[i])
      BY <1>3, <1>5 DEF HeardInv, LinkTypes
    <2>3. Len(heard) \in Nat
      BY DEF LinkTypes
    <2> QED
      BY <1>1, <1>2, <1>3, <1>5, <2>1, <2>2, <2>3 DEF HeardInv
  <1>10. Refusal'
    BY <1>1, <1>2 DEF Refusal, WrongPasswordMeant
  <1> QED
    BY <1>6, <1>7, <1>8, <1>9, <1>10

\* auth_ok: it answers the right proof, so no message came before that.
LEMMA OkKeeps ==
    ASSUME ClientInv, LinkInv, ReadOk PROVE LinkInv'
  <1> USE DEF LinkInv
  <1>1. /\ at = "reply" /\ at' = "reading"
        /\ UNCHANGED <<outcome, connectedBefore, stopping, sock, early>>
    BY SameTalk DEF ReadOk, N!Welcome, N!connvars
  <1>2. /\ heard # <<>> /\ Head(heard) = "ok" /\ heard' = Tail(heard)
        /\ UNCHANGED <<dialed, conn, first, reason, right, pc, main>>
    BY DEF ReadOk, NextHeard, srvvars
  <1>3. conn # NoOne /\ conn \in dialed /\ conn \in Conns
    BY <1>1 DEF Held, LinkTypes
  <1>4. /\ heard' \in Seq(Frames) /\ Len(heard') = Len(heard) - 1
        /\ 1 \in DOMAIN heard /\ Head(heard) = heard[1]
        /\ \A i \in DOMAIN heard' : i + 1 \in DOMAIN heard /\ heard'[i] = heard[i + 1]
    BY <1>2, TailOf DEF LinkTypes
  <1>5. Tells("ok") /\ ~early
    <2>1. Tells("ok")
      BY <1>2, <1>3, <1>4 DEF HeardInv
    <2> QED
      BY <1>3, <2>1 DEF Tells, FirstRead
  <1>6. LinkTypes'
    BY <1>2, <1>4 DEF LinkTypes
  <1>7. Held'
    BY <1>1, <1>2 DEF Held
  <1>8. FirstRead'
    BY <1>1, <1>2, <1>3 DEF FirstRead
  <1>9. HeardInv'
    <2>1. \A frame : Tells(frame) => Tells(frame)'
      BY <1>2 DEF Tells
    <2>2. \A i \in DOMAIN heard' : Tells(heard'[i])
      BY <1>3, <1>4 DEF HeardInv
    <2>3. Len(heard) \in Nat
      BY DEF LinkTypes
    <2> QED
      BY <1>1, <1>2, <1>3, <1>4, <1>5, <2>1, <2>2, <2>3 DEF HeardInv
  <1>10. Refusal'
    BY <1>1, <1>2 DEF Refusal, WrongPasswordMeant
  <1> QED
    BY <1>6, <1>7, <1>8, <1>9, <1>10

\* A refusal ends the client.  That of the password is meant, or what was read
\* for the proof was a message, which only a client that reconnects can send.
LEMMA FailKeeps ==
    ASSUME ClientInv, LinkInv, ReadFail PROVE LinkInv'
  <1> USE DEF LinkInv
  <1>1. /\ at \in {"hello", "reply"} /\ at' = "closing" /\ outcome' = "refused"
        /\ UNCHANGED <<connectedBefore, stopping, sock, early>>
    BY SameTalk DEF ReadFail, N!Refused, N!TearDown
  <1>2. /\ heard # <<>> /\ Head(heard) \in Failures /\ heard' = Tail(heard)
        /\ reason' = Head(heard) /\ UNCHANGED <<dialed, conn, first, right, pc, main>>
    BY DEF ReadFail, NextHeard, srvvars
  <1>3. conn # NoOne /\ conn \in dialed /\ conn \in Conns
    BY <1>1 DEF Held, LinkTypes
  <1>4. /\ heard' \in Seq(Frames) /\ Len(heard') = Len(heard) - 1
        /\ 1 \in DOMAIN heard /\ Head(heard) = heard[1]
        /\ \A i \in DOMAIN heard' : i + 1 \in DOMAIN heard /\ heard'[i] = heard[i + 1]
    BY <1>2, TailOf DEF LinkTypes
  <1>5. reason' = "bad_credentials" /\ right => early /\ connectedBefore
    <2>1. reason' = "bad_credentials" => Tells("bad_credentials")
      BY <1>2, <1>3, <1>4 DEF HeardInv
    <2>2. reason' = "bad_credentials" /\ right => early
      BY <1>3, <2>1 DEF Tells, FirstRead
    <2> QED
      BY <2>2 DEF ClientInv, N!KeyKept
  <1>6. LinkTypes'
    BY <1>2, <1>4 DEF LinkTypes
  <1>7. Held'
    BY <1>1, <1>2, <1>3 DEF Held
  <1>8. FirstRead'
    BY <1>1, <1>2, <1>3 DEF FirstRead
  <1>9. HeardInv'
    <2>1. \A frame : Tells(frame) => Tells(frame)'
      BY <1>2 DEF Tells
    <2>2. \A i \in DOMAIN heard' : Tells(heard'[i])
      BY <1>3, <1>4 DEF HeardInv
    <2>3. Len(heard) \in Nat
      BY DEF LinkTypes
    <2> QED
      BY <1>1, <1>2, <1>3, <1>4, <2>1, <2>2, <2>3 DEF HeardInv
  <1>10. Refusal'
    BY <1>1, <1>2, <1>5 DEF Refusal, WrongPasswordMeant
  <1> QED
    BY <1>6, <1>7, <1>8, <1>9, <1>10

\* What the end of a session leaves: a refusal is fatal.
LEMMA Over ==
    ASSUME NEW o, N!SessionOver(o), N!TypeOK
    PROVE  /\ at' \in {"ended", "sleeping"} /\ UNCHANGED stopping
           /\ o = "refused" => at' = "ended"
           /\ connectedBefore => connectedBefore'
  <1>1. CASE N!Abort(o)
    BY <1>1 DEF N!SessionOver, N!Abort
  <1>2. CASE N!Retry(o)
    <2>1. connectedBefore' = (connectedBefore \/ o = "normal")
      BY <1>2 DEF N!Retry
    <2>2. connectedBefore => connectedBefore'
      BY ONLY <2>1
    <2>3. o # "refused" /\ at' \in {"ended", "sleeping"}
      BY <1>2 DEF N!Retry, N!Fatal
    <2> QED
      BY <2>2, <2>3 DEF N!SessionOver
  <1> QED
    BY <1>1, <1>2 DEF N!SessionOver

\* The close is over: nothing more is heard.
LEMMA HangUpKeeps ==
    ASSUME ClientInv, LinkInv, HangUp PROVE LinkInv'
  <1> USE DEF LinkInv
  <1>1. /\ at = "closing" /\ N!SessionOver(outcome) /\ sock' = "none" /\ UNCHANGED early
    BY SameLoop DEF HangUp, N!Closed
  <1>2. /\ at' \in {"ended", "sleeping"} /\ UNCHANGED stopping
        /\ outcome = "refused" => at' = "ended"
        /\ connectedBefore => connectedBefore'
    BY <1>1, Over DEF ClientInv, N!Inv
  <1>3. conn' = NoOne /\ heard' = <<>> /\ UNCHANGED <<dialed, first, reason, right, pc, main>>
    BY DEF HangUp, srvvars
  <1>4. LinkTypes'
    BY <1>3 DEF LinkTypes
  <1>5. Held' /\ FirstRead'
    BY <1>1, <1>2, <1>3 DEF Held, FirstRead
  <1>6. HeardInv'
    BY <1>1, <1>2, <1>3 DEF HeardInv
  <1>7. Refusal'
    BY <1>1, <1>2, <1>3 DEF Refusal, WrongPasswordMeant
  <1> QED
    BY <1>4, <1>5, <1>6, <1>7

\* What the client does without a frame: it neither takes a connection nor lets
\* go of one, nor starts to read, and after a refusal it only ends.
LEMMA AloneMoves ==
    ASSUME ClientInv, LinkInv, Alone
    PROVE  /\ (at' \in {"asking", "hello", "reply", "reading", "closing"}
                 <=> at \in {"asking", "hello", "reply", "reading", "closing"})
           /\ at' \in {"asking", "hello"} => at \in {"asking", "hello"}
           /\ at' \in {"reply", "reading"} => at' = at
           /\ at \in {"ended", "stopped"} => at' \in {"ended", "stopped"}
           /\ at = "closing" => at' = at /\ UNCHANGED outcome
           /\ connectedBefore => connectedBefore'
           /\ UNCHANGED <<sock, stopping, early>>
  <1> USE DEF N!connvars, N!pinvars, N!uivars, N!loopvars, N!TearDown
  <1>1. CASE N!Main
    BY <1>1 DEF N!Main, N!Attempt, N!Leave, N!Wake, N!Finish
  <1>2. CASE N!ConnectFail
    BY <1>2, Over DEF N!ConnectFail, ClientInv, N!Inv
  <1>3. CASE N!Verify
    BY <1>3 DEF N!Verify, N!CertAccepted, N!CertUnsaved, N!CertRejected
  <1>4. CASE N!HandshakeLost \/ N!ReadEnd
    BY <1>4 DEF N!HandshakeLost, N!ReadEnd
  <1>5. CASE N!SendFails \/ N!Answered
    BY <1>5 DEF N!SendFails, N!Answered
  <1>6. CASE N!SendMessage \/ N!AnswerCertificate
    BY <1>6 DEF N!SendMessage, N!AnswerCertificate, N!Post
  <1>7. CASE N!Elsewhere
    BY <1>7 DEF N!Elsewhere
  <1> QED
    BY <1>1, <1>2, <1>3, <1>4, <1>5, <1>6, <1>7, SameLoop, SameTalk, SameCalls DEF Alone

\* So it keeps what is between the two.
LEMMA AloneKeeps ==
    ASSUME ClientInv, LinkInv, Alone PROVE LinkInv'
  <1> USE DEF LinkInv
  <1>1. UNCHANGED <<dialed, conn, first, heard, reason, right, pc, main>>
    BY DEF Alone, srvvars, links
  <1>2. LinkTypes'
    BY <1>1 DEF LinkTypes
  <1>3. Held'
    BY <1>1, AloneMoves DEF Held
  <1>4. FirstRead'
    BY <1>1, AloneMoves DEF FirstRead
  <1>5. HeardInv'
    <2>1. \A frame : Tells(frame) => Tells(frame)'
      BY <1>1 DEF Tells
    <2>2. at' = "reading" => at = "reading" /\ ~early'
      BY AloneMoves DEF HeardInv
    <2> QED
      BY <1>1, <2>1, <2>2 DEF HeardInv
  <1>6. Refusal'
    BY <1>1, AloneMoves DEF Refusal, WrongPasswordMeant
  <1> QED
    BY <1>2, <1>3, <1>4, <1>5, <1>6

\* Every step of the client keeps what is between the two.
LEMMA ClientKeeps ==
    ASSUME ClientInv, LinkInv, Client PROVE LinkInv'
  BY EarlyKeeps, DialKeeps, HelloKeeps, OkKeeps, FailKeeps, HangUpKeeps, AloneKeeps DEF Client

\* A frame for the client that holds c: an answer is given once per stage of the
\* handshake, so that no third frame is ever under way.
LEMMA AnswerKeeps ==
    ASSUME RoomInv, LinkInv, NEW c \in dialed, NEW frame \in Frames, NEW label,
           Answer(c, frame), pc' = [pc EXCEPT ![c] = label],
           \/ pc[c] = "idle" /\ label \in {"hello", "done"}
           \/ pc[c] = "hello" /\ label \in {"joined", "done"},
           c = conn => Tells(frame)',
           UNCHANGED <<netvars, dialed, conn, first, reason, right, main>>
    PROVE  LinkInv'
  <1> USE DEF LinkInv, netvars
  <1>1. c \in Conns /\ c # NoOne
    BY SessionAssumption DEF LinkTypes
  <1>2. \A d \in Conns : pc'[d] = IF d = c THEN label ELSE pc[d]
    BY <1>1 DEF RoomInv, R!TypeOK
  <1>3. LinkTypes'
    <2>1. heard' \in Seq(Frames)
      BY AppendOf DEF Answer, LinkTypes
    <2> QED
      BY <2>1 DEF LinkTypes
  <1>4. Held' /\ FirstRead'
    BY <1>2 DEF Held, FirstRead
  <1>5. \A f : conn # NoOne /\ Tells(f) => Tells(f)'
    BY <1>2 DEF Tells, LinkTypes
  <1>6. at' = "reading" => Tells("ok")' /\ ~early'
    BY <1>5 DEF HeardInv, Held
  <1>7. HeardInv'
    <2>1. CASE c = conn
      <3>1. /\ Len(heard') = Len(heard) + 1 /\ Len(heard) \in Nat
            /\ \A i \in DOMAIN heard' : (i \in DOMAIN heard /\ heard'[i] = heard[i]) \/ heard'[i] = frame
        BY <2>1, AppendOf DEF Answer, LinkTypes
      <3>2. /\ \A i \in DOMAIN heard : Tells(heard[i])
            /\ pc[c] = "idle" => Len(heard) = 0
            /\ pc[c] = "hello" => Len(heard) <= 1
        BY <1>1, <2>1 DEF HeardInv
      <3>3. \A i \in DOMAIN heard' : heard'[i] = frame \/ \E j \in DOMAIN heard : heard'[i] = heard[j]
        BY <3>1
      <3>4. /\ Len(heard') <= 2 /\ pc'[conn] # "idle"
            /\ pc'[conn] = "hello" => Len(heard') <= 1
        BY <1>1, <1>2, <2>1, <3>1, <3>2
      <3>5. \A f : (f = frame \/ \E j \in DOMAIN heard : f = heard[j]) => Tells(f)'
        BY <1>1, <1>5, <2>1, <3>2
      <3> QED
        BY <1>1, <1>6, <2>1, <3>3, <3>4, <3>5 DEF HeardInv
    <2>2. CASE c # conn
      <3>1. heard' = heard /\ (conn # NoOne => pc'[conn] = pc[conn])
        BY <1>2, <2>2 DEF Answer, LinkTypes
      <3> QED
        BY <1>5, <1>6, <3>1 DEF HeardInv
    <2> QED
      BY <2>1, <2>2
  <1>8. Refusal'
    BY DEF Refusal, WrongPasswordMeant
  <1> QED
    BY <1>3, <1>4, <1>7, <1>8

\* Handlers only go on, and a handshake that has begun may only end.
Onward == \A c \in Conns : pc'[c] = pc[c] \/ (pc[c] # "idle" /\ pc'[c] \notin {"idle", "hello"})

\* What the server does without a word to the client.
LEMMA QuietKeeps ==
    ASSUME LinkInv, Onward, UNCHANGED <<netvars, links, main>>
    PROVE  LinkInv'
  <1> USE DEF LinkInv, netvars, links
  <1>1. LinkTypes' /\ FirstRead' /\ Refusal'
    BY DEF LinkTypes, FirstRead, Refusal, WrongPasswordMeant
  <1>2. Held'
    <2>1. \A c \in Conns : pc[c] = "idle" => pc'[c] = "idle"
      BY DEF Onward
    <2> QED
      BY <2>1 DEF Held
  <1>3. HeardInv'
    <2>1. conn # NoOne => conn \in Conns
      BY DEF LinkTypes
    <2>2. conn # NoOne => /\ pc'[conn] = "idle" => pc[conn] = "idle"
                          /\ pc'[conn] = "hello" => pc[conn] = "hello"
                          /\ pc[conn] \notin {"idle", "hello"} => pc'[conn] \notin {"idle", "hello"}
      BY <2>1 DEF Onward
    <2>3. \A f : conn # NoOne /\ Tells(f) => Tells(f)'
      BY <2>2 DEF Tells
    <2>4. at = "reading" => conn # NoOne
      BY DEF Held
    <2> QED
      BY <2>2, <2>3, <2>4 DEF HeardInv
  <1> QED
    BY <1>1, <1>2, <1>3

\* The handlers of the server keep what is between the two.
LEMMA ServedKeeps ==
    ASSUME RoomInv, LinkInv, NEW c \in Conns, Served(c) PROVE LinkInv'
  <1> USE SameHandshake DEF R!Goto
  <1>1. PICK Labels : pc \in [Conns -> Labels]
    BY DEF RoomInv, R!TypeOK
  <1>2. CASE Greet(c)
    <2>1. /\ pc[c] = "idle" /\ pc' = [pc EXCEPT ![c] = "hello"] /\ UNCHANGED main
          /\ c \in dialed /\ Answer(c, "hello")
          /\ UNCHANGED <<netvars, dialed, conn, first, reason, right>>
      BY <1>2 DEF Greet, R!Admit
    <2>2. Tells("hello")' /\ "hello" \in Frames
      BY DEF Tells, Frames
    <2> QED
      BY <1>1, <2>1, <2>2, AnswerKeeps
  <1>3. CASE TurnAway(c)
    <2>1. /\ pc[c] = "idle" /\ pc' = [pc EXCEPT ![c] = "done"] /\ UNCHANGED main
          /\ c \in dialed /\ (Answer(c, "rate_limited") \/ Answer(c, "server_full"))
          /\ UNCHANGED <<netvars, dialed, conn, first, reason, right>>
      BY <1>3 DEF TurnAway, R!Refuse
    <2>2. /\ Tells("rate_limited")' /\ "rate_limited" \in Frames
          /\ Tells("server_full")' /\ "server_full" \in Frames
      BY DEF Tells, Frames, Failures
    <2> QED
      BY <1>1, <2>1, <2>2, AnswerKeeps
  <1>4. CASE Accept(c) \/ Reject(c)
    <2>1. pc[c] = "hello" /\ UNCHANGED main
      BY <1>4 DEF Accept, Reject, R!AuthAccept, R!AuthReject
    <2>2. c \in dialed
      BY <2>1 DEF LinkInv, Held
    <2>3. CASE Accept(c)
      <3>1. /\ Proven(c) /\ pc' = [pc EXCEPT ![c] = "joined"] /\ Answer(c, "ok")
            /\ UNCHANGED <<netvars, dialed, conn, first, reason, right>>
        BY <2>3 DEF Accept, R!AuthAccept
      <3>2. c = conn => Tells("ok")'
        BY <1>1, <3>1 DEF Tells, Proven
      <3> QED
        BY <1>1, <2>1, <2>2, <3>1, <3>2, AnswerKeeps DEF Frames
    <2>4. CASE Reject(c)
      <3>1. /\ first[c] # "nothing" /\ ~Proven(c) /\ pc' = [pc EXCEPT ![c] = "done"]
            /\ Answer(c, "bad_credentials")
            /\ UNCHANGED <<netvars, dialed, conn, first, reason, right>>
        BY <2>4 DEF Reject, R!AuthReject
      <3>2. c = conn => Tells("bad_credentials")'
        BY <3>1 DEF Tells, Proven, LinkInv, LinkTypes
      <3> QED
        BY <1>1, <2>1, <2>2, <3>1, <3>2, AnswerKeeps DEF Frames, Failures
    <2> QED
      BY <1>4, <2>3, <2>4
  <1>5. CASE AcceptDead(c) \/ Expire(c) \/ Lose(c)
    <2>1. Onward /\ UNCHANGED main
      BY <1>1, <1>5 DEF AcceptDead, Expire, Lose, Onward, R!AuthAcceptDead, R!AuthReject, R!PeerGone
    <2> QED
      BY <1>5, <2>1, QuietKeeps DEF AcceptDead, Expire, Lose
  <1>6. CASE Run(c)
    <2>1. ASSUME R!Proceed(c) PROVE Onward
      BY <1>1, <2>1 DEF Onward, R!Proceed, R!AfterJoined, R!Replied, R!BackToServe, R!Unwound
    <2>2. ASSUME R!Depart(c) PROVE Onward
      BY <1>1, <2>2 DEF Onward, R!Depart, R!DepartClosed, R!DepartSilently, R!DepartRoster, R!DepartEnd
    <2>3. R!Proceed(c) \/ R!Depart(c)
      BY <1>6, SameTasks DEF Run
    <2>4. UNCHANGED main
      BY <2>3 DEF R!Proceed, R!AfterJoined, R!Replied, R!BackToServe, R!Unwound,
                  R!Depart, R!DepartClosed, R!DepartSilently, R!DepartRoster, R!DepartEnd
    <2> QED
      BY <1>6, <2>1, <2>2, <2>3, <2>4, QuietKeeps DEF Run
  <1>7. CASE Unwind(c)
    <2>1. Onward /\ UNCHANGED main
      BY <1>1, <1>7, SameTasks DEF Unwind, Onward, R!ServeEnd
    <2> QED
      BY <1>7, <2>1, QuietKeeps DEF Unwind
  <1> QED
    BY <1>2, <1>3, <1>4, <1>5, <1>6, <1>7 DEF Served, Handle

\* So do its broadcasts.
LEMMA FanoutKeeps ==
    ASSUME LinkInv, NEW t \in R!Tasks, Fanout(t) PROVE LinkInv'
  <1>1. Onward /\ UNCHANGED main
    BY SameFanout DEF Fanout, Onward, R!Clean, R!Cleanup, R!RunKid
  <1> QED
    BY <1>1, QuietKeeps DEF Fanout

-----------------------------------------------------------------------------
(* The theorems.                                                            *)

\* What holds of the two sides and of the links between them is inductive.
Inv == ClientInv /\ RoomInv /\ LinkInv

\* It holds of a client that starts, or returns, and a server without clients.
LEMMA InvInit == Init => Inv
  <1> SUFFICES ASSUME Init PROVE Inv
    OBVIOUS
  <1>1. ClientInv
    <2>1. CASE Net!Init
      <3>1. N!Init
        BY <2>1, SameClient DEF N!Init
      <3>2. N!Inv
        BY <3>1, N!InvInit, SessionAssumption
      <3> QED
        BY <3>1, <3>2 DEF ClientInv, N!KeyKept, N!Init
    <2>2. CASE Returning
      <3>1. N!TypeOK
        <4>1. /\ connectedBefore \in BOOLEAN /\ stopping \in BOOLEAN /\ netws \in BOOLEAN
              /\ key \in BOOLEAN /\ shown \in BOOLEAN /\ reached \in BOOLEAN
              /\ early \in BOOLEAN /\ lost \in BOOLEAN
          BY <2>2 DEF Returning
        <4> QED
          BY <2>2, <4>1, SessionAssumption DEF Returning, N!TypeOK, N!Outcomes, N!Events
      <3>2. N!Attempts /\ N!ConnectionInv /\ N!ProgressInv /\ N!KeyKept
        BY <2>2, SessionAssumption
           DEF Returning, N!Attempts, N!ConnectionInv, N!ProgressInv, N!KeyKept
      <3> QED
        BY <3>1, <3>2 DEF ClientInv, N!Inv
    <2> QED
      BY <2>1, <2>2 DEF Init
  <1>2. RoomInv
    <2>1. R!Init
      BY SameServer DEF Init
    <2>2. R!TypeOK
      BY <2>1, R!TypeInit, SessionAssumption DEF R!Suffixes
    <2>3. R!StrangersUnknown /\ R!Members
      BY <2>1 DEF R!Init, R!StrangersUnknown, R!Strangers, R!Members, R!Live
    <2> QED
      BY <2>2, <2>3 DEF RoomInv
  <1>3. LinkInv
    <2>1. at = "top" /\ sock = "none" /\ ~stopping
      BY SameClient DEF Init, N!Init, Returning
    <2>2. pc = [c \in Conns |-> "idle"] /\ main = "serving"
      BY SameServer DEF Init, R!Init
    <2>3. right \in BOOLEAN
      BY DEF Init
    <2> QED
      BY <2>1, <2>2, <2>3 DEF Init, LinkInv, LinkTypes, Held, FirstRead, HeardInv, Refusal,
                              WrongPasswordMeant, Frames, Failures
  <1> QED
    BY <1>1, <1>2, <1>3 DEF Inv

\* Every step of either side keeps it.
LEMMA InvStep == Inv /\ [Next]_vars => Inv'
  <1> SUFFICES ASSUME Inv, [Next]_vars PROVE Inv'
    OBVIOUS
  <1>1. ClientInv' /\ RoomInv'
    BY SidesKeep DEF Inv
  <1>2. LinkInv'
    <2>1. CASE Client
      BY <2>1, ClientKeeps DEF Inv
    <2>2. ASSUME NEW c \in Conns, Served(c) PROVE LinkInv'
      BY <2>2, ServedKeeps DEF Inv
    <2>3. ASSUME NEW t \in Server!Tasks, Fanout(t) PROVE LinkInv'
      BY <2>3, FanoutKeeps, SameServer DEF Inv
    <2>4. CASE (Net!Terminated /\ UNCHANGED <<srvvars, links>>) \/ UNCHANGED vars
      <3>1. UNCHANGED <<netvars, links, main>> /\ UNCHANGED pc
        BY <2>4 DEF Net!Terminated, Net!vars, netvars, srvvars, vars
      <3> QED
        BY <3>1, QuietKeeps DEF Inv, Onward
    <2> QED
      BY <2>1, <2>2, <2>3, <2>4 DEF Next, Served
  <1> QED
    BY <1>1, <1>2 DEF Inv

\* Every reachable state of client and server satisfies it.
LEMMA Invariant == Spec => []Inv
  BY InvInit, InvStep, PTL DEF Spec

\* Both sides keep their types, there are never more than two frames of a
\* handshake under way, and a client without a connection has no socket.
THEOREM TypeCorrect == Spec => []TypeOK
  <1>1. Inv => TypeOK
    <2> SUFFICES ASSUME Inv PROVE TypeOK
      OBVIOUS
    <2>1. Net!TypeOK /\ Server!TypeOK
      BY SameClient, SameServer DEF Inv, ClientInv, N!Inv, RoomInv
    <2>2. netws => conn # NoOne
      BY DEF Inv, ClientInv, N!Inv, N!ConnectionInv, LinkInv, Held
    <2> QED
      BY <2>1, <2>2 DEF Inv, LinkInv, LinkTypes, HeardInv, TypeOK, Frames
  <1> QED
    BY <1>1, Invariant, PTL

\* A client in a session that neither side has seen the end of is a member of
\* the room, under the connection it reads from.
THEOREM ConnectedInRoom == Spec => []InRoom
  <1>1. Inv => InRoom
    <2> SUFFICES ASSUME Inv, at = "reading", sock = "up", srvws[conn] = "open"
                 PROVE  conn \in registry
      BY DEF InRoom
    <2>1. conn \in Conns /\ pc[conn] \notin {"idle", "hello"}
      BY DEF Inv, LinkInv, LinkTypes, Held, HeardInv, Tells
    <2> QED
      BY <2>1 DEF Inv, LinkInv, Held, RoomInv, R!Members, R!Live
  <1> QED
    BY <1>1, Invariant, PTL

\* auth_ok answers a proof that was the first thing sent, and the right one.
THEOREM ProofComesFirst == Spec => []ProofFirst
  <1>1. Inv => ProofFirst
    <2> SUFFICES ASSUME Inv PROVE ProofFirst
      OBVIOUS
    <2>1. at = "reading" => right /\ ~early
      BY DEF Inv, LinkInv, HeardInv, Tells
    <2>2. ASSUME NEW i \in DOMAIN heard, heard[i] = "ok" PROVE right /\ ~early
      <3>1. conn # NoOne
        BY DEF Inv, LinkInv, HeardInv
      <3> QED
        BY <2>2, <3>1 DEF Inv, LinkInv, HeardInv, Tells, FirstRead
    <2> QED
      BY <2>1, <2>2 DEF ProofFirst
  <1> QED
    BY <1>1, Invariant, PTL

\* "Wrong room password" is said of a wrong password only, or to a client that
\* sent a message on the connection of a reconnect before its proof.
THEOREM RefusalsMeant == Spec => []WrongPasswordMeant
  <1>1. Inv => WrongPasswordMeant
    BY DEF Inv, LinkInv, Refusal
  <1> QED
    BY <1>1, Invariant, PTL

\* The server of a session is ChatRoom, so what is proved of that holds for
\* clients that reconnect: names stay distinct, a leave is announced once, and
\* when nothing is under way everybody has the true roster.
THEOREM RoomServed ==
    Spec => R!Spec /\ [](R!LeaveAnnouncedOnce /\ R!UniqueNames /\ R!RosterConverges)
  <1>1. Init => R!Init
    BY SameServer DEF Init
  <1>2. Spec => R!Spec
    BY <1>1, SidesStep, PTL DEF Spec, R!Spec
  <1>3. R!Spec => []R!LeaveAnnouncedOnce
    BY R!LeaveOnce, SessionAssumption DEF R!Suffixes
  <1>4. R!Spec => []R!UniqueNames
    BY R!NamesDistinct, SessionAssumption DEF R!Suffixes
  <1>5. R!Spec => []R!RosterConverges
    BY R!RostersConverge, SessionAssumption DEF R!Suffixes
  <1> QED
    BY <1>2, <1>3, <1>4, <1>5, PTL

\* The client of a session, one that returns included, sends its proof only to
\* the server it knows, whatever others do to the known_hosts file, and so it does
\* its messages unless its pin has been lost there; and it believes itself
\* connected only while there is a session.
THEOREM ClientServed == Spec => [](N!PinnedUnlessLost /\ N!ShownWhileConnected)
  <1>1. Inv => N!PinnedUnlessLost
    BY DEF Inv, ClientInv, N!Inv, N!ConnectionInv, N!PinnedUnlessLost
  <1>2. Init => N!ShownWhileConnected
    BY SameClient DEF Init, N!Init, Returning, N!ShownWhileConnected
  <1>3. Inv /\ N!ShownWhileConnected /\ [Next]_vars => N!ShownWhileConnected'
    BY N!ShownStep, SidesStep, SessionAssumption DEF Inv, ClientInv, N!Inv
  <1> QED
    BY <1>1, <1>2, <1>3, Invariant, PTL DEF Spec

==============================================================================

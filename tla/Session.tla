------------------------------ MODULE Session ------------------------------
(* One client and the server, end to end: NetClient's attempts over the     *)
(* connections whose handlers ChatRoom runs, with what each side has sent   *)
(* and the other not yet read.  A client that reconnects may meet its own   *)
(* earlier session, which the server has not noticed the end of.            *)
(*                                                                         *)
(* One life of the server process: its stop signal is left to ChatRoom, the *)
(* user's to NetClient, and what an established session exchanges to both.  *)
EXTENDS Integers, FiniteSets, Sequences

CONSTANTS
    Conns, Names, Requested, Fallbacks, MaxClients, Tag(_, _), NoName, NoOne, NoTask,
    Certs, NoCert, MaxAttempts, MaxPosted

\* What NetClient and ChatRoom assume of them.
ASSUME SessionAssumption ==
    /\ NoCert \notin Certs /\ MaxAttempts \in Nat \ {0} /\ MaxPosted \in Nat
    /\ MaxClients \in Nat \ {0}
    /\ Requested \subseteq Names /\ Fallbacks \subseteq Names /\ Fallbacks # {}
    /\ \A n \in Names, k \in 2 .. (MaxClients + 2) : Tag(n, k) \in Names
    /\ NoName \notin Names /\ NoOne \notin Conns

VARIABLES
    \* of the client
    at, outcome, failures, connectedBefore, stopping, netws, sock, key, pinned, known,
    lost, cert, answer, posted, said, shown, reached, early,
    \* of the server
    srvws, pc, registry, name, departed, dpc, owner, wait, fail, kids, roster,
    leftCount, shuttingDown, main,
    \* between them
    dialed,   \* connections the client has opened
    conn,     \* the one it holds, or NoOne
    first,    \* per connection: what the server will read first, "nothing" yet
    heard,    \* handshake frames on their way to the client on conn
    reason,   \* of the latest auth_fail the client read
    right     \* whether the user typed the room's password

Net    == INSTANCE NetClient WITH ws <- netws
Server == INSTANCE ChatRoom WITH ws <- srvws

netvars == <<at, outcome, failures, connectedBefore, stopping, netws, sock, key, pinned, known,
             lost, cert, answer, posted, said, shown, reached, early>>
srvvars == <<srvws, pc, registry, name, departed, dpc, owner, wait, fail, kids, roster,
             leftCount, shuttingDown, main>>
links   == <<dialed, conn, first, heard, reason, right>>
vars    == <<netvars, srvvars, links>>

Failures == {"bad_credentials", "server_full", "rate_limited"}

TypeOK ==
    /\ Net!TypeOK /\ Server!TypeOK
    /\ dialed \in SUBSET Conns /\ conn \in dialed \cup {NoOne}
    /\ netws => conn # NoOne
    /\ first \in [Conns -> {"nothing", "proof", "sealed"}]
    /\ heard \in Seq({"hello", "ok"} \cup Failures) /\ Len(heard) <= 2
    /\ reason \in Failures \cup {"none"}
    /\ right \in BOOLEAN

\* A client that starts, or one whose session with an earlier server process
\* ended in that server's normal shutdown: it has the key and the pin.
Returning ==
    /\ at = "top" /\ outcome = "normal" /\ failures = 0 /\ connectedBefore = TRUE
    /\ stopping = FALSE /\ netws = FALSE /\ sock = "none" /\ key = TRUE
    /\ pinned \in Certs /\ known = pinned /\ lost = FALSE /\ cert = pinned /\ answer = "none" /\ posted = <<>>
    /\ said = "Reconnecting" /\ shown = FALSE /\ reached = TRUE /\ early = FALSE

Init ==
    /\ Server!Init
    /\ Net!Init \/ Returning
    /\ right = TRUE \/ (right = FALSE /\ ~connectedBefore)
    /\ dialed = {} /\ conn = NoOne
    /\ first = [c \in Conns |-> "nothing"]
    /\ heard = <<>> /\ reason = "none"

-----------------------------------------------------------------------------
(* The client.                                                              *)

\* The server reads one frame for the proof, whatever comes first.
Send(frame) ==
    first' = [first EXCEPT ![conn] = IF @ = "nothing" THEN frame ELSE @]

\* Mutant of SendEarly: the server passes over what is not a proof.
SendUnread ==
    /\ Net!SendSealed
    /\ UNCHANGED <<srvvars, links>>

\* A message another thread submitted, on whatever connection there is.
SendEarly ==
    /\ Net!SendSealed
    /\ Send("sealed")
    /\ UNCHANGED <<srvvars, dialed, conn, heard, reason, right>>

Dial ==
    /\ Net!ConnectOk
    /\ \E c \in Conns \ dialed : conn' = c /\ dialed' = dialed \cup {c}
    /\ heard' = <<>>
    /\ UNCHANGED <<srvvars, first, reason, right>>

NextHeard(frames) ==
    /\ heard # <<>>
    /\ Head(heard) \in frames
    /\ heard' = Tail(heard)

ReadHello ==
    /\ Net!Hello
    /\ NextHeard({"hello"})
    /\ Send("proof")
    /\ UNCHANGED <<srvvars, dialed, conn, reason, right>>

ReadOk ==
    /\ Net!Welcome
    /\ NextHeard({"ok"})
    /\ UNCHANGED <<srvvars, dialed, conn, first, reason, right>>

ReadFail ==
    /\ Net!Refused
    /\ NextHeard(Failures)
    /\ reason' = Head(heard)
    /\ UNCHANGED <<srvvars, dialed, conn, first, right>>

HangUp ==
    /\ Net!Closed
    /\ conn' = NoOne
    /\ heard' = <<>>
    /\ UNCHANGED <<srvvars, dialed, first, reason, right>>

\* Everything else the client and its users do.
Alone ==
    /\ \/ Net!Main \/ Net!ConnectFail \/ Net!Verify \/ Net!HandshakeLost \/ Net!ReadEnd
       \/ Net!SendFails \/ Net!Answered \/ Net!SendMessage \/ Net!AnswerCertificate
       \/ Net!Elsewhere
    /\ UNCHANGED <<srvvars, links>>

-----------------------------------------------------------------------------
(* The server.                                                              *)

\* A handshake frame for the connection c, if the client still holds it.
Answer(c, frame) == heard' = IF c = conn THEN Append(heard, frame) ELSE heard

Greet(c) ==
    /\ c \in dialed
    /\ Server!Admit(c)
    /\ Answer(c, "hello")
    /\ UNCHANGED <<netvars, dialed, conn, first, reason, right>>

\* The address is locked out, through others, or the room is full.
TurnAway(c) ==
    /\ c \in dialed
    /\ Server!Refuse(c)
    /\ \/ Answer(c, "rate_limited")
       \/ Cardinality(registry) >= MaxClients /\ Answer(c, "server_full")
    /\ UNCHANGED <<netvars, dialed, conn, first, reason, right>>

Proven(c) == first[c] = "proof" /\ right

\* Mutant of Accept: the newcomer is told before it is registered.
AcceptUnregistered(c) ==
    /\ Proven(c)
    /\ pc[c] = "hello" /\ srvws[c] = "open"
    /\ Answer(c, "ok")
    /\ UNCHANGED <<netvars, srvvars, dialed, conn, first, reason, right>>

Accept(c) ==
    /\ Proven(c)
    /\ Server!AuthAccept(c)
    /\ Answer(c, "ok")
    /\ UNCHANGED <<netvars, dialed, conn, first, reason, right>>

AcceptDead(c) ==
    /\ Proven(c)
    /\ Server!AuthAcceptDead(c)
    /\ UNCHANGED <<netvars, links>>

\* A frame that is no proof, or a wrong one.
Reject(c) ==
    /\ first[c] # "nothing" /\ ~Proven(c)
    /\ Server!AuthReject(c)
    /\ Answer(c, "bad_credentials")
    /\ UNCHANGED <<netvars, dialed, conn, first, reason, right>>

\* Mutant of Expire: the client is told what a wrong proof is told.
ExpireTelling(c) ==
    /\ Server!AuthReject(c)
    /\ Answer(c, "bad_credentials")
    /\ UNCHANGED <<netvars, dialed, conn, first, reason, right>>

\* Nothing came in time, or the peer went away.
Expire(c) ==
    /\ Server!AuthReject(c)
    /\ UNCHANGED <<netvars, links>>

Lose(c) == Server!PeerGone(c) /\ UNCHANGED <<netvars, links>>

Handle(c) == Accept(c) \/ AcceptDead(c) \/ Reject(c) \/ Expire(c)

Run(c) == (Server!Proceed(c) \/ Server!Depart(c)) /\ UNCHANGED <<netvars, links>>

Unwind(c) == Server!ServeEnd(c) /\ UNCHANGED <<netvars, links>>

Fanout(t) == Server!Clean(t) /\ UNCHANGED <<netvars, links>>

-----------------------------------------------------------------------------
Client == Dial \/ ReadHello \/ ReadOk \/ ReadFail \/ HangUp \/ SendEarly \/ Alone

Next ==
    \/ Client
    \/ \E c \in Conns :
          Greet(c) \/ TurnAway(c) \/ Handle(c) \/ Lose(c) \/ Run(c) \/ Unwind(c)
    \/ \E t \in Server!Tasks : Fanout(t)
    \/ Net!Terminated /\ UNCHANGED <<srvvars, links>>

Spec == Init /\ [][Next]_vars

\* The server's loop runs its tasks, and a connection the client has let go of
\* is noticed: closed, reset, or given up by the keepalive.  One condition for
\* all of it is enough, since the server takes finitely many such steps.
Serving ==
    /\ UNCHANGED netvars
    /\ \/ \E c \in Conns : Handle(c) \/ Run(c) \/ Unwind(c) \/ (c # conn /\ Lose(c))
       \/ \E t \in Server!Tasks : Fanout(t)

Fairness == WF_vars(Serving)

FairSpec == Spec /\ Fairness

-----------------------------------------------------------------------------
\* A client in a session that neither side has seen the end of is a member of
\* the room, under the connection it reads from: being connected means the same
\* at both ends.
InRoom ==
    at = "reading" /\ sock = "up" /\ srvws[conn] = "open" => conn \in registry

\* auth_ok answers a proof that was the first thing sent, and the right one:
\* NetClient!Welcome may rely on it.
ProofFirst ==
    (\E i \in DOMAIN heard : heard[i] = "ok") \/ at = "reading" => right /\ ~early

\* "Wrong room password" is only said of a wrong password, or to a client that
\* sent a message on a new connection before it had proved anything, which only
\* one that reconnects does.
WrongPasswordMeant ==
    reason = "bad_credentials" /\ right => early /\ connectedBefore

\* Liveness: the sessions a client has left behind leave the room, on their own
\* or by the join of its next one, but for ghosts.
OldSessionsLeave ==
    \A c \in Conns :
        c \in registry /\ c # conn /\ pc[c] # "done" ~> c \notin registry
=============================================================================

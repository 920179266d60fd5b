------------------------------ MODULE ChatRoom ------------------------------
(***************************************************************************)
(* The room kept by ChatServer (src/src/pychat/server.py): one handler     *)
(* coroutine per connection, the registry `clients`, broadcasts that       *)
(* gather one send per recipient, departures noticed by two parties, and   *)
(* the shutdown of run().                                                  *)
(*                                                                         *)
(* The server is one asyncio loop, so code between two awaits is one       *)
(* action; every await is a point where other tasks may run.  Sealing,     *)
(* frame syntax, timestamps and logging are abstracted away; a frame is a  *)
(* roster or NoRoster (any other text).                                    *)
(***************************************************************************)
EXTENDS Integers, FiniteSets

CONSTANTS
    Conns,       \* connections; a Client is named by the connection it owns
    Names,       \* casefold classes of display names
    Requested,   \* names a peer may ask for
    Fallbacks,   \* the names `user-xxxxxx`
    MaxClients,  \* protocol.MAX_CLIENTS
    Tag(_, _),   \* Tag(n, k): n with "#k" appended, trimmed to the limit
    NoName,      \* the name of a connection that never authenticated
    NoOne,       \* not a connection
    NoTask       \* nobody awaits this departure

Suffixes == 2 .. (MaxClients + 2)

ASSUME ConstantsAssumption ==
    /\ MaxClients \in Nat \ {0}
    /\ Requested \subseteq Names
    /\ Fallbacks \subseteq Names
    /\ Fallbacks # {}
    /\ \A n \in Names, k \in Suffixes : Tag(n, k) \in Names
    /\ NoName \notin Names
    /\ NoOne \notin Conns

-----------------------------------------------------------------------------
(* The asyncio tasks that broadcast: the handler of a connection, the one  *)
(* effective depart() of a client, and run() itself.                       *)

Handler(c)   == <<"handle", c>>
Departure(c) == <<"depart", c>>
Main         == <<"main">>
Tasks        == {Handler(c) : c \in Conns} \cup {Departure(c) : c \in Conns} \cup {Main}

\* A roster is a set of clients; NoRoster: the peer was sent none yet.
NoRoster == {NoOne}
Rosters  == (SUBSET Conns) \cup {NoRoster}

VARIABLES
    ws,            \* transport of each connection, as the server sees it
    pc,            \* where the connection's handler is
    registry,      \* keys of ChatServer.clients
    name,          \* Client.name
    departed,      \* clients whose `departed` flag is set
    dpc,           \* where the effective depart() of each client is
    owner,         \* the task awaiting that depart()
    wait,          \* per task: recipients whose send has not completed
    fail,          \* per task: recipients whose send raised
    kids,          \* per task: depart() coroutines gathered but not started
    roster,        \* last roster sent to each peer that is still connected
    leftCount,     \* "<name> left the chat" broadcasts per client (up to 2)
    shuttingDown,  \* ChatServer._shutting_down
    main           \* where run() is

client == <<registry, name, departed>>
casts  == <<wait, fail, kids>>
vars   == <<ws, pc, registry, name, departed, dpc, owner, wait, fail, kids,
            roster, leftCount, shuttingDown, main>>

TypeOK ==
    /\ ws \in [Conns -> {"none", "open", "stalled", "closed", "goingaway"}]
    /\ pc \in [Conns -> {"idle", "hello", "joined", "rostering", "serve", "reply",
                         "relay", "expelled", "unwind", "done"}]
    /\ registry \in SUBSET Conns
    /\ name \in [Conns -> Names \cup {NoName}]
    /\ departed \in SUBSET Conns
    /\ dpc \in [Conns -> {"none", "closing", "left", "roster", "done"}]
    /\ owner \in [Conns -> Tasks \cup {NoTask}]
    /\ wait \in [Tasks -> SUBSET Conns]
    /\ fail \in [Tasks -> SUBSET Conns]
    /\ kids \in [Tasks -> SUBSET Conns]
    /\ roster \in [Conns -> Rosters]
    /\ leftCount \in [Conns -> 0..2]
    /\ shuttingDown \in BOOLEAN
    /\ main \in {"serving", "closing", "draining", "notify", "goodbye", "exited"}

Init ==
    /\ ws = [c \in Conns |-> "none"]
    /\ pc = [c \in Conns |-> "idle"]
    /\ registry = {}
    /\ name = [c \in Conns |-> NoName]
    /\ departed = {}
    /\ dpc = [c \in Conns |-> "none"]
    /\ owner = [c \in Conns |-> NoTask]
    /\ wait = [t \in Tasks |-> {}]
    /\ fail = [t \in Tasks |-> {}]
    /\ kids = [t \in Tasks |-> {}]
    /\ roster = [c \in Conns |-> NoRoster]
    /\ leftCount = [c \in Conns |-> 0]
    /\ shuttingDown = FALSE
    /\ main = "serving"

-----------------------------------------------------------------------------
(* Sockets and fan-out.  A send completes in the same turn, unless the      *)
(* peer reads so slowly that the transport is paused ("stalled"): it then   *)
(* waits behind the earlier sends, and completes when the peer catches up   *)
(* or raises when the connection ends.  On a closed socket it raises.       *)

Live  == {c \in Conns : ws[c] \in {"open", "stalled"}}

\* broadcast(): gather one send per recipient.
Broadcast(t, targets) ==
    /\ wait' = [wait EXCEPT ![t] = {c \in targets : ws[c] = "stalled"}]
    /\ fail' = [fail EXCEPT ![t] = targets \ Live]

\* broadcast_roster(): the registry as it is now, to everyone in it.
BroadcastRoster(t) ==
    /\ Broadcast(t, registry)
    /\ roster' = [c \in Conns |-> IF c \in registry \cap Live THEN registry ELSE roster[c]]

\* Mutant of Returned: the departures are spawned and not awaited.
ReturnedSends(t) == wait[t] = {} /\ fail[t] = {}

\* The awaited broadcast has returned: all sends completed, and the departures
\* it gathered for failed recipients have finished.
Returned(t) ==
    /\ wait[t] = {}
    /\ fail[t] = {}
    /\ kids[t] = {}
    /\ \A c \in Conns : owner[c] # t

\* The sockets of S are no longer open: the sends waiting on them raise.
HangUp(S, how) ==
    /\ ws' = [c \in Conns |-> IF c \in S \cap Live THEN how ELSE ws[c]]
    /\ wait' = [t \in Tasks |-> wait[t] \ S]
    /\ fail' = [t \in Tasks |-> fail[t] \cup (wait[t] \cap S)]
    /\ roster' = [c \in Conns |-> IF c \in S THEN NoRoster ELSE roster[c]]

Goto(c, label) == pc' = [pc EXCEPT ![c] = label]

\* The peer of a client stops reading, or catches up.
Stall(c) ==
    /\ c \in registry
    /\ ws[c] = "open"
    /\ ws' = [ws EXCEPT ![c] = "stalled"]
    /\ UNCHANGED <<pc, client, dpc, owner, casts, roster, leftCount, shuttingDown, main>>

Recover(c) ==
    /\ ws[c] = "stalled"
    /\ ws' = [ws EXCEPT ![c] = "open"]
    /\ wait' = [t \in Tasks |-> wait[t] \ {c}]
    /\ UNCHANGED <<pc, client, dpc, owner, fail, kids, roster, leftCount, shuttingDown, main>>

\* The peer leaves, dies, or misses a keepalive ping.
PeerGone(c) ==
    /\ c \in Live
    /\ HangUp({c}, "closed")
    /\ UNCHANGED <<pc, client, dpc, owner, kids, leftCount, shuttingDown, main>>

\* Mutant of Cleanup: the failed recipients are sent to again.
CleanupRetry(t) ==
    /\ fail[t] # {}
    /\ wait[t] = {}
    /\ registry' = registry \ fail[t]
    /\ kids' = [kids EXCEPT ![t] = fail[t]]
    /\ UNCHANGED <<ws, pc, name, departed, dpc, owner, wait, fail, roster, leftCount,
                   shuttingDown, main>>

\* All sends of t's gather completed and some raised: drop those recipients
\* from the registry, and gather one depart() for each.
Cleanup(t) ==
    /\ fail[t] # {}
    /\ wait[t] = {}
    /\ registry' = registry \ fail[t]
    /\ kids' = [kids EXCEPT ![t] = fail[t]]
    /\ fail' = [fail EXCEPT ![t] = {}]
    /\ UNCHANGED <<ws, pc, name, departed, dpc, owner, wait, roster, leftCount,
                   shuttingDown, main>>

-----------------------------------------------------------------------------
(* depart()                                                                *)

\* Mutant of DepartBegin: without the `departed` check.
DepartAgain(c, t) ==
    /\ departed' = departed \cup {c}
    /\ registry' = registry \ {c}
    /\ HangUp({c}, "closed")
    /\ dpc' = [dpc EXCEPT ![c] = "closing"]
    /\ owner' = [owner EXCEPT ![c] = t]
    /\ UNCHANGED name

\* Mutant of DepartBegin: the client stays in the registry.
DepartListed(c, t) ==
    /\ c \notin departed
    /\ departed' = departed \cup {c}
    /\ HangUp({c}, "closed")
    /\ dpc' = [dpc EXCEPT ![c] = "closing"]
    /\ owner' = [owner EXCEPT ![c] = t]
    /\ UNCHANGED <<name, registry>>

\* depart() up to its first await: flag, removal, start of the close.  When
\* the flag is already set the caller goes straight on.
DepartBegin(c, t) ==
    /\ c \notin departed
    /\ departed' = departed \cup {c}
    /\ registry' = registry \ {c}
    /\ HangUp({c}, "closed")
    /\ dpc' = [dpc EXCEPT ![c] = "closing"]
    /\ owner' = [owner EXCEPT ![c] = t]
    /\ UNCHANGED name

DepartNoop(c) ==
    /\ c \in departed
    /\ UNCHANGED <<ws, client, dpc, owner, wait, fail, roster>>

\* A depart() gathered by t's broadcast gets its first turn.
RunKid(t, c) ==
    /\ c \in kids[t]
    /\ kids' = [kids EXCEPT ![t] = @ \ {c}]
    /\ DepartBegin(c, t) \/ DepartNoop(c)
    /\ UNCHANGED <<pc, leftCount, shuttingDown, main>>

\* The closing handshake is over (or timed out): announce, unless the server
\* is shutting down.
DepartClosed(c) ==
    /\ dpc[c] = "closing"
    /\ ~shuttingDown
    /\ dpc' = [dpc EXCEPT ![c] = "left"]
    /\ leftCount' = [leftCount EXCEPT ![c] = IF @ < 2 THEN @ + 1 ELSE 2]
    /\ Broadcast(Departure(c), registry)
    /\ UNCHANGED <<ws, pc, client, owner, kids, roster, shuttingDown, main>>

DepartSilently(c) ==
    /\ dpc[c] = "closing"
    /\ shuttingDown
    /\ dpc' = [dpc EXCEPT ![c] = "done"]
    /\ owner' = [owner EXCEPT ![c] = NoTask]
    /\ UNCHANGED <<ws, pc, client, casts, roster, leftCount, shuttingDown, main>>

DepartRoster(c) ==
    /\ dpc[c] = "left"
    /\ Returned(Departure(c))
    /\ dpc' = [dpc EXCEPT ![c] = "roster"]
    /\ BroadcastRoster(Departure(c))
    /\ UNCHANGED <<ws, pc, client, owner, kids, leftCount, shuttingDown, main>>

DepartEnd(c) ==
    /\ dpc[c] = "roster"
    /\ Returned(Departure(c))
    /\ dpc' = [dpc EXCEPT ![c] = "done"]
    /\ owner' = [owner EXCEPT ![c] = NoTask]
    /\ UNCHANGED <<ws, pc, client, casts, roster, leftCount, shuttingDown, main>>

-----------------------------------------------------------------------------
(* unique_name(): the first free one of the name itself and its tags.      *)

Taken == {name[c] : c \in registry}

\* Mutant of UniqueName: the first tag is taken unseen.
UniqueNameUnchecked(n) == IF n \in Taken THEN {Tag(n, 2)} ELSE {n}

UniqueName(n) ==
    LET free == {k \in Suffixes : Tag(n, k) \notin Taken}
    IN  CASE n \notin Taken -> {n}
          [] n \in Taken /\ free # {} ->
                {Tag(n, k) : k \in {i \in free : \A j \in free : i <= j}}
          [] OTHER -> Fallbacks

-----------------------------------------------------------------------------
(* handle(): the handshake.                                                *)

\* A connection that is neither locked out nor over the capacity is greeted.
Admit(c) ==
    /\ main = "serving"
    /\ pc[c] = "idle"
    /\ Cardinality(registry) < MaxClients
    /\ ws' = [ws EXCEPT ![c] = "open"]
    /\ Goto(c, "hello")
    /\ UNCHANGED <<client, dpc, owner, casts, roster, leftCount, shuttingDown, main>>

\* Locked out (see Lockout; any address may be) or full.
Refuse(c) ==
    /\ main = "serving"
    /\ pc[c] = "idle"
    /\ ws' = [ws EXCEPT ![c] = "closed"]
    /\ Goto(c, "done")
    /\ UNCHANGED <<client, dpc, owner, casts, roster, leftCount, shuttingDown, main>>

\* Timeout, malformed frame, wrong version or proof, or the peer went away.
AuthReject(c) ==
    /\ pc[c] = "hello"
    /\ HangUp({c}, "closed")
    /\ Goto(c, "done")
    /\ UNCHANGED <<client, dpc, owner, kids, leftCount, shuttingDown, main>>

\* A valid proof: the client is named and registered.
Register(c) ==
    /\ \E n \in Requested : \E u \in UniqueName(n) : name' = [name EXCEPT ![c] = u]
    /\ registry' = registry \cup {c}
    /\ UNCHANGED departed

\* auth_ok, with the roster, goes out at once (the buffer of a new connection
\* is empty), and the same turn announces the newcomer to the others.
AuthAccept(c) ==
    /\ pc[c] = "hello"
    /\ ws[c] = "open"
    /\ Register(c)
    /\ Broadcast(Handler(c), registry)
    /\ roster' = [roster EXCEPT ![c] = registry \cup {c}]
    /\ Goto(c, "joined")
    /\ UNCHANGED <<ws, dpc, owner, kids, leftCount, shuttingDown, main>>

\* The proof was buffered before the socket closed, so auth_ok raises: the
\* exception leaves _authenticate after the registration, handle()'s `client`
\* is still None and its finally departs nobody.
AuthAcceptDead(c) ==
    /\ pc[c] = "hello"
    /\ c \notin Live
    /\ Register(c)
    /\ Goto(c, "done")
    /\ UNCHANGED <<ws, dpc, owner, casts, roster, leftCount, shuttingDown, main>>

\* Mutant of AfterJoined: the new roster goes to the newcomer alone.
RosterToNewcomer(c) ==
    /\ pc[c] = "joined"
    /\ Returned(Handler(c))
    /\ Broadcast(Handler(c), registry \cap {c})
    /\ roster' = [roster EXCEPT ![c] = registry]
    /\ Goto(c, "rostering")
    /\ UNCHANGED <<ws, client, dpc, owner, kids, leftCount, shuttingDown, main>>

AfterJoined(c) ==
    /\ pc[c] = "joined"
    /\ Returned(Handler(c))
    /\ BroadcastRoster(Handler(c))
    /\ Goto(c, "rostering")
    /\ UNCHANGED <<ws, client, dpc, owner, kids, leftCount, shuttingDown, main>>

-----------------------------------------------------------------------------
(* _serve_client(): the read loop.  Frames buffered before a close are      *)
(* still read after it.                                                    *)

\* An accepted message is relayed to everyone registered, its sender too.
Relay(c) ==
    /\ pc[c] = "serve"
    /\ Broadcast(Handler(c), registry)
    /\ Goto(c, "relay")
    /\ UNCHANGED <<ws, client, dpc, owner, kids, roster, leftCount, shuttingDown, main>>

\* A pong, or an error for a malformed, too long or rate limited message, to a
\* peer that does not read it.  (Any other reply completes at once.)
Reply(c) ==
    /\ pc[c] = "serve"
    /\ ws[c] = "stalled"
    /\ Goto(c, "reply")
    /\ UNCHANGED <<ws, client, dpc, owner, casts, roster, leftCount, shuttingDown, main>>

\* send_to() suppresses the failure of a reply.
Replied(c) ==
    /\ pc[c] = "reply"
    /\ ws[c] # "stalled"
    /\ Goto(c, "serve")
    /\ UNCHANGED <<ws, client, dpc, owner, casts, roster, leftCount, shuttingDown, main>>

\* The roster of a join, or a relayed message, reached everyone: read on.
BackToServe(c) ==
    /\ pc[c] \in {"rostering", "relay"}
    /\ Returned(Handler(c))
    /\ Goto(c, "serve")
    /\ UNCHANGED <<ws, client, dpc, owner, casts, roster, leftCount, shuttingDown, main>>

\* A malformed frame, or one decryption failure too many: close and return.
Expel(c) ==
    /\ pc[c] = "serve"
    /\ HangUp({c}, "closed")
    /\ Goto(c, "expelled")
    /\ UNCHANGED <<client, dpc, owner, kids, leftCount, shuttingDown, main>>

\* Mutant of ServeEnd: no finally.
ServeEndSilently(c) ==
    /\ pc[c] = "expelled" \/ (pc[c] = "serve" /\ c \notin Live)
    /\ Goto(c, "done")
    /\ UNCHANGED <<ws, client, dpc, owner, casts, roster, leftCount, shuttingDown, main>>

\* The loop is over; handle()'s finally departs the client.
ServeEnd(c) ==
    /\ pc[c] = "expelled" \/ (pc[c] = "serve" /\ c \notin Live)
    /\ \/ DepartBegin(c, Handler(c)) /\ Goto(c, "unwind")
       \/ DepartNoop(c) /\ Goto(c, "done")
    /\ UNCHANGED <<kids, leftCount, shuttingDown, main>>

Unwound(c) ==
    /\ pc[c] = "unwind"
    /\ dpc[c] = "done"
    /\ Goto(c, "done")
    /\ UNCHANGED <<ws, client, dpc, owner, casts, roster, leftCount, shuttingDown, main>>

-----------------------------------------------------------------------------
(* run(): a stop signal leaves `async with serve(...)`, whose exit closes   *)
(* every connection and awaits every handler; only then shutdown() runs.    *)

StopSignal ==
    /\ main = "serving"
    /\ main' = "closing"
    /\ UNCHANGED <<ws, pc, client, dpc, owner, casts, roster, leftCount, shuttingDown>>

\* Server.close() starts one close per connection, all in one turn.
LibClose ==
    /\ main = "closing"
    /\ HangUp(Conns, "goingaway")
    /\ main' = "draining"
    /\ UNCHANGED <<pc, client, dpc, owner, kids, leftCount, shuttingDown>>

\* shutdown(): the flag, then the farewell to whoever is registered.
MainShutdown ==
    /\ main = "draining"
    /\ \A c \in Conns : pc[c] \in {"idle", "done"}
    /\ shuttingDown' = TRUE
    /\ Broadcast(Main, registry)
    /\ main' = "notify"
    /\ UNCHANGED <<ws, pc, client, dpc, owner, kids, roster, leftCount>>

MainCloseAll ==
    /\ main = "notify"
    /\ Returned(Main)
    /\ departed' = departed \cup registry
    /\ HangUp(registry, "goingaway")
    /\ main' = "goodbye"
    /\ UNCHANGED <<pc, registry, name, dpc, owner, kids, leftCount, shuttingDown>>

MainExit ==
    /\ main = "goodbye"
    /\ registry' = {}
    /\ main' = "exited"
    /\ UNCHANGED <<ws, pc, name, departed, dpc, owner, casts, roster, leftCount, shuttingDown>>

Terminated == main = "exited" /\ UNCHANGED vars

-----------------------------------------------------------------------------
Handshake(c) == AuthReject(c) \/ AuthAccept(c) \/ AuthAcceptDead(c)
Proceed(c)   == AfterJoined(c) \/ Replied(c) \/ BackToServe(c) \/ Unwound(c)
Depart(c)    == DepartClosed(c) \/ DepartSilently(c) \/ DepartRoster(c) \/ DepartEnd(c)
Clean(t)     == Cleanup(t) \/ \E c \in Conns : RunKid(t, c)
Stopping     == LibClose \/ MainShutdown \/ MainCloseAll \/ MainExit
Socket(c)    == Stall(c) \/ Recover(c) \/ PeerGone(c)
Read(c)      == Relay(c) \/ Reply(c) \/ Expel(c)

Next ==
    \/ \E c \in Conns :
          \/ Admit(c) \/ Refuse(c) \/ Handshake(c) \/ Proceed(c)
          \/ Read(c) \/ ServeEnd(c) \/ Depart(c) \/ Socket(c)
    \/ \E t \in Tasks : Clean(t)
    \/ StopSignal
    \/ Stopping
    \/ Terminated

Spec == Init /\ [][Next]_vars

\* What the loop and the library guarantee: a ready task runs, a stalled peer
\* catches up or fails its keepalive ping, a handshake ends within
\* AUTH_TIMEOUT_SECONDS, and closing the server closes every connection.  A
\* read loop drains the finite buffer of a dead socket and ends (strong: each
\* buffered frame interrupts it).  Peers owe nothing else.
Fairness ==
    /\ \A c \in Conns :
          /\ WF_vars(Handshake(c))
          /\ WF_vars(Proceed(c))
          /\ SF_vars(ServeEnd(c))
          /\ WF_vars(Depart(c))
          /\ WF_vars(ws[c] = "stalled" /\ (Recover(c) \/ PeerGone(c)))
    /\ \A t \in Tasks : WF_vars(Clean(t))
    /\ WF_vars(Stopping)

FairSpec == Spec /\ Fairness

-----------------------------------------------------------------------------
(* What the room promises.                                                 *)

\* A client that left is announced at most once, whichever of a failed
\* broadcast and its own handler notices it, and however many of them do
\* (server.py depart(), the `departed` flag).
LeaveAnnouncedOnce == \A c \in Conns : leftCount[c] <= 1

\* Two registered clients share a name only if it is a `user-xxxxxx`: the name
\* is chosen and registered in one turn of the loop (unique_name).
UniqueNames ==
    \A c, d \in registry : c # d /\ name[c] = name[d] => name[c] \in Fallbacks

\* A registered client whose handler has ended.
Ghosts == {c \in registry : pc[c] = "done"}

Quiet ==
    /\ main = "serving"
    /\ \A c \in Conns : pc[c] \in {"idle", "hello", "serve", "expelled", "done"}
    /\ \A c \in Conns : dpc[c] \in {"none", "done"}

\* When no broadcast or departure is under way, every live client was last
\* sent exactly the room: however joins, leaves and failed sends interleaved,
\* nobody is left with a stale roster.
RosterConverges ==
    Quiet => \A c \in registry :
                c \in Live => roster[c] \ Ghosts = registry \ Ghosts

\* The process exits with nobody registered and no departure cut short.
CleanExit ==
    main = "exited" =>
        /\ registry = {}
        /\ \A c \in Conns : c \notin Live /\ dpc[c] \in {"none", "done"}

\* The inductive strengthening of RosterConverges.
\* A task that is not inside a broadcast has nothing left of an earlier one.
Broadcasting(t) ==
    \/ \E c \in Conns : t = Handler(c) /\ pc[c] \in {"joined", "rostering", "relay"}
    \/ \E c \in Conns : t = Departure(c) /\ dpc[c] \in {"left", "roster"}
    \/ t = Main /\ main = "notify"

CastsTidy ==
    \A t \in Tasks :
        /\ ~Broadcasting(t) => wait[t] = {} /\ fail[t] = {} /\ kids[t] = {}
        /\ kids[t] # {} => wait[t] = {} /\ fail[t] = {}

\* Only connections past their handshake are clients of anything.
Strangers == {c \in Conns : pc[c] \in {"idle", "hello"}}

StrangersUnknown ==
    /\ Strangers \cap (registry \cup departed) = {}
    /\ \A t \in Tasks : Strangers \cap (wait[t] \cup fail[t] \cup kids[t]) = {}

\* Until shutdown() raises its flag, being registered and having departed
\* exclude each other.
DepartedGone ==
    /\ ~shuttingDown => main \in {"serving", "closing", "draining"} /\ registry \cap departed = {}
    /\ main \in {"serving", "closing", "draining"} => ~shuttingDown
    /\ \A c \in Conns : dpc[c] # "none" \/ pc[c] = "unwind" => c \in departed

\* Somebody still owes the room a roster on behalf of c.
Owed(c) ==
    \/ pc[c] = "joined"
    \/ dpc[c] \in {"closing", "left"}
    \/ c \notin departed /\ \E t \in Tasks : c \in kids[t]

Synced == \A c \in registry \cap Live : roster[c] \ Ghosts = registry \ Ghosts

RostersOwed == ~shuttingDown => Synced \/ \E c \in Conns : Owed(c)

RosterInv == CastsTidy /\ StrangersUnknown /\ DepartedGone /\ RostersOwed

\* Liveness: a registered client whose socket died is removed, unless it is
\* one whose auth_ok never went out.
DeadLeave ==
    \A c \in Conns :
        (c \in registry /\ c \notin Live /\ pc[c] # "done")
            ~> c \notin registry

\* Liveness: a relayed message's broadcast returns, so the sender's read loop
\* goes on, whatever its recipients do: tasks never wait in a circle.
BroadcastReturns == \A c \in Conns : pc[c] = "relay" ~> pc[c] # "relay"

\* Liveness: a stop signal ends the process.
StopCompletes == main = "closing" ~> main = "exited"

-----------------------------------------------------------------------------
(* The abstract room.                                                      *)

\* A client told about is announced; one taken from the registry is gone.  A
\* second notice leads to a status that Room has no step to.
Status(c) ==
    CASE leftCount[c] > 1 -> "announced twice"
      [] leftCount[c] = 1 -> "announced"
      [] leftCount[c] = 0 /\ c \in registry -> "member"
      [] leftCount[c] = 0 /\ c \notin registry /\ name[c] # NoName -> "gone"
      [] OTHER -> "outside"

Abstract == INSTANCE Room WITH
    status <- [c \in Conns |-> Status(c)],
    open <- ~shuttingDown

\* Whatever the sockets, tasks and broadcasts do, the registry is a Room: who
\* joins has a free name, who is removed was a member, and everybody removed
\* while the server is up is announced, once, a stop signal or not.
ImplementsRoom == Abstract!Spec

-----------------------------------------------------------------------------
(* What the documentation says and the code does not do.                   *)

\* depart()'s docstring: the handler unwinding notices a departure.
NoGhost == Ghosts = {}

=============================================================================

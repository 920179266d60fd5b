--------------------------- MODULE ClientThreads ---------------------------
(* What the two front ends of the client share: the process was started     *)
(* with --headless or without (src/src/pychat/client.py, main), and creates *)
(* NetworkClients, numbered as they are created.  Each behaves as           *)
(* EventOrder says.                                                         *)
EXTENDS EventOrder, Integers, Sequences

CONSTANTS
    MaxClients,   \* clients the user creates (a bound for TLC)
    MaxQueued     \* events a client is ahead of its reader (a bound for TLC)

ASSUME ClientsAssumption == MaxClients \in Nat \ {0} /\ MaxQueued \in Nat \ {0}

Clients == 1..MaxClients
None    == 0

VARIABLES
    mode,                               \* "gui" or "headless"
    stage, before, stopping, verdict,   \* of each client, as in EventFlow
    queue,                              \* events of each client, while anybody may read them
    created,                            \* clients created so far
    client                              \* the client the front end holds

threads == <<stage, before, stopping, verdict, queue>>
clients == <<threads, created, client>>

Events == {"Connecting", "CertificateUnknown", "CertificateMismatch", "Connected", "AuthFailed",
           "ConnectionFailed", "Reconnecting", "Disconnected", "GaveUp", "Stopped"}

ThreadsTypeOK ==
    /\ mode \in {"gui", "headless"}
    /\ stage \in [Clients -> Stages]
    /\ before \in [Clients -> BOOLEAN] /\ stopping \in [Clients -> BOOLEAN]
    /\ verdict \in [Clients -> {"none", "yes", "no"}]
    /\ queue \in [Clients -> Seq(Events)]
    /\ created \in 0..MaxClients /\ client \in 0..created

\* main() looks at the arguments.
ThreadsInit ==
    /\ mode \in {"gui", "headless"}
    /\ stage = [c \in Clients |-> "idle"]
    /\ before = [c \in Clients |-> FALSE] /\ stopping = [c \in Clients |-> FALSE]
    /\ verdict = [c \in Clients |-> "none"]
    /\ queue = [c \in Clients |-> <<>>]
    /\ created = 0 /\ client = None

\* A network thread; nobody reads the queue of a client that was dropped.  The
\* bound on the queue holds up no client that was told to stop.
Network(c, read) ==
    /\ c <= created
    /\ stopping[c] \/ Len(queue[c]) < MaxQueued
    /\ \E r \in After(stage[c], before[c], stopping[c], verdict[c]) :
        /\ stage' = [stage EXCEPT ![c] = r.stage]
        /\ before' = [before EXCEPT ![c] = r.before]
        /\ queue' = [queue EXCEPT ![c] = IF read THEN @ \o r.says ELSE <<>>]
        /\ verdict' = [verdict EXCEPT ![c] = "none"]
    /\ UNCHANGED <<mode, stopping, created, client>>

\* NetworkClient(...), start().
Create ==
    /\ created < MaxClients
    /\ created' = created + 1
    /\ client' = created + 1

\* client.stop(), if there is one.
StopClient == stopping' = [c \in Clients |-> stopping[c] \/ c = client]

\* client.answer_certificate(): if that client has a prompt pending.
AnswerCertificate(v) ==
    verdict' = [c \in Clients |->
        IF c = client /\ stage[c] = "asked" /\ verdict[c] = "none" THEN v ELSE verdict[c]]
=============================================================================

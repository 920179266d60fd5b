------------------------------- MODULE Trust -------------------------------
(* Trust on first use end to end: the clients of one user, their file of    *)
(* pins, our server with the identity it keeps on disk, and other servers   *)
(* whose certificates never change.                                         *)
EXTENDS Identity, KnownHosts

CONSTANTS
    Ours,      \* the key host:port of our server
    Foreign    \* the certificate of every other server

ASSUME TrustAssumption ==
    /\ Ours \in Hosts
    /\ Ids \subseteq Certs
    /\ Foreign \in Certs

vars == <<serverVars, hostVars>>

TypeOK == ServerTypeOK /\ HostsTypeOK

Init == ServerInit /\ HostsInit

\* A connection gets as far as the certificate when somebody listens.
Connect(c) ==
    /\ \/ cert # NoCert /\ Verify(c, Ours, cert)
       \/ \E h \in Hosts \ {Ours} : Verify(c, h, Foreign)
    /\ UNCHANGED serverVars

Server == ServerNext /\ UNCHANGED hostVars
Save   == SaveNext /\ UNCHANGED serverVars

Next == Server \/ Save \/ (\E c \in Clients : Connect(c))

Spec == Init /\ [][Next]_vars

\* A client that meets only genuine servers is never told that an identity has
\* changed, whatever kills and restarts the server goes through and however
\* the saves of several clients overlap: the README's warning "that last case
\* has no ignore once button" is only shown when it is meant.
NoFalseAlarm == ~alarm
=============================================================================

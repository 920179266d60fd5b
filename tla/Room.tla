-------------------------------- MODULE Room --------------------------------
(* What ChatServer (src/src/pychat/server.py) promises of its room, without *)
(* sockets, tasks and rosters: a connection becomes a member under a name   *)
(* nobody else has, stops being one, and the room is told so once.          *)
(* ChatRoom implements it.                                                  *)
CONSTANTS
    Conns,
    Names,      \* casefold classes of display names
    Fallbacks,  \* the names `user-xxxxxx`, which nobody checks
    NoName      \* the name of a connection that never was a member

VARIABLES
    status,  \* of each connection: "outside", "member", "gone", "announced"
    name,
    open     \* until the shutdown

vars == <<status, name, open>>

Members == {c \in Conns : status[c] = "member"}

Init ==
    /\ status = [c \in Conns |-> "outside"]
    /\ name = [c \in Conns |-> NoName]
    /\ open = TRUE

Join(c) ==
    /\ open
    /\ status[c] = "outside"
    /\ \E n \in Names :
        /\ n \in Fallbacks \/ \A d \in Members : name[d] # n
        /\ name' = [name EXCEPT ![c] = n]
    /\ status' = [status EXCEPT ![c] = "member"]
    /\ UNCHANGED open

\* One departure, the failed recipients of one broadcast, or everybody at the end.
Remove(S) ==
    /\ S \subseteq Members
    /\ S # {}
    /\ status' = [c \in Conns |-> IF c \in S THEN "gone" ELSE status[c]]
    /\ UNCHANGED <<name, open>>

Announce(c) ==
    /\ open
    /\ status[c] = "gone"
    /\ status' = [status EXCEPT ![c] = "announced"]
    /\ UNCHANGED <<name, open>>

\* The shutdown: every departure has been announced before it.
Close ==
    /\ open
    /\ \A c \in Conns : status[c] # "gone"
    /\ open' = FALSE
    /\ UNCHANGED <<status, name>>

Next ==
    \/ \E c \in Conns : Join(c) \/ Announce(c)
    \/ \E S \in SUBSET Conns : Remove(S)
    \/ Close

\* Who is gone while the room is open is announced.
Spec == Init /\ [][Next]_vars /\ \A c \in Conns : WF_vars(Announce(c))
=============================================================================

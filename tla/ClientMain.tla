----------------------------- MODULE ClientMain -----------------------------
(* The client as a whole (src/src/pychat/client.py, main): one of its two   *)
(* front ends over its network threads.                                     *)
EXTENDS ChatApp, Headless

vars == <<mode, threads, created, client, window, pump, terminal>>

TypeOK == ThreadsTypeOK /\ AppTypeOK /\ TermTypeOK

Init == ThreadsInit /\ AppInit /\ TermInit

\* A process that has exited has no threads.
Background == \E c \in Clients :
    /\ input # "exited"
    /\ Network(c, Read(c))
    /\ UNCHANGED <<window, pump, terminal>>

Next ==
    \/ AppNext /\ UNCHANGED terminal
    \/ TermNext /\ UNCHANGED <<window, pump>>
    \/ Background

Spec == Init /\ [][Next]_vars

\* The pump is an after() callback; threads run; a pipe that ran dry says so; a
\* client's waits end by themselves but for an established session and a prompt
\* nobody answers.  Users and terminals owe nothing.
Fairness ==
    /\ WF_vars(AppNext /\ Pump /\ UNCHANGED terminal)
    /\ WF_vars(TermNext /\ Printing /\ UNCHANGED <<window, pump>>)
    /\ WF_vars(TermNext /\ TakeInput /\ UNCHANGED <<window, pump>>)
    /\ WF_vars(TermNext /\ ended /\ Eof /\ UNCHANGED <<window, pump>>)
    /\ WF_vars(TermNext /\ MainThread /\ UNCHANGED <<window, pump>>)
    /\ \A c \in Clients :
          WF_vars(/\ stage[c] # "live" /\ input # "exited"
                  /\ Network(c, Read(c)) /\ UNCHANGED <<window, pump, terminal>>)

FairSpec == Spec /\ Fairness
=============================================================================

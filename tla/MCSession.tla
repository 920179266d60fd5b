----------------------------- MODULE MCSession -----------------------------
(* An instance of Session for TLC.  Names are one class: the fallbacks'.    *)
EXTENDS Session

CONSTANTS c1, c2, U, A

MCTag(n, k) == U

\* Bounds that leave out no case.  Connections are interchangeable: c1 is dialed
\* before c2.  And the file matters only when it is read: others change it while
\* the client is connecting.
Representative ==
    /\ c2 \in dialed' => c1 \in dialed'
    /\ Net!Elsewhere => at = "connecting"
=============================================================================

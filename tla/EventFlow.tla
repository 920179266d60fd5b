----------------------------- MODULE EventFlow -----------------------------
(* The abstract specification of a NetworkClient: EventOrder as a state     *)
(* machine.  The UI relies on no more than this; NetClient implements it.   *)
EXTENDS EventOrder, Sequences

VARIABLES
    stage,
    before,    \* whether a session has ended in a normal close
    stopping,  \* whether stop() was called
    verdict,   \* the user's answer while "asked": "none", "yes" or "no"
    said       \* last event on the queue

vars == <<stage, before, stopping, verdict, said>>

Init ==
    /\ stage = "idle" /\ before = FALSE /\ stopping = FALSE
    /\ verdict = "none" /\ said = "none"

Go == \E r \in After(stage, before, stopping, verdict) :
    /\ stage' = r.stage
    /\ before' = r.before
    /\ said' = IF r.says = <<>> THEN said ELSE r.says[Len(r.says)]
    /\ verdict' = "none"
    /\ UNCHANGED stopping

\* A frame from the server, or an error about a message that was not sent.
Chat ==
    /\ stage # "stopped"
    /\ said' = "Frame"
    /\ UNCHANGED <<stage, before, stopping, verdict>>

Stop ==
    /\ stopping' = TRUE
    /\ UNCHANGED <<stage, before, verdict, said>>

Answer ==
    /\ stage = "asked" /\ verdict = "none"
    /\ verdict' \in {"yes", "no"}
    /\ UNCHANGED <<stage, before, stopping, said>>

Next == Go \/ Chat \/ Stop \/ Answer

\* Only an established session, or an open prompt, may last for ever.
Spec == Init /\ [][Next]_vars /\ WF_vars(stage # "live" /\ Go)
=============================================================================

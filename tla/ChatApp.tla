------------------------------ MODULE ChatApp ------------------------------
(* The GUI (src/src/pychat/ui/app.py, ChatApp, with the connect dialog):    *)
(* the pump that drains a client's queue on the Tk thread, the certificate  *)
(* prompt that runs an event loop of its own inside it, and the user.       *)
(*                                                                         *)
(* Tk runs one callback at a time, and a grab may be refused, so the user   *)
(* reaches the connect dialog or the window under an open prompt.  Frames   *)
(* and everything only drawn are left out.                                  *)
EXTENDS ClientThreads

CONSTANT
    Batch   \* events one turn of the pump handles at most

ASSUME AppAssumption == Batch \in Nat \ {0}

VARIABLES
    connected,   \* self._connected
    dialog,      \* the connect dialog: "form", "busy" or "gone"
    button,      \* whether the reconnect button is there
    tk,          \* "loop", "drain", "prompt" (inside a drain) or "quit"
    draining,    \* the client whose queue the pump took up
    budget,      \* events left to the turn of the pump
    crossed      \* (history) whether an answer to the question of one client
                 \* has been taken for the answer to another's

window  == <<connected, dialog, button>>
pump    == <<tk, draining, budget, crossed>>

\* While the form can be filled in there is no client: a second submit never
\* takes the place of one that was not told to stop.
AppTypeOK ==
    /\ connected \in BOOLEAN /\ button \in BOOLEAN
    /\ dialog \in {"form", "busy", "gone"}
    /\ mode = "gui" /\ dialog = "form" => client = None
    /\ tk \in {"loop", "drain", "prompt", "quit"}
    /\ draining \in 0..created /\ budget \in 0..Batch /\ crossed \in BOOLEAN

AppInit ==
    /\ connected = FALSE /\ dialog = "form" /\ button = FALSE
    /\ tk = "loop" /\ draining = None /\ budget = 0 /\ crossed = FALSE

-----------------------------------------------------------------------------
\* Whose queue may still be read.
Read(c) == c \in {client, draining}

\* ConnectDialog.set_busy()
SetBusy(busy) == dialog' = IF busy THEN "busy" ELSE "form"

\* ConnectDialog.show_failure(), if the dialog is still there.
ShowFailure ==
    /\ dialog = "gone" => dialog' = "gone"
    /\ dialog # "gone" => SetBusy(FALSE)

-----------------------------------------------------------------------------
(* The user, served by the main loop or by the loop of an open prompt.      *)

Served == tk \in {"loop", "prompt"}

\* ConnectDialog._submit() and _start_connection().
Submit ==
    /\ Served /\ dialog = "form"
    /\ SetBusy(TRUE)
    /\ Create
    /\ UNCHANGED <<threads, connected, button, pump>>

\* Mutant of Cancel: the client is dropped and not stopped.
CancelUnstopped ==
    /\ Served /\ dialog = "busy"
    /\ SetBusy(FALSE)
    /\ client' = None
    /\ UNCHANGED <<threads, created, connected, button, pump>>

\* ConnectDialog._cancel() of an attempt, and _cancel_connection().
Cancel ==
    /\ Served /\ dialog = "busy"
    /\ SetBusy(FALSE)
    /\ StopClient
    /\ client' = None
    /\ UNCHANGED <<stage, before, verdict, queue, created, connected, button, pump>>

\* _manual_reconnect(): without a client it only says that the password is
\* needed again.
ManualReconnect ==
    /\ Served /\ button
    /\ button' = FALSE
    /\ StopClient
    /\ IF client = None THEN UNCHANGED <<created, client>> ELSE Create
    /\ UNCHANGED <<stage, before, verdict, queue, connected, dialog, pump>>

\* quit_app(), from the idle form or from the window.
Quit ==
    /\ Served /\ dialog # "busy"
    /\ StopClient
    /\ client' = None
    /\ tk' = "quit"
    /\ UNCHANGED <<stage, before, verdict, queue, created, window, draining, budget, crossed>>

-----------------------------------------------------------------------------
(* _drain_events(): at most Batch events of the client there is when the    *)
(* turn starts, and of no other, until the queue is empty.                  *)

DrainBegin ==
    /\ tk = "loop" /\ client # None
    /\ tk' = "drain" /\ draining' = client /\ budget' = Batch
    /\ UNCHANGED <<threads, created, client, window, crossed>>

DrainEnd ==
    /\ tk = "drain"
    /\ budget = 0 \/ queue[draining] = <<>>
    /\ tk' = "loop" /\ draining' = None /\ budget' = 0
    /\ UNCHANGED <<threads, created, client, window, crossed>>

\* Mutant of Lost: the flag stays.
LostKept ==
    /\ UNCHANGED <<connected, stopping, client, dialog, button, tk>>

\* Disconnected: the client retries by itself.
Lost ==
    /\ connected' = FALSE
    /\ UNCHANGED <<stopping, client, dialog, button, tk>>

\* Mutant of Fail: the dialog is left as it is.
FailSilently ==
    /\ connected' = FALSE
    /\ button' = (button \/ dialog = "gone")
    /\ StopClient
    /\ client' = None
    /\ UNCHANGED <<dialog, tk>>

\* Mutant of Fail: the client that failed is kept.
FailKeeping ==
    /\ connected' = FALSE
    /\ ShowFailure
    /\ button' = (button \/ dialog = "gone")
    /\ StopClient
    /\ UNCHANGED <<client, tk>>

\* _fail(): AuthFailed and ConnectionFailed, of whichever client the event is.
Fail ==
    /\ connected' = FALSE
    /\ ShowFailure
    /\ button' = (button \/ dialog = "gone")
    /\ StopClient
    /\ client' = None
    /\ UNCHANGED tk

\* Connected, the first time with _enter_chat().
Enter ==
    /\ connected' = TRUE
    /\ dialog' = "gone"
    /\ UNCHANGED <<stopping, client, button, tk>>

\* Mutant of GiveUp: the button is not offered.
GiveUpQuietly == UNCHANGED <<connected, stopping, client, dialog, button, tk>>

\* GaveUp: _show_reconnect_button().
GiveUp ==
    /\ button' = TRUE
    /\ UNCHANGED <<connected, stopping, client, dialog, tk>>

\* _handle_event()
Handle ==
    /\ tk = "drain" /\ budget > 0 /\ queue[draining] # <<>>
    /\ LET event == Head(queue[draining])
       IN  \/ event = "Connected" /\ Enter
           \/ event = "Disconnected" /\ Lost
           \/ event = "GaveUp" /\ GiveUp
           \/ event \in {"AuthFailed", "ConnectionFailed"} /\ Fail
           \/ /\ event = "CertificateUnknown"
              /\ tk' = "prompt"
              /\ UNCHANGED <<stopping, client, window>>
           \/ /\ event \in {"Connecting", "CertificateMismatch", "Reconnecting", "Stopped"}
              /\ UNCHANGED <<stopping, client, window, tk>>
    /\ queue' = [queue EXCEPT ![draining] = Tail(@)]
    /\ budget' = budget - 1
    /\ UNCHANGED <<stage, before, verdict, created, draining, crossed>>

\* The prompt closes and _ask_about_certificate() goes on: the client there is
\* by now gets the verdict, if it has a prompt pending.
Answer ==
    /\ tk = "prompt"
    /\ tk' = "drain"
    /\ \E v \in {"yes", "no"} : AnswerCertificate(v)
    /\ crossed' = (crossed \/ (client # draining /\ verdict' # verdict))
    /\ UNCHANGED <<stage, before, stopping, queue, created, client, window, draining, budget>>

-----------------------------------------------------------------------------
User  == Submit \/ Cancel \/ ManualReconnect \/ Quit \/ Answer
Pump  == DrainBegin \/ Handle \/ DrainEnd

AppNext == mode = "gui" /\ UNCHANGED mode /\ (User \/ Pump)

-----------------------------------------------------------------------------
\* The window accepts messages only while its client has a session, or the
\* event that will say otherwise is already on its way: _connected is never
\* about a client that was replaced, or whose session ended without a word,
\* unless an answer went to a question nobody was shown: then the prompt comes
\* late, and a client cancelled under it may still open the chat.
ConnectedMeans ==
    connected /\ tk # "quit" /\ ~crossed =>
        /\ client # None
        /\ \/ stage[client] \in {"live", "doomed"}
           \/ \E i \in DOMAIN queue[client] :
                 queue[client][i] \in {"Disconnected", "ConnectionFailed", "AuthFailed"}

\* Liveness: a client that the window has let go of, by Cancel, Reconnect, a
\* failure or the quit, comes to its end, with a question of it that nobody will
\* answer or a queue that nobody will read; or it is in a session, which a stop()
\* that came while it was connecting does not end.
DroppedEnds ==
    \A c \in Clients :
        mode = "gui" /\ c <= created /\ c # client ~> stage[c] \in {"live", "stopped"}

\* Liveness: a dialog that says "Connecting" comes to an end without the user:
\* the chat opens, the form is back with a message, or there is a question.
BusyEnds == dialog = "busy" ~> dialog # "busy" \/ tk = "prompt"

\* Liveness: when the window's client has ended, the user is offered a way to
\* go on, unless the window is closed or a prompt is open.
WayOut ==
    \A c \in Clients :
        mode = "gui" /\ client = c /\ stage[c] = "stopped"
            ~> client # c \/ button \/ tk = "prompt"
=============================================================================

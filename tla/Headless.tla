------------------------------ MODULE Headless ------------------------------
(* The terminal client (src/src/pychat/client.py, run_headless): a thread   *)
(* that prints events and asks about certificates, and the main thread,     *)
(* which reads lines.  Both read the same standard input, one at a time:    *)
(* whoever is inside input() when a line comes gets it.                     *)
(*                                                                         *)
(* At the end of a pipe every input() raises EOFError; on a terminal Ctrl-D *)
(* raises it once.                                                         *)
EXTENDS ClientThreads

VARIABLES
    input,     \* main thread: "start", "loop", "input", "leaving" or "exited"
    printer,   \* print thread: "idle", "polling", "prompt", "answering", "done" or "dead"
    reader,    \* who is inside input(): "nobody", "input" or "prompt"
    stop,      \* the Event `stop`
    trusting,  \* --accept-new-cert
    piped,     \* whether standard input is a pipe
    ended      \* whether the pipe has run dry

terminal == <<input, printer, reader, stop, trusting, piped, ended>>

TermTypeOK ==
    /\ input \in {"start", "loop", "input", "leaving", "exited"}
    /\ printer \in {"idle", "polling", "prompt", "answering", "done", "dead"}
    /\ reader \in {"nobody", "input", "prompt"}
    /\ reader = "input" => input = "input"
    /\ reader = "prompt" => printer = "prompt"
    /\ stop \in BOOLEAN /\ trusting \in BOOLEAN /\ piped \in BOOLEAN /\ ended \in BOOLEAN

TermInit ==
    /\ input = "start" /\ printer = "idle" /\ reader = "nobody"
    /\ stop = FALSE /\ ended = FALSE
    /\ trusting \in BOOLEAN /\ piped \in BOOLEAN
    /\ mode = "gui" => ~trusting /\ ~piped

-----------------------------------------------------------------------------
\* The password and the name are there: the client and the printer start.
Launch ==
    /\ input = "start"
    /\ Create
    /\ input' = "loop" /\ printer' = "polling"
    /\ UNCHANGED <<threads, reader, stop, ended>>

\* No password, or a name that cannot be normalised.
Decline ==
    /\ input = "start"
    /\ input' = "exited"
    /\ UNCHANGED <<clients, printer, reader, stop, ended>>

-----------------------------------------------------------------------------
(* The print thread.                                                        *)

\* Mutant of Final: a lost connection is taken for the end.
FinalWhenLost == {"AuthFailed", "GaveUp", "Stopped", "ConnectionFailed", "Disconnected"}

\* The events after which there is nothing more to print.
Final == {"AuthFailed", "GaveUp", "Stopped", "ConnectionFailed"}

\* Mutant of Over: the flag is forgotten.
OverQuietly == printer' = "done" /\ UNCHANGED stop

Over == printer' = "done" /\ stop' = TRUE

\* answer_certificate() looks for a pending prompt, and calls its loop next.
Pending == IF stage[client] = "asked" /\ verdict[client] = "none" THEN "answering" ELSE "polling"

\* pump(): the next event.
Show ==
    /\ printer = "polling"
    /\ ~stop
    /\ queue[client] # <<>>
    /\ queue' = [queue EXCEPT ![client] = Tail(@)]
    /\ LET event == Head(queue[client])
       IN  \/ /\ event = "CertificateUnknown"
              /\ printer' = IF trusting THEN Pending ELSE "prompt"
              /\ UNCHANGED stop
           \/ event \in Final /\ Over
           \/ event \notin Final \cup {"CertificateUnknown"} /\ UNCHANGED <<printer, stop>>
    /\ UNCHANGED <<stage, before, stopping, verdict, created, client, input, reader, ended>>

\* The call: the loop sets the result, or has come to its end meanwhile, or is
\* closed and call_soon_threadsafe() raises, which nothing in the printer catches.
AnswerPrompt ==
    /\ printer = "answering"
    /\ \/ stage[client] \in {"over", "stopped"} /\ printer' = "dead" /\ UNCHANGED verdict
       \/ /\ stage[client] # "stopped"
          /\ printer' = "polling"
          /\ \E v \in {"yes", "no"} : (trusting => v = "yes") /\ AnswerCertificate(v)
    /\ UNCHANGED <<stage, before, stopping, queue, created, client, input, reader, stop, ended>>

\* The loop sees the flag the main thread set.
ShowEnd ==
    /\ printer = "polling"
    /\ stop
    /\ printer' = "done"
    /\ UNCHANGED <<clients, input, reader, stop, ended>>

-----------------------------------------------------------------------------
(* Standard input.                                                          *)

\* A thread that called input() gets hold of it, the other one waits.
TakeInput ==
    /\ reader = "nobody"
    /\ \/ input = "input" /\ reader' = "input"
       \/ printer = "prompt" /\ reader' = "prompt"
    /\ UNCHANGED <<clients, input, printer, stop, ended>>

\* A line at the prompt, "y" or anything else; the main loop reads on.
PromptLine ==
    /\ reader = "prompt" /\ ~ended
    /\ reader' = "nobody" /\ printer' = Pending
    /\ UNCHANGED <<clients, input, stop, ended>>

\* A message, or a blank line; sent or not, the printer will say.
InputLine ==
    /\ reader = "input" /\ ~ended
    /\ reader' = "nobody" /\ input' = "loop"
    /\ UNCHANGED <<clients, printer, stop, ended>>

\* The pipe runs dry.
RunDry ==
    /\ piped /\ ~ended
    /\ ended' = TRUE
    /\ UNCHANGED <<clients, input, printer, reader, stop>>

\* EOFError, of a pipe that ran dry or of Ctrl-D.  Nothing catches it in the
\* printer: the thread ends without setting the flag.
PromptEof ==
    /\ reader = "prompt" /\ (ended \/ ~piped)
    /\ reader' = "nobody" /\ printer' = "dead"
    /\ UNCHANGED <<clients, input, stop, ended>>

\* Mutant of InputEof: EOFError is taken for an empty line.
InputEofBlank ==
    /\ reader = "input" /\ (ended \/ ~piped)
    /\ reader' = "nobody" /\ input' = "loop"
    /\ UNCHANGED <<clients, printer, stop, ended>>

InputEof ==
    /\ reader = "input" /\ (ended \/ ~piped)
    /\ reader' = "nobody" /\ input' = "leaving"
    /\ UNCHANGED <<clients, printer, stop, ended>>

-----------------------------------------------------------------------------
(* The main thread.                                                         *)

\* while not stop.is_set(): input()
InputLoop ==
    /\ input = "loop"
    /\ input' = IF stop THEN "leaving" ELSE "input"
    /\ UNCHANGED <<clients, printer, reader, stop, ended>>

\* /quit, or Ctrl-C.
Leave ==
    /\ input = "loop" \/ reader = "input"
    /\ input' = "leaving"
    /\ reader' = IF reader = "input" THEN "nobody" ELSE reader
    /\ UNCHANGED <<clients, printer, stop, ended>>

\* The finally: the flag for the printer, the client told to stop and waited
\* for, five seconds at most.  The other threads are daemons.
Goodbye ==
    /\ input = "leaving"
    /\ IF stop /\ stopping[client]
       THEN input' = "exited" /\ UNCHANGED <<stop, stopping>>
       ELSE stop' = TRUE /\ StopClient /\ UNCHANGED input
    /\ UNCHANGED <<stage, before, verdict, queue, created, client, printer, reader, ended>>

-----------------------------------------------------------------------------
Printing   == Show \/ ShowEnd \/ AnswerPrompt
Eof        == PromptEof \/ InputEof
Lines      == PromptLine \/ InputLine \/ RunDry
MainThread == Launch \/ InputLoop \/ Goodbye

TermNext ==
    /\ mode = "headless"
    /\ input # "exited"
    /\ UNCHANGED <<mode, trusting, piped>>
    /\ Printing \/ TakeInput \/ Eof \/ Lines \/ MainThread \/ Decline \/ Leave

-----------------------------------------------------------------------------
\* A script that pipes its messages in ends when they do: whatever the client
\* is at, a prompt included, the end of the pipe ends the process.
EofEnds == mode = "headless" /\ ended ~> input = "exited"

\* The terminal is told when its client has ended, whatever killed the printer.
EndNoticed == mode = "headless" /\ stage[1] = "stopped" ~> stop

\* The main loop is not left on account of a client that goes on: what the
\* printer takes for the end is one.
EndMeant ==
    stop /\ input \in {"loop", "input"} => stage[1] \in {"over", "stopped"}
=============================================================================

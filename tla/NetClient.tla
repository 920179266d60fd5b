----------------------------- MODULE NetClient -----------------------------
(* The client's network thread (src/src/pychat/net.py, NetworkClient): the *)
(* connect / pin / authenticate / read cycle with its retries, and the     *)
(* calls other threads make into it through call_soon_threadsafe.          *)
(*                                                                         *)
(* The server and the network are the environment: what recv() yields is   *)
(* chosen freely.  So is the known_hosts file, which this client shares     *)
(* with others and with the user's editor: what it reads there may change   *)
(* between any two steps.  scrypt, sealing and the text of events are       *)
(* abstracted.                                                              *)
EXTENDS Integers, Sequences

CONSTANTS
    Certs,        \* certificate fingerprints the server may present
    NoCert,       \* no pinned fingerprint
    MaxAttempts,  \* MAX_RECONNECT_ATTEMPTS
    MaxPosted     \* callbacks pending on the loop (a bound for TLC)

ASSUME ClientAssumption ==
    /\ NoCert \notin Certs
    /\ MaxAttempts \in Nat \ {0}
    /\ MaxPosted \in Nat

VARIABLES
    at,               \* where _main() and the session below it are
    outcome,          \* how the session that is being torn down ended
    failures,         \* _main's count of consecutive failures
    connectedBefore,  \* _main's connected_before
    stopping,         \* the _stopping event
    ws,               \* whether _ws is set
    sock,             \* "none"; "up"; "shut" once this side closed it
    key,              \* whether _key is derived
    pinned,           \* what load_known_hosts() would give for this server
    known,            \* what this client last read or wrote there
    lost,             \* the entry has been missing after it was there
    cert,             \* fingerprint of the server of this connection
    answer,           \* _cert_answer: "none", "pending", "yes", "no"
    posted,           \* callbacks other threads submitted and the loop has not run
    said,             \* last event on the queue
    shown,            \* ChatApp._connected once the queue is drained
    reached,          \* whether the latest attempt emitted Connected
    early             \* a sealed frame was sent on this connection before auth

loopvars == <<at, outcome, failures, connectedBefore>>
pinvars  == <<pinned, known, lost>>
connvars == <<ws, sock, key, pinvars, cert, early>>
uivars   == <<said, shown, reached>>
vars     == <<at, outcome, failures, connectedBefore, stopping, ws, sock, key, pinned, known,
              lost, cert, answer, posted, said, shown, reached, early>>

Outcomes == {"none", "normal", "pinning", "refused", "error"}
Events   == {"none", "Connecting", "CertificateUnknown", "CertificateMismatch", "Connected",
             "AuthFailed", "ConnectionFailed", "Reconnecting", "Disconnected", "GaveUp",
             "Frame", "Stopped"}

TypeOK ==
    /\ at \in {"top", "connecting", "asking", "hello", "reply", "reading", "closing",
               "sleeping", "ended", "stopped"}
    /\ outcome \in Outcomes
    /\ failures \in 0..MaxAttempts
    /\ connectedBefore \in BOOLEAN
    /\ stopping \in BOOLEAN
    /\ ws \in BOOLEAN
    /\ sock \in {"none", "up", "shut"}
    /\ key \in BOOLEAN
    /\ {pinned, known, cert} \subseteq Certs \cup {NoCert}
    /\ lost \in BOOLEAN
    /\ answer \in {"none", "pending", "yes", "no"}
    /\ posted \in Seq({"close", "send", "yes", "no"})
    /\ said \in Events
    /\ shown \in BOOLEAN
    /\ reached \in BOOLEAN
    /\ early \in BOOLEAN

Init ==
    /\ at = "top"
    /\ outcome = "none"
    /\ failures = 0
    /\ connectedBefore = FALSE
    /\ stopping = FALSE
    /\ ws = FALSE
    /\ sock = "none"
    /\ key = FALSE
    /\ pinned \in Certs \cup {NoCert}
    /\ known = NoCert
    /\ lost = FALSE
    /\ cert = NoCert
    /\ answer = "none"
    /\ posted = <<>>
    /\ said = "none"
    /\ shown = FALSE
    /\ reached = FALSE
    /\ early = FALSE

Say(event) == said' = event

-----------------------------------------------------------------------------
(* _main()                                                                 *)

Attempt ==
    /\ at = "top"
    /\ ~stopping
    /\ at' = "connecting"
    /\ Say("Connecting")
    /\ reached' = FALSE
    /\ UNCHANGED <<outcome, failures, connectedBefore, stopping, connvars, answer, posted, shown>>

\* The loop condition, or the sleep, sees the stop flag.
Leave ==
    /\ at \in {"top", "sleeping"}
    /\ stopping
    /\ at' = "ended"
    /\ UNCHANGED <<outcome, failures, connectedBefore, stopping, connvars, answer, posted, uivars>>

\* What _main() does with the way a session ended.
\* AuthRefused and PinningError end the thread, and so does any other error
\* unless an earlier session ended normally.
Fatal(o) == o \in {"pinning", "refused"} \/ (o = "error" /\ ~connectedBefore)

Abort(o) ==
    /\ Fatal(o)
    /\ at' = "ended"
    /\ outcome' = o
    /\ Say(IF o = "refused" THEN "AuthFailed" ELSE "ConnectionFailed")
    /\ shown' = FALSE
    /\ UNCHANGED <<failures, connectedBefore>>

\* Mutant of CountFailure: nothing is ever counted.
ForgetFailure(o) == failures' = 0

\* A session that returned resets the count; one that raised adds to it.
CountFailure(o) == failures' = IF o = "normal" THEN 0 ELSE failures + 1

\* Mutant of Retry: the event for the UI is forgotten.
RetrySilently(o) ==
    /\ ~Fatal(o)
    /\ outcome' = o
    /\ connectedBefore' = (connectedBefore \/ o = "normal")
    /\ CountFailure(o)
    /\ at' = IF stopping \/ failures' >= MaxAttempts THEN "ended" ELSE "sleeping"
    /\ UNCHANGED <<said, shown>>

\* Mutant of Retry: the limit is tested with > instead of >=.
RetryOnceMore(o) ==
    /\ ~Fatal(o)
    /\ outcome' = o
    /\ connectedBefore' = (connectedBefore \/ o = "normal")
    /\ CountFailure(o)
    /\ shown' = FALSE
    /\ at' = IF stopping \/ failures' > MaxAttempts THEN "ended" ELSE "sleeping"
    /\ Say("Disconnected")

\* Disconnected, then the end, GaveUp or the backoff.  A normal end while
\* stopping leaves without a word, unless the flag was set between the test
\* that would skip Disconnected and the one after it.
Retry(o) ==
    /\ ~Fatal(o)
    /\ outcome' = o
    /\ connectedBefore' = (connectedBefore \/ o = "normal")
    /\ CountFailure(o)
    /\ \/ /\ stopping /\ o = "normal"
          /\ at' = "ended"
          /\ UNCHANGED <<said, shown>>
       \/ /\ stopping
          /\ at' = "ended"
          /\ Say("Disconnected") /\ shown' = FALSE
       \/ /\ ~stopping
          /\ failures' >= MaxAttempts
          /\ at' = "ended"
          /\ Say("GaveUp") /\ shown' = FALSE
       \/ /\ ~stopping
          /\ failures' < MaxAttempts
          /\ at' = "sleeping"
          /\ Say("Reconnecting") /\ shown' = FALSE

SessionOver(o) ==
    /\ Abort(o) \/ Retry(o)
    /\ UNCHANGED <<stopping, answer, posted, reached>>

Wake ==
    /\ at = "sleeping"
    /\ at' = "top"
    /\ UNCHANGED <<outcome, failures, connectedBefore, stopping, connvars, answer, posted, uivars>>

\* _run()'s finally: pending tasks are cancelled, the loop is closed and with
\* it every callback not yet run.
Finish ==
    /\ at = "ended"
    /\ at' = "stopped"
    /\ posted' = <<>>
    /\ Say("Stopped")
    /\ UNCHANGED <<outcome, failures, connectedBefore, stopping, connvars, answer, shown, reached>>

-----------------------------------------------------------------------------
(* _session()                                                              *)

\* connect() fails or times out: there is no socket to tear down.
ConnectFail ==
    /\ at = "connecting"
    /\ SessionOver("error")
    /\ UNCHANGED connvars

\* The session's finally: forget the socket, then await its close.
TearDown(o) ==
    /\ at' = "closing"
    /\ outcome' = o
    /\ ws' = FALSE
    /\ UNCHANGED <<failures, connectedBefore>>

\* Mutant of ConnectOk: a changed certificate is taken for an old friend.
ConnectAnyCert ==
    /\ at = "connecting"
    /\ \E c \in Certs :
        /\ cert' = c
        /\ at' = IF pinned = NoCert THEN "asking" ELSE "hello"
        /\ answer' = IF pinned = NoCert THEN "pending" ELSE answer
    /\ sock' = "up"
    /\ early' = FALSE
    /\ ws' = TRUE
    /\ known' = pinned
    /\ UNCHANGED <<outcome, failures, connectedBefore, stopping, key, pinned, lost, posted, uivars>>

\* connect() succeeds; in the same turn the certificate, which every TLS server
\* presents, is compared with the entry the file has by now: unknown ones are
\* asked about, a changed one is fatal.
ConnectOk ==
    /\ at = "connecting"
    /\ \E c \in Certs :
        /\ cert' = c
        /\ known' = pinned
        /\ sock' = "up"
        /\ early' = FALSE
        /\ \/ /\ pinned = NoCert
              /\ at' = "asking"
              /\ answer' = "pending"
              /\ ws' = TRUE
              /\ Say("CertificateUnknown")
              /\ UNCHANGED <<outcome, failures, connectedBefore>>
           \/ /\ pinned = c
              /\ at' = "hello"
              /\ ws' = TRUE
              /\ UNCHANGED <<outcome, failures, connectedBefore, answer, said>>
           \/ /\ pinned \notin {NoCert, c}
              /\ TearDown("pinning")
              /\ Say("CertificateMismatch")
              /\ UNCHANGED answer
    /\ UNCHANGED <<stopping, key, pinned, lost, posted, shown, reached>>

\* Mutant of CertAccepted: any verdict is taken for consent.
CertAnswered ==
    /\ at = "asking"
    /\ answer \in {"yes", "no"}
    /\ pinned' = cert /\ known' = cert
    /\ answer' = "none"
    /\ at' = "hello"
    /\ UNCHANGED <<outcome, failures, connectedBefore, stopping, ws, sock, key, lost, cert, early,
                   posted, uivars>>

\* _await_certificate_answer() returns the verdict, and the fingerprint is
\* saved, over whatever another client has saved since the question.
CertAccepted ==
    /\ at = "asking"
    /\ answer = "yes"
    /\ pinned' = cert /\ known' = cert
    /\ answer' = "none"
    /\ at' = "hello"
    /\ UNCHANGED <<outcome, failures, connectedBefore, stopping, ws, sock, key, lost, cert, early,
                   posted, uivars>>

\* save_known_host() raises: another client's save took the temporary file.
CertUnsaved ==
    /\ at = "asking"
    /\ answer = "yes"
    /\ answer' = "none"
    /\ TearDown("error")
    /\ UNCHANGED <<stopping, sock, key, pinvars, cert, early, posted, uivars>>

\* Mutant of CertRejected: the future alone is awaited, not the stop flag.
CertUnpolled ==
    /\ at = "asking"
    /\ answer = "no"
    /\ answer' = "none"
    /\ TearDown("pinning")
    /\ UNCHANGED <<stopping, sock, key, pinvars, cert, early, posted, uivars>>

\* The user declines, or the poll sees the stop flag.
CertRejected ==
    /\ at = "asking"
    /\ answer = "no" \/ stopping
    /\ answer' = "none"
    /\ TearDown("pinning")
    /\ UNCHANGED <<stopping, sock, key, pinvars, cert, early, posted, uivars>>

\* server_hello: derive the key once, send the proof.
Hello ==
    /\ at = "hello"
    /\ sock = "up"
    /\ key' = TRUE
    /\ at' = "reply"
    /\ UNCHANGED <<outcome, failures, connectedBefore, stopping, ws, sock, pinvars, cert, early,
                   answer, posted, uivars>>

\* auth_ok, read even from a socket closed since (frames are buffered).  A
\* server that read something else before the proof refuses it.
Welcome ==
    /\ at = "reply"
    /\ ~early
    /\ at' = "reading"
    /\ Say("Connected")
    /\ shown' = TRUE
    /\ reached' = TRUE
    /\ UNCHANGED <<outcome, failures, connectedBefore, stopping, connvars, answer, posted>>

\* auth_fail, instead of the hello (locked out, full) or of auth_ok.
Refused ==
    /\ at \in {"hello", "reply"}
    /\ TearDown("refused")
    /\ UNCHANGED <<stopping, sock, key, pinvars, cert, early, answer, posted, uivars>>

\* The handshake times out, is malformed, or the connection ends under it: the
\* hello may have been read, and the key derived, before the proof fails to go.
HandshakeLost ==
    /\ at \in {"hello", "reply"}
    /\ key' = TRUE \/ UNCHANGED key
    /\ TearDown("error")
    /\ UNCHANGED <<stopping, sock, pinvars, cert, early, answer, posted, uivars>>

Receive ==
    /\ at = "reading"
    /\ Say("Frame")
    /\ UNCHANGED <<loopvars, stopping, connvars, answer, posted, shown, reached>>

\* Three frames that do not decrypt.
Undecryptable ==
    /\ at = "reading"
    /\ TearDown("pinning")
    /\ UNCHANGED <<stopping, sock, key, pinvars, cert, early, answer, posted, uivars>>

\* The iteration over the socket stops after a normal close (1000, 1001) and
\* raises after any other, whoever closed.
ReadEnd ==
    /\ at = "reading"
    /\ \E o \in {"normal", "error"} : TearDown(o)
    /\ UNCHANGED <<stopping, sock, key, pinvars, cert, early, answer, posted, uivars>>

Closed ==
    /\ at = "closing"
    /\ sock' = "none"
    /\ SessionOver(outcome)
    /\ UNCHANGED <<ws, key, pinvars, cert, early>>

-----------------------------------------------------------------------------
(* Calls from other threads: each posts a callback to the loop, unless the  *)
(* loop is closed.                                                         *)

Running == at # "stopped"

Post(callback) ==
    /\ Running
    /\ Len(posted) < MaxPosted
    /\ posted' = Append(posted, callback)
    /\ UNCHANGED <<loopvars, connvars, answer, uivars>>

\* stop(): the flag, then _close_socket on the loop.
Stop ==
    /\ ~stopping
    /\ stopping' = TRUE
    /\ Post("close")

SendMessage == Post("send") /\ UNCHANGED stopping

\* answer_certificate(): only while a prompt is pending.
AnswerCertificate ==
    /\ answer = "pending"
    /\ \E verdict \in {"yes", "no"} : Post(verdict)
    /\ UNCHANGED stopping

\* The loop runs the oldest callback, between two turns of the session, or
\* while the pending tasks are being cancelled.
Callback(kind) ==
    /\ Running
    /\ posted # <<>>
    /\ Head(posted) = kind
    /\ posted' = Tail(posted)

\* _close_socket(): a no-op when no socket is known.
CloseSocket ==
    /\ Callback("close")
    /\ sock' = IF ws THEN "shut" ELSE sock
    /\ UNCHANGED <<loopvars, stopping, ws, key, pinvars, cert, early, answer, uivars>>

\* _send_inner(): an error frame for the UI (not connected, too large, the
\* socket closed), or a sealed frame on the wire.
SendFails ==
    /\ Callback("send")
    /\ Say("Frame")
    /\ UNCHANGED <<loopvars, stopping, connvars, answer, shown, reached>>

SendSealed ==
    /\ Callback("send")
    /\ ws /\ key /\ sock = "up"
    /\ early' = (early \/ at \in {"asking", "hello"})
    /\ UNCHANGED <<loopvars, stopping, ws, sock, key, pinvars, cert, answer, uivars>>

Answered ==
    /\ \E verdict \in {"yes", "no"} :
        /\ Callback(verdict)
        /\ answer' = IF answer = "pending" THEN verdict ELSE answer
    /\ UNCHANGED <<loopvars, stopping, connvars, uivars>>

\* The file as others leave it: a client that pins a server or overlaps with
\* the save of another, the user who removes an entry, a write that cannot be
\* parsed and counts as no entries.
Elsewhere ==
    /\ pinned' \in Certs \cup {NoCert}
    /\ pinned' # pinned
    /\ lost' = (lost \/ pinned' = NoCert)
    /\ UNCHANGED <<loopvars, stopping, ws, sock, key, known, cert, answer, posted, uivars, early>>

Terminated == at = "stopped" /\ UNCHANGED vars

-----------------------------------------------------------------------------
\* Steps the network thread takes by itself, given what the environment does:
\* every wait in them has a timeout or a poll.
Main      == Attempt \/ Leave \/ Wake \/ Finish
Connect   == ConnectFail \/ ConnectOk
Verify    == CertAccepted \/ CertUnsaved \/ CertRejected
Handshake == Hello \/ Welcome \/ Refused \/ HandshakeLost
Reading   == Receive \/ Undecryptable \/ ReadEnd
Posted    == CloseSocket \/ SendFails \/ SendSealed \/ Answered
Others    == Stop \/ SendMessage \/ AnswerCertificate

Next ==
    \/ Main \/ Connect \/ Verify \/ Handshake \/ Reading \/ Closed
    \/ Posted \/ Others \/ Elsewhere \/ Terminated

Spec == Init /\ [][Next]_vars

\* The thread makes progress, callbacks run, and a socket this side closed ends
\* its read loop.  The server may keep a connection open for ever, and the user
\* may never answer.
Fairness ==
    /\ WF_vars(Main) /\ WF_vars(Connect) /\ WF_vars(Verify)
    /\ WF_vars(Handshake) /\ WF_vars(Closed) /\ WF_vars(Posted)
    /\ WF_vars(sock = "shut" /\ ReadEnd)

FairSpec == Spec /\ Fairness

-----------------------------------------------------------------------------
(* What the network layer promises.                                        *)

\* The proof goes only to the server whose fingerprint this client read in the
\* file or put there, on any attempt.  So does a sealed frame, with one
\* exception: a client that has a key, finds its pin gone from the file and
\* asks again, sends what the user posts while the question is open.
PinnedUnlessLost ==
    /\ at \in {"reply", "reading"} => known = cert
    /\ early => known = cert \/ (lost /\ known = NoCert)

\* The UI, once it has drained the queue, believes it is connected only while
\* there is a session to talk through (or a stop is under way).
ShownWhileConnected == shown /\ ~stopping => at \in {"reading", "closing"}

\* This client pins nothing but the fingerprint of the connection that is
\* asking, after the user accepted it, and only where it had read no other.
PinOnlyAsked ==
    [][pinned' # pinned =>
         \/ Elsewhere
         \/ at = "asking" /\ answer = "yes" /\ known = NoCert /\ pinned' = cert]_vars

\* Liveness: stop() ends the thread when its callback finds the socket.
StopWithSocket == (stopping /\ ws /\ \E i \in DOMAIN posted : posted[i] = "close") ~> at = "stopped"

\* Liveness: a client in backoff reconnects, gives up or is refused; it does
\* not retry for ever.
RetryEnds == at = "sleeping" ~> at \in {"reading", "asking", "stopped"}

-----------------------------------------------------------------------------
(* What the UI relies on: the client as EventFlow describes it.             *)

Stage ==
    CASE at \in {"top", "sleeping"} -> "idle"
      [] at = "connecting" -> "connecting"
      [] at = "asking" -> "asked"
      [] at \in {"hello", "reply"} -> "greeting"
      [] at = "reading" -> "live"
      [] at = "closing" -> IF outcome \in {"pinning", "refused"} THEN "doomed"
                           ELSE IF reached THEN "live" ELSE "greeting"
      [] at = "ended" -> "over"
      [] at = "stopped" -> "stopped"

Flow == INSTANCE EventFlow WITH
    stage <- Stage,
    before <- connectedBefore,
    verdict <- IF answer = "pending" THEN "none" ELSE answer

\* The thread implements the order of events, with its liveness: whatever the
\* server and the other threads do, the UI only ever sees what EventFlow allows.
ImplementsFlow == Flow!Spec

-----------------------------------------------------------------------------
(* What the documentation says and the code does not do.                   *)

\* stop()'s docstring: ask the loop to close the connection and finish.
StopFinishes == stopping ~> at = "stopped"

\* _pinning_ssl_context()'s docstring, and the comment in _session(): the server
\* is verified by fingerprint before anything is sent to it.
PinnedBeforeSecrets ==
    at \in {"reply", "reading"} \/ early => known = cert

\* The comments in _main(): a successful session resets the backoff, and only
\* the very first attempt failing is final.  So a session that connected and
\* was then cut off is tried again.
DropRetried ==
    said \in {"ConnectionFailed", "GaveUp"} /\ outcome = "error" => ~reached
=============================================================================

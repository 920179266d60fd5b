--------------------------- MODULE NetClientProofs ---------------------------
(* Proofs about NetClient, for any certificates, any limit of attempts and  *)
(* any number of pending callbacks.                                         *)
EXTENDS NetClient, TLAPS

\* A client that is not over has attempts left.
Attempts == at \notin {"ended", "stopped"} => failures < MaxAttempts

\* What this client knows of the server of a connection at which stage.  A
\* client that has a key had a pin, and can only miss it in the file, and so be
\* asking, if it has been lost there.
ConnectionInv ==
    /\ at \in {"hello", "reply", "reading"} => known = cert /\ cert \in Certs
    /\ at = "asking" => known = NoCert /\ cert \in Certs
    /\ at = "asking" <=> answer # "none"
    /\ key \/ at \in {"hello", "reply"} => pinned # NoCert \/ lost
    /\ key /\ at = "asking" => lost
    /\ ws => at \in {"asking", "hello", "reply", "reading"}
    /\ early => known = cert \/ (lost /\ known = NoCert)

\* When an attempt has emitted Connected, and how a session may end.
ProgressInv ==
    /\ at \in {"connecting", "asking", "hello", "reply"} => ~reached
    /\ at = "reading" => reached
    /\ at = "closing" => outcome # "none" /\ (outcome = "normal" => reached)

-----------------------------------------------------------------------------
(* The type invariant.                                                      *)

\* What a session's end does to the types and to the attempts left.
LEMMA SessionOverTypes ==
    ASSUME TypeOK, failures < MaxAttempts, NEW o \in Outcomes, o # "none", SessionOver(o)
    PROVE  /\ at' \in {"ended", "sleeping"}
           /\ outcome' \in Outcomes /\ failures' \in 0..MaxAttempts
           /\ connectedBefore' \in BOOLEAN /\ shown' \in BOOLEAN /\ said' \in Events
           /\ at' = "sleeping" => failures' < MaxAttempts
           /\ UNCHANGED <<stopping, answer, posted, reached>>
<1> USE ClientAssumption DEF TypeOK, Outcomes, Events, Say
<1>1. CASE Abort(o)
  BY <1>1 DEF Abort, SessionOver
<1>2. CASE Retry(o)
  <2>1. shown' \in BOOLEAN /\ connectedBefore' \in BOOLEAN
    BY <1>2 DEF Retry
  <2> QED
    BY <1>2, <2>1 DEF Retry, CountFailure, SessionOver
<1> QED
  BY <1>1, <1>2 DEF SessionOver

\* Types after a step of the thread between sessions.
LEMMA MainTypes ==
    ASSUME TypeOK, Attempts, ProgressInv, Main \/ Connect \/ Closed
    PROVE  TypeOK' /\ Attempts'
<1> USE ClientAssumption DEF TypeOK, Attempts, Events, Outcomes, loopvars, connvars, pinvars, uivars, Say
<1>1. CASE Attempt
  <2>1. reached' \in BOOLEAN
    BY <1>1 DEF Attempt
  <2> QED
    BY <1>1, <2>1 DEF Attempt
<1>2. CASE Leave
  BY <1>2 DEF Leave
<1>3. CASE Wake
  BY <1>3 DEF Wake
<1>4. CASE Finish
  BY <1>4 DEF Finish
<1>5. CASE ConnectFail
  BY <1>5, SessionOverTypes DEF ConnectFail
<1>6. CASE ConnectOk
  <2>1. early' \in BOOLEAN /\ ws' \in BOOLEAN
    BY <1>6 DEF ConnectOk, TearDown
  <2> QED
    BY <1>6, <2>1 DEF ConnectOk, TearDown
<1>7. CASE Closed
  BY <1>7, SessionOverTypes DEF Closed, ProgressInv
<1> QED
  BY <1>1, <1>2, <1>3, <1>4, <1>5, <1>6, <1>7 DEF Main, Connect

\* Types after a step of a session.
LEMMA SessionTypes ==
    ASSUME TypeOK, Attempts, Verify \/ Handshake \/ Reading
    PROVE  TypeOK' /\ Attempts'
<1> USE DEF TypeOK, Attempts, Events, Outcomes, loopvars, connvars, pinvars, uivars, Say, TearDown
<1>1. ws' \in BOOLEAN /\ key' \in BOOLEAN /\ shown' \in BOOLEAN /\ reached' \in BOOLEAN
  BY DEF Verify, CertAccepted, CertUnsaved, CertRejected, Handshake, Hello, Welcome, Refused, HandshakeLost,
         Reading, Receive, Undecryptable, ReadEnd
<1>2. CASE Verify
  BY <1>1, <1>2 DEF Verify, CertAccepted, CertUnsaved, CertRejected
<1>3. CASE Handshake
  <2>1. CASE Hello
    BY <1>1, <2>1 DEF Hello
  <2>2. CASE Welcome
    BY <1>1, <2>2 DEF Welcome
  <2>3. CASE Refused \/ HandshakeLost
    BY <1>1, <2>3 DEF Refused, HandshakeLost
  <2> QED
    BY <1>3, <2>1, <2>2, <2>3 DEF Handshake
<1>4. CASE Reading
  BY <1>1, <1>4 DEF Reading, Receive, Undecryptable, ReadEnd
<1> QED
  BY <1>2, <1>3, <1>4

\* Types after a callback, a call of another thread, or a change of the file.
LEMMA CallTypes ==
    ASSUME TypeOK, Attempts, Posted \/ Others \/ Elsewhere
    PROVE  TypeOK' /\ Attempts'
<1> USE DEF TypeOK, Attempts, Events, loopvars, connvars, pinvars, uivars, Say
<1>1. CASE Posted
  <2>1. posted # <<>> /\ posted' = Tail(posted)
    BY <1>1 DEF Posted, CloseSocket, SendFails, SendSealed, Answered, Callback
  <2>2. posted' \in Seq({"close", "send", "yes", "no"})
    BY <2>1
  <2> QED
    BY <1>1, <2>2 DEF Posted, CloseSocket, SendFails, SendSealed, Answered, Callback
<1>2. CASE Others
  <2>1. posted' \in Seq({"close", "send", "yes", "no"})
    BY <1>2 DEF Others, Stop, SendMessage, AnswerCertificate, Post
  <2>2. stopping' \in BOOLEAN
    BY <1>2 DEF Others, Stop, SendMessage, AnswerCertificate, Post
  <2> QED
    BY <1>2, <2>1, <2>2 DEF Others, Stop, SendMessage, AnswerCertificate, Post
<1>3. CASE Elsewhere
  BY <1>3 DEF Elsewhere
<1> QED
  BY <1>1, <1>2, <1>3

-----------------------------------------------------------------------------
(* What is known, asked and sent on a connection.                           *)

\* The end of a session leaves no stage of a connection behind.
LEMMA SessionOverEnds ==
    ASSUME NEW o, SessionOver(o)
    PROVE  at' \in {"ended", "sleeping"} /\ UNCHANGED <<stopping, answer, posted, reached>>
<1> QED
  BY DEF SessionOver, Abort, Retry

\* A step of the thread keeps to what it knows of the server.
LEMMA ConnectionLoop ==
    ASSUME TypeOK, ConnectionInv, Main \/ Connect \/ Verify \/ Closed
    PROVE  ConnectionInv'
<1> USE ClientAssumption DEF TypeOK, ConnectionInv, connvars, pinvars, uivars
<1>1. CASE Main
  BY <1>1 DEF Main, Attempt, Leave, Wake, Finish
<1>2. CASE ConnectFail
  BY <1>2, SessionOverEnds DEF ConnectFail
<1>3. CASE ConnectOk
  BY <1>3 DEF ConnectOk, TearDown
<1>4. CASE CertAccepted
  BY <1>4 DEF CertAccepted
<1>5. CASE CertUnsaved \/ CertRejected
  BY <1>5 DEF CertUnsaved, CertRejected, TearDown
<1>6. CASE Closed
  BY <1>6, SessionOverEnds DEF Closed
<1> QED
  BY <1>1, <1>2, <1>3, <1>4, <1>5, <1>6 DEF Connect, Verify

\* So does a step of the handshake or of the reading, and so do callbacks and
\* whatever happens to the file: a sealed frame goes out before the proof to a
\* server this client knows, or in a question that a lost pin has raised.
LEMMA ConnectionTalk ==
    ASSUME TypeOK, ConnectionInv, Handshake \/ Reading \/ Posted \/ Others \/ Elsewhere
    PROVE  ConnectionInv'
<1> USE DEF TypeOK, ConnectionInv, loopvars, connvars, pinvars, uivars, TearDown
<1>1. CASE Handshake
  BY <1>1 DEF Handshake, Hello, Welcome, Refused, HandshakeLost
<1>2. CASE Reading
  BY <1>2 DEF Reading, Receive, Undecryptable, ReadEnd
<1>3. CASE CloseSocket \/ SendFails
  BY <1>3 DEF CloseSocket, SendFails
<1>4. CASE SendSealed
  BY <1>4 DEF SendSealed
<1>5. CASE Answered
  BY <1>5 DEF Answered
<1>6. CASE Others
  BY <1>6 DEF Others, Stop, SendMessage, AnswerCertificate, Post
<1>7. CASE Elsewhere
  BY <1>7 DEF Elsewhere
<1> QED
  BY <1>1, <1>2, <1>3, <1>4, <1>5, <1>6, <1>7 DEF Posted

\* Whether the attempt got through, and why a session ends, at each stage.
LEMMA ProgressStep ==
    ASSUME TypeOK, ProgressInv, [Next]_vars
    PROVE  ProgressInv'
<1> USE DEF TypeOK, ProgressInv, loopvars, connvars, pinvars, uivars, TearDown
<1>1. CASE Main
  BY <1>1 DEF Main, Attempt, Leave, Wake, Finish
<1>2. CASE Connect \/ Closed
  BY <1>2, SessionOverEnds DEF Connect, ConnectFail, ConnectOk, Closed
<1>3. CASE Verify
  BY <1>3 DEF Verify, CertAccepted, CertUnsaved, CertRejected
<1>4. CASE Handshake
  BY <1>4 DEF Handshake, Hello, Welcome, Refused, HandshakeLost
<1>5. CASE Reading
  BY <1>5 DEF Reading, Receive, Undecryptable, ReadEnd
<1>6. CASE Posted \/ Others \/ Elsewhere
  BY <1>6 DEF Posted, CloseSocket, SendFails, SendSealed, Answered,
              Others, Stop, SendMessage, AnswerCertificate, Post, Elsewhere
<1>7. CASE UNCHANGED vars
  BY <1>7 DEF vars
<1> QED
  BY <1>1, <1>2, <1>3, <1>4, <1>5, <1>6, <1>7 DEF Next, Terminated

-----------------------------------------------------------------------------
(* The theorems.                                                            *)

\* The conjunction is inductive.
Inv == TypeOK /\ Attempts /\ ConnectionInv /\ ProgressInv

\* It holds when the thread starts.
LEMMA InvInit == Init => Inv
<1>1. Init => TypeOK
  <2>1. Init => /\ connectedBefore \in BOOLEAN /\ stopping \in BOOLEAN /\ ws \in BOOLEAN
                /\ key \in BOOLEAN /\ shown \in BOOLEAN /\ reached \in BOOLEAN
                /\ early \in BOOLEAN /\ lost \in BOOLEAN
    BY DEF Init
  <2> QED
    BY <2>1, ClientAssumption DEF Init, TypeOK, Outcomes, Events
<1>2. Init => Attempts /\ ConnectionInv /\ ProgressInv
  BY ClientAssumption DEF Init, Attempts, ConnectionInv, ProgressInv
<1> QED
  BY <1>1, <1>2 DEF Inv

\* Every step of the thread, and every call from another, keeps it.
LEMMA InvStep == Inv /\ [Next]_vars => Inv'
<1> SUFFICES ASSUME Inv, [Next]_vars PROVE Inv'
  OBVIOUS
<1>1. ProgressInv'
  BY ProgressStep DEF Inv
<1>2. CASE Main \/ Connect \/ Closed
  BY <1>1, <1>2, MainTypes, ConnectionLoop DEF Inv
<1>3. CASE Verify
  BY <1>1, <1>3, SessionTypes, ConnectionLoop DEF Inv
<1>4. CASE Handshake \/ Reading
  BY <1>1, <1>4, SessionTypes, ConnectionTalk DEF Inv
<1>5. CASE Posted \/ Others \/ Elsewhere
  BY <1>1, <1>5, CallTypes, ConnectionTalk DEF Inv
<1>6. CASE UNCHANGED vars
  BY <1>6 DEF Inv, vars, TypeOK, Attempts, ConnectionInv, ProgressInv
<1> QED
  BY <1>2, <1>3, <1>4, <1>5, <1>6 DEF Next, Terminated

\* Every state of the thread satisfies the inductive invariant.
LEMMA Invariant == Spec => []Inv
  BY InvInit, InvStep, PTL DEF Spec

\* Between two attempts there is a key only if a session worked, so a message
\* can overtake the proof only on the connection of a reconnect.
KeyKept ==
    /\ key /\ at \in {"top", "connecting", "asking", "hello", "sleeping"} => connectedBefore
    /\ early => connectedBefore

\* What a session that is over leaves: a retry of one that failed is only for a
\* client that was connected before.
LEMMA RetryKept ==
    ASSUME TypeOK, NEW o \in Outcomes, o # "none", SessionOver(o)
    PROVE  /\ at' \in {"ended", "sleeping"}
           /\ connectedBefore => connectedBefore'
           /\ at' = "sleeping" => connectedBefore'
<1>1. CASE Abort(o)
  BY <1>1 DEF Abort
<1>2. CASE Retry(o)
  <2>1. connectedBefore' = (connectedBefore \/ o = "normal")
    BY <1>2 DEF Retry
  <2> QED
    BY <1>2, <2>1 DEF Retry, Fatal, Outcomes
<1> QED
  BY <1>1, <1>2 DEF SessionOver

\* No step makes a key outlive an attempt that was not a session.
LEMMA KeyStep == Inv /\ KeyKept /\ [Next]_vars => KeyKept'
<1> SUFFICES ASSUME TypeOK, ProgressInv, KeyKept, [Next]_vars PROVE KeyKept'
  BY DEF Inv
<1> USE DEF TypeOK, KeyKept, loopvars, connvars, pinvars, uivars, TearDown
<1>1. CASE Main
  BY <1>1 DEF Main, Attempt, Leave, Wake, Finish
<1>2. CASE ConnectFail \/ Closed
  BY <1>2, RetryKept DEF ConnectFail, Closed, ProgressInv, Outcomes
<1>3. CASE ConnectOk
  BY <1>3 DEF ConnectOk
<1>4. CASE Verify
  BY <1>4 DEF Verify, CertAccepted, CertUnsaved, CertRejected
<1>5. CASE Handshake
  BY <1>5 DEF Handshake, Hello, Welcome, Refused, HandshakeLost
<1>6. CASE Reading
  BY <1>6 DEF Reading, Receive, Undecryptable, ReadEnd
<1>7. CASE Posted
  BY <1>7 DEF Posted, CloseSocket, SendFails, SendSealed, Answered
<1>8. CASE Others \/ Elsewhere
  BY <1>8 DEF Others, Stop, SendMessage, AnswerCertificate, Post, Elsewhere
<1>9. CASE UNCHANGED vars
  BY <1>9 DEF vars
<1> QED
  BY <1>1, <1>2, <1>3, <1>4, <1>5, <1>6, <1>7, <1>8, <1>9 DEF Next, Connect, Terminated

\* Every variable keeps its type, and the count of failures its limit.
THEOREM TypeCorrect == Spec => []TypeOK
<1>1. Inv => TypeOK
  BY DEF Inv
<1> QED
  BY <1>1, Invariant, PTL

\* Whatever happens to the known_hosts file, the proof goes only to the server
\* this client knows, and so does a sealed frame unless its pin has been lost.
THEOREM SecretsPinned == Spec => []PinnedUnlessLost
<1>1. Inv => PinnedUnlessLost
  BY DEF Inv, ConnectionInv, PinnedUnlessLost
<1> QED
  BY <1>1, Invariant, PTL

\* This client pins nothing but the fingerprint of the connection that asks, once
\* the user accepted it, and only where it had read no other.
THEOREM OnlyAskedPinned == Spec => PinOnlyAsked
<1>1. Inv /\ [Next]_vars =>
        [pinned' # pinned =>
           \/ Elsewhere
           \/ at = "asking" /\ answer = "yes" /\ known = NoCert /\ pinned' = cert]_vars
  <2> SUFFICES ASSUME Inv, [Next]_vars, pinned' # pinned, ~Elsewhere
               PROVE  at = "asking" /\ answer = "yes" /\ known = NoCert /\ pinned' = cert
    OBVIOUS
  <2>1. CertAccepted
    BY DEF Next, Main, Attempt, Leave, Wake, Finish, Connect, ConnectFail, ConnectOk, Verify,
           CertUnsaved, CertRejected, Handshake, Hello, Welcome, Refused, HandshakeLost, Reading,
           Receive, Undecryptable, ReadEnd, Closed, Posted, CloseSocket, SendFails, SendSealed,
           Answered, Others, Stop, SendMessage, AnswerCertificate, Post, Terminated, connvars,
           pinvars, vars
  <2> QED
    BY <2>1 DEF CertAccepted, Inv, ConnectionInv
<1> QED
  BY <1>1, Invariant, PTL DEF Spec, PinOnlyAsked

\* The belief of the front end survives every step, because each that ends a
\* session, but for a stop, puts the event that corrects it on the queue.
LEMMA ShownStep == TypeOK /\ ShownWhileConnected /\ [Next]_vars => ShownWhileConnected'
<1> SUFFICES ASSUME TypeOK, ShownWhileConnected, [Next]_vars PROVE ShownWhileConnected'
  OBVIOUS
<1> USE DEF TypeOK, ShownWhileConnected, loopvars, uivars, TearDown
<1>1. CASE Main
  BY <1>1 DEF Main, Attempt, Leave, Wake, Finish
<1>2. CASE ConnectFail
  BY <1>2 DEF ConnectFail, SessionOver, Abort, Retry
<1>3. CASE ConnectOk \/ Verify
  BY <1>3 DEF ConnectOk, Verify, CertAccepted, CertUnsaved, CertRejected
<1>4. CASE Handshake
  BY <1>4 DEF Handshake, Hello, Welcome, Refused, HandshakeLost
<1>5. CASE Reading
  BY <1>5 DEF Reading, Receive, Undecryptable, ReadEnd
<1>6. CASE Closed
  BY <1>6 DEF Closed, SessionOver, Abort, Retry
<1>7. CASE Posted \/ Others \/ Elsewhere
  BY <1>7 DEF Posted, CloseSocket, SendFails, SendSealed, Answered,
              Others, Stop, SendMessage, AnswerCertificate, Post, Elsewhere
<1>8. CASE UNCHANGED vars
  BY <1>8 DEF vars
<1> QED
  BY <1>1, <1>2, <1>3, <1>4, <1>5, <1>6, <1>7, <1>8 DEF Next, Connect, Terminated

\* The UI believes it is connected only while there is a session, or a stop.
THEOREM ShownConnected == Spec => []ShownWhileConnected
<1>1. Init => ShownWhileConnected
  BY DEF Init, ShownWhileConnected
<1> QED
  BY <1>1, ShownStep, TypeCorrect, PTL DEF Spec

-----------------------------------------------------------------------------
(* The refinement of EventFlow.                                             *)

\* The answer as EventFlow sees it.
Verdict == IF answer = "pending" THEN "none" ELSE answer

\* The next stage, with what is said on the way, is one that EventFlow allows.
Allowed(st, b, says) ==
    /\ Flow!Then(st, b, says) \in Flow!After(Stage, connectedBefore, stopping, Verdict)
    /\ Stage' = st
    /\ connectedBefore' = b
    /\ Verdict' = "none"
    /\ UNCHANGED stopping

\* A step to such a stage is a step of EventFlow: in silence,
LEMMA Silent == ASSUME NEW st, NEW b, Allowed(st, b, <<>>), UNCHANGED said PROVE Flow!Go
<1> QED
  BY DEF Allowed, Verdict, Flow!Go, Flow!Then

\* or with an event,
LEMMA Says == ASSUME NEW st, NEW b, NEW e, Allowed(st, b, <<e>>), said' = e PROVE Flow!Go
<1> QED
  BY DEF Allowed, Verdict, Flow!Go, Flow!Then

\* or with two, of which the second is the last said.
LEMMA SaysTwo ==
    ASSUME NEW st, NEW b, NEW d, NEW e, Allowed(st, b, <<d, e>>), said' = e PROVE Flow!Go
<1> QED
  BY DEF Allowed, Verdict, Flow!Go, Flow!Then

\* Between sessions: an attempt, or the end once stop() was called.
LEMMA FromIdle ==
    ASSUME NEW b, NEW s, NEW v
    PROVE  /\ ~s => Flow!Then("connecting", b, <<"Connecting">>) \in Flow!After("idle", b, s, v)
           /\ s => Flow!Then("over", b, <<>>) \in Flow!After("idle", b, s, v)
<1> QED
  BY DEF Flow!After

\* While connecting: the three verdicts on a certificate, or a failure.
LEMMA FromConnecting ==
    ASSUME NEW b, NEW s, NEW v
    PROVE  /\ Flow!Then("asked", b, <<"CertificateUnknown">>)
                \in Flow!After("connecting", b, s, v)
           /\ Flow!Then("doomed", b, <<"CertificateMismatch">>)
                \in Flow!After("connecting", b, s, v)
           /\ Flow!Then("greeting", b, <<>>) \in Flow!After("connecting", b, s, v)
           /\ Flow!Broken(b, s) \subseteq Flow!After("connecting", b, s, v)
<1> QED
  BY DEF Flow!After

\* While the prompt is open: what the user, or stop(), decides.
LEMMA FromAsked ==
    ASSUME NEW b, NEW s, NEW v
    PROVE  /\ v = "yes" => Flow!Then("greeting", b, <<>>) \in Flow!After("asked", b, s, v)
           /\ s = TRUE \/ v = "no" =>
                Flow!Then("doomed", b, <<>>) \in Flow!After("asked", b, s, v)
<1> QED
  BY DEF Flow!After

\* During the handshake: the welcome, a refusal, or a failure.
LEMMA FromGreeting ==
    ASSUME NEW b, NEW s, NEW v
    PROVE  /\ Flow!Then("live", b, <<"Connected">>) \in Flow!After("greeting", b, s, v)
           /\ Flow!Then("doomed", b, <<>>) \in Flow!After("greeting", b, s, v)
           /\ Flow!Broken(b, s) \subseteq Flow!After("greeting", b, s, v)
<1> QED
  BY DEF Flow!After

\* In a session: too many bad frames, a normal end, or a failure.
LEMMA FromLive ==
    ASSUME NEW b, NEW s, NEW v
    PROVE  /\ Flow!Then("doomed", b, <<>>) \in Flow!After("live", b, s, v)
           /\ Flow!Ended(s) \subseteq Flow!After("live", b, s, v)
           /\ Flow!Broken(b, s) \subseteq Flow!After("live", b, s, v)
<1> QED
  BY DEF Flow!After

\* After a fatal end: the event that says which.
LEMMA FromDoomed ==
    ASSUME NEW b, NEW s, NEW v
    PROVE  /\ Flow!Then("over", b, <<"ConnectionFailed">>) \in Flow!After("doomed", b, s, v)
           /\ Flow!Then("over", b, <<"AuthFailed">>) \in Flow!After("doomed", b, s, v)
<1> QED
  BY DEF Flow!After

\* At the end: Stopped.
LEMMA FromOver ==
    ASSUME NEW b, NEW s, NEW v
    PROVE  Flow!Then("stopped", b, <<"Stopped">>) \in Flow!After("over", b, s, v)
<1> QED
  BY DEF Flow!After

\* A failure: final before the first session that ended well, else one more try.
LEMMA InBroken ==
    ASSUME NEW b, NEW s
    PROVE  /\ ~b => Flow!Then("over", b, <<"ConnectionFailed">>) \in Flow!Broken(b, s)
           /\ b /\ s => Flow!Then("over", b, <<"Disconnected">>) \in Flow!Broken(b, s)
           /\ b /\ ~s => Flow!Then("over", b, <<"Disconnected", "GaveUp">>) \in Flow!Broken(b, s)
           /\ b /\ ~s =>
                Flow!Then("idle", b, <<"Disconnected", "Reconnecting">>) \in Flow!Broken(b, s)
<1> QED
  BY DEF Flow!Broken

\* A normal end.
LEMMA InEnded ==
    ASSUME NEW s
    PROVE  /\ s => Flow!Then("over", TRUE, <<>>) \in Flow!Ended(s)
           /\ s => Flow!Then("over", TRUE, <<"Disconnected">>) \in Flow!Ended(s)
           /\ ~s => Flow!Then("idle", TRUE, <<"Disconnected", "Reconnecting">>) \in Flow!Ended(s)
<1> QED
  BY DEF Flow!Ended

\* The stages of EventFlow, before and after a step.
LEMMA StageIs ==
    ASSUME TypeOK, TypeOK'
    PROVE  /\ at \in {"top", "sleeping"} => Stage = "idle"
           /\ at' \in {"top", "sleeping"} => Stage' = "idle"
           /\ at = "connecting" => Stage = "connecting"
           /\ at' = "connecting" => Stage' = "connecting"
           /\ at = "asking" => Stage = "asked"
           /\ at' = "asking" => Stage' = "asked"
           /\ at \in {"hello", "reply"} => Stage = "greeting"
           /\ at' \in {"hello", "reply"} => Stage' = "greeting"
           /\ at = "reading" => Stage = "live"
           /\ at' = "reading" => Stage' = "live"
           /\ at = "closing" /\ outcome \in {"pinning", "refused"} => Stage = "doomed"
           /\ at' = "closing" /\ outcome' \in {"pinning", "refused"} => Stage' = "doomed"
           /\ at = "closing" /\ outcome \notin {"pinning", "refused"} =>
                Stage = IF reached THEN "live" ELSE "greeting"
           /\ at' = "closing" /\ outcome' \notin {"pinning", "refused"} =>
                Stage' = IF reached' THEN "live" ELSE "greeting"
           /\ at = "ended" => Stage = "over"
           /\ at' = "ended" => Stage' = "over"
           /\ at' = "stopped" => Stage' = "stopped"
<1> QED
  BY DEF TypeOK, Stage

\* The answer as EventFlow sees it, unless a prompt is open.
LEMMA VerdictIs ==
    ASSUME Inv, Inv'
    PROVE  /\ at # "asking" => Verdict = "none"
           /\ at' # "asking" => Verdict' = "none"
<1> QED
  BY DEF Inv, ConnectionInv, Verdict

\* Each step of the thread between sessions is one EventFlow allows, or none.
LEMMA MainFlow == ASSUME Inv, Inv', Main PROVE Flow!Next \/ UNCHANGED Flow!vars
<1> USE StageIs, VerdictIs DEF Inv, connvars, pinvars, uivars, Say
<1>1. CASE Attempt
  <2>1. Stage = "idle" /\ Stage' = "connecting" /\ Verdict' = "none"
    BY <1>1 DEF Attempt
  <2>2. Allowed("connecting", connectedBefore, <<"Connecting">>)
    BY <1>1, <2>1, FromIdle DEF Attempt, Allowed
  <2> QED
    BY <1>1, <2>2, Says DEF Attempt, Flow!Next
<1>2. CASE Leave
  <2>1. Stage = "idle" /\ Stage' = "over" /\ Verdict' = "none"
    BY <1>2 DEF Leave
  <2>2. Allowed("over", connectedBefore, <<>>)
    BY <1>2, <2>1, FromIdle DEF Leave, Allowed
  <2> QED
    BY <1>2, <2>2, Silent DEF Leave, Flow!Next
<1>3. CASE Wake
  <2>1. UNCHANGED Stage
    BY <1>3 DEF Wake
  <2> QED
    BY <1>3, <2>1 DEF Wake, Flow!vars
<1>4. CASE Finish
  <2>1. Stage = "over" /\ Stage' = "stopped" /\ Verdict' = "none"
    BY <1>4 DEF Finish
  <2>2. Allowed("stopped", connectedBefore, <<"Stopped">>)
    BY <1>4, <2>1, FromOver DEF Finish, Allowed
  <2> QED
    BY <1>4, <2>2, Says DEF Finish, Flow!Next
<1> QED
  BY <1>1, <1>2, <1>3, <1>4 DEF Main

\* A session that ends the way its stage allows is a step of EventFlow.
LEMMA OverFlow ==
    ASSUME Inv, Inv', at \in {"connecting", "closing"}, NEW o \in Outcomes, SessionOver(o),
           at = "connecting" => o = "error",
           at = "closing" => o = outcome
    PROVE  Flow!Next
<1>1. /\ Verdict' = "none" /\ UNCHANGED stopping
      /\ connectedBefore \in BOOLEAN /\ stopping \in BOOLEAN
  BY SessionOverEnds, VerdictIs DEF Inv, TypeOK
<1>2. o = "error" => Flow!Broken(connectedBefore, stopping)
                       \subseteq Flow!After(Stage, connectedBefore, stopping, Verdict)
  BY StageIs, FromConnecting, FromGreeting, FromLive DEF Inv
<1>3. CASE Abort(o)
  <2>1. Stage' = "over" /\ UNCHANGED connectedBefore
    BY <1>3, StageIs DEF Abort, Inv
  <2>2. CASE o \in {"pinning", "refused"}
    <3>1. Stage = "doomed"
      BY <2>2, StageIs DEF Inv
    <3>2. CASE o = "refused"
      <4>1. Allowed("over", connectedBefore, <<"AuthFailed">>)
        BY <1>1, <2>1, <3>1, FromDoomed DEF Allowed
      <4> QED
        BY <1>3, <3>2, <4>1, Says DEF Abort, Say, Flow!Next
    <3>3. CASE o = "pinning"
      <4>1. Allowed("over", connectedBefore, <<"ConnectionFailed">>)
        BY <1>1, <2>1, <3>1, FromDoomed DEF Allowed
      <4> QED
        BY <1>3, <3>3, <4>1, Says DEF Abort, Say, Flow!Next
    <3> QED
      BY <2>2, <3>2, <3>3
  <2>3. CASE o = "error"
    <3>1. ~connectedBefore
      BY <1>3, <2>3 DEF Abort, Fatal
    <3>2. Allowed("over", connectedBefore, <<"ConnectionFailed">>)
      BY <1>1, <1>2, <2>1, <2>3, <3>1, InBroken DEF Allowed
    <3> QED
      BY <1>3, <2>3, <3>2, Says DEF Abort, Say, Flow!Next
  <2> QED
    BY <1>3, <2>2, <2>3 DEF Abort, Fatal
<1>4. CASE Retry(o) /\ o = "error"
  <2>1. connectedBefore /\ UNCHANGED connectedBefore
    BY <1>1, <1>4 DEF Retry, Fatal
  <2>2. CASE stopping
    <3>1. Stage' = "over" /\ said' = "Disconnected"
      BY <1>4, <2>2, StageIs DEF Retry, Inv, Say
    <3>2. Allowed("over", connectedBefore, <<"Disconnected">>)
      BY <1>1, <1>2, <1>4, <2>1, <2>2, <3>1, InBroken DEF Allowed
    <3> QED
      BY <3>1, <3>2, Says DEF Flow!Next
  <2>3. CASE ~stopping /\ at' = "ended"
    <3>1. Stage' = "over" /\ said' = "GaveUp"
      BY <1>4, <2>3, StageIs DEF Retry, Inv, Say
    <3>2. Allowed("over", connectedBefore, <<"Disconnected", "GaveUp">>)
      BY <1>1, <1>2, <1>4, <2>1, <2>3, <3>1, InBroken DEF Allowed
    <3> QED
      BY <3>1, <3>2, SaysTwo DEF Flow!Next
  <2>4. CASE ~stopping /\ at' = "sleeping"
    <3>1. Stage' = "idle" /\ said' = "Reconnecting"
      BY <1>4, <2>4, StageIs DEF Retry, Inv, Say
    <3>2. Allowed("idle", connectedBefore, <<"Disconnected", "Reconnecting">>)
      BY <1>1, <1>2, <1>4, <2>1, <2>4, <3>1, InBroken DEF Allowed
    <3> QED
      BY <3>1, <3>2, SaysTwo DEF Flow!Next
  <2> QED
    BY <1>4, <2>2, <2>3, <2>4 DEF Retry
<1>5. CASE Retry(o) /\ o = "normal"
  <2>1. Stage = "live"
    BY <1>5, StageIs DEF Inv, ProgressInv
  <2>2. connectedBefore' = TRUE
    BY <1>1, <1>5 DEF Retry
  <2>3. CASE stopping
    <3>1. Stage' = "over" /\ (UNCHANGED said \/ said' = "Disconnected")
      BY <1>5, <2>3, StageIs DEF Retry, Inv, Say
    <3>2. Allowed("over", TRUE, <<>>) /\ Allowed("over", TRUE, <<"Disconnected">>)
      BY <1>1, <2>1, <2>2, <2>3, <3>1, FromLive, InEnded DEF Allowed
    <3> QED
      BY <3>1, <3>2, Silent, Says DEF Flow!Next
  <2>4. CASE ~stopping
    <3>1. at' = "sleeping" /\ said' = "Reconnecting"
      BY <1>5, <2>4, ClientAssumption DEF Retry, CountFailure, Say
    <3>2. Stage' = "idle"
      BY <3>1, StageIs DEF Inv
    <3>3. Allowed("idle", TRUE, <<"Disconnected", "Reconnecting">>)
      BY <1>1, <2>1, <2>2, <2>4, <3>2, FromLive, InEnded DEF Allowed
    <3> QED
      BY <3>1, <3>3, SaysTwo DEF Flow!Next
  <2> QED
    BY <2>3, <2>4
<1>6. o \in {"normal", "pinning", "refused", "error"}
  BY DEF Outcomes, Inv, ProgressInv
<1> QED
  BY <1>3, <1>4, <1>5, <1>6 DEF SessionOver, Retry, Fatal

\* Connecting and comparing the certificate.
LEMMA ConnectFlow == ASSUME Inv, Inv', Connect PROVE Flow!Next
<1> USE StageIs, VerdictIs DEF Inv
<1>1. CASE ConnectFail
  BY <1>1, OverFlow DEF ConnectFail, Outcomes
<1>2. CASE ConnectOk
  <2>1. Stage = "connecting" /\ UNCHANGED stopping
    BY <1>2 DEF ConnectOk
  <2>2. CASE at' = "asking"
    <3>1. /\ said' = "CertificateUnknown" /\ answer' = "pending" /\ UNCHANGED connectedBefore
      BY <1>2, <2>2 DEF ConnectOk, TearDown, Say
    <3>2. Verdict' = "none"
      BY <3>1 DEF Verdict
    <3>3. Allowed("asked", connectedBefore, <<"CertificateUnknown">>)
      BY <2>1, <2>2, <3>1, <3>2, FromConnecting DEF Allowed
    <3> QED
      BY <3>1, <3>3, Says DEF Flow!Next
  <2>3. CASE at' = "hello"
    <3>1. UNCHANGED <<connectedBefore, said>>
      BY <1>2, <2>3 DEF ConnectOk, TearDown
    <3>2. Allowed("greeting", connectedBefore, <<>>)
      BY <2>1, <2>3, <3>1, FromConnecting DEF Allowed
    <3> QED
      BY <3>1, <3>2, Silent DEF Flow!Next
  <2>4. CASE at' = "closing"
    <3>1. said' = "CertificateMismatch" /\ outcome' = "pinning" /\ UNCHANGED connectedBefore
      BY <1>2, <2>4 DEF ConnectOk, TearDown, Say
    <3>2. Stage' = "doomed"
      BY <2>4, <3>1
    <3>3. Allowed("doomed", connectedBefore, <<"CertificateMismatch">>)
      BY <2>1, <2>4, <3>1, <3>2, FromConnecting DEF Allowed
    <3> QED
      BY <3>1, <3>3, Says DEF Flow!Next
  <2> QED
    BY <1>2, <2>2, <2>3, <2>4 DEF ConnectOk, TearDown
<1> QED
  BY <1>1, <1>2 DEF Connect

\* The verdict of the user, or the stop flag.
LEMMA VerifyFlow == ASSUME Inv, Inv', Verify PROVE Flow!Next
<1> USE StageIs, VerdictIs DEF Inv
<1>1. CASE CertAccepted
  <2>1. /\ Stage = "asked" /\ Stage' = "greeting" /\ Verdict' = "none"
        /\ UNCHANGED <<connectedBefore, stopping, said>>
    BY <1>1 DEF CertAccepted, uivars
  <2>2. Verdict = "yes"
    BY <1>1 DEF CertAccepted, Verdict
  <2>3. Allowed("greeting", connectedBefore, <<>>)
    BY <2>1, <2>2, FromAsked DEF Allowed
  <2> QED
    BY <2>1, <2>3, Silent DEF Flow!Next
<1>2. CASE CertUnsaved
  <2>1. /\ Stage = "asked" /\ Stage' = "greeting" /\ Verdict' = "none"
        /\ UNCHANGED <<connectedBefore, stopping, said>>
    BY <1>2 DEF CertUnsaved, TearDown, uivars, ProgressInv
  <2>2. Verdict = "yes"
    BY <1>2 DEF CertUnsaved, Verdict
  <2>3. Allowed("greeting", connectedBefore, <<>>)
    BY <2>1, <2>2, FromAsked DEF Allowed
  <2> QED
    BY <2>1, <2>3, Silent DEF Flow!Next
<1>3. CASE CertRejected
  <2>1. /\ Stage = "asked" /\ Stage' = "doomed" /\ Verdict' = "none"
        /\ UNCHANGED <<connectedBefore, stopping, said>>
    BY <1>3 DEF CertRejected, TearDown, uivars
  <2>2. stopping = TRUE \/ Verdict = "no"
    BY <1>3 DEF CertRejected, Verdict, TypeOK
  <2>3. Allowed("doomed", connectedBefore, <<>>)
    BY <2>1, <2>2, FromAsked DEF Allowed
  <2> QED
    BY <2>1, <2>3, Silent DEF Flow!Next
<1> QED
  BY <1>1, <1>2, <1>3 DEF Verify

\* The handshake and the reading: a session that fails here goes on as one that
\* is greeting, or live, until the loop has seen how it ended.
LEMMA TalkFlow ==
    ASSUME Inv, Inv', Handshake \/ Reading PROVE Flow!Next \/ UNCHANGED Flow!vars
<1> USE StageIs, VerdictIs DEF Inv, uivars, connvars, pinvars, loopvars, TearDown
<1>1. CASE Hello
  <2>1. Stage = "greeting" /\ Stage' = "greeting"
    BY <1>1 DEF Hello
  <2> QED
    BY <1>1, <2>1 DEF Hello, Flow!vars
<1>2. CASE Welcome
  <2>1. /\ Stage = "greeting" /\ Stage' = "live" /\ Verdict' = "none" /\ said' = "Connected"
        /\ UNCHANGED <<connectedBefore, stopping>>
    BY <1>2 DEF Welcome, Say
  <2>2. Allowed("live", connectedBefore, <<"Connected">>)
    BY <2>1, FromGreeting DEF Allowed
  <2> QED
    BY <2>1, <2>2, Says DEF Flow!Next
<1>3. CASE Refused \/ Undecryptable
  <2>1. /\ Stage \in {"greeting", "live"} /\ Stage' = "doomed" /\ Verdict' = "none"
        /\ UNCHANGED <<connectedBefore, stopping, said>>
    BY <1>3 DEF Refused, Undecryptable
  <2>2. Allowed("doomed", connectedBefore, <<>>)
    BY <2>1, FromGreeting, FromLive DEF Allowed
  <2> QED
    BY <2>1, <2>2, Silent DEF Flow!Next
<1>4. CASE HandshakeLost
  <2>1. Stage = "greeting" /\ Stage' = "greeting"
    BY <1>4 DEF HandshakeLost, ProgressInv
  <2> QED
    BY <1>4, <2>1 DEF HandshakeLost, Flow!vars
<1>5. CASE Receive
  <2>1. Stage = "live" /\ Stage' = "live"
    BY <1>5 DEF Receive
  <2> QED
    BY <1>5, <2>1 DEF Receive, Say, Flow!Chat, Flow!Next
<1>6. CASE ReadEnd
  <2>1. Stage = "live" /\ Stage' = "live"
    BY <1>6 DEF ReadEnd, ProgressInv
  <2> QED
    BY <1>6, <2>1 DEF ReadEnd, Flow!vars
<1> QED
  BY <1>1, <1>2, <1>3, <1>4, <1>5, <1>6 DEF Handshake, Reading

\* Callbacks, the calls of other threads, and the file.
LEMMA CallFlow ==
    ASSUME Inv, Inv', Posted \/ Others \/ Elsewhere PROVE Flow!Next \/ UNCHANGED Flow!vars
<1>1. UNCHANGED <<at, outcome, reached>>
  BY DEF Posted, CloseSocket, SendFails, SendSealed, Answered, Others, Stop, SendMessage,
         AnswerCertificate, Post, Elsewhere, loopvars, uivars
<1>2. UNCHANGED Stage
  BY <1>1 DEF Stage
<1> USE <1>2 DEF loopvars, uivars, Flow!vars, Flow!Next
<1>3. CASE CloseSocket \/ SendSealed
  BY <1>3 DEF CloseSocket, SendSealed
<1>4. CASE SendFails
  <2>1. Stage # "stopped"
    BY <1>4 DEF SendFails, Callback, Running, Stage, Inv, TypeOK
  <2> QED
    BY <1>4, <2>1 DEF SendFails, Flow!Chat, Say
<1>5. CASE Answered
  <2>1. CASE answer = "pending"
    <3>1. Stage = "asked"
      BY <2>1, StageIs DEF Inv, ConnectionInv
    <3> QED
      BY <1>5, <2>1, <3>1 DEF Answered, Flow!Answer
  <2>2. CASE answer # "pending"
    BY <1>5, <2>2 DEF Answered
  <2> QED
    BY <2>1, <2>2
<1>6. CASE Stop
  BY <1>6 DEF Stop, Post, Flow!Stop
<1>7. CASE SendMessage \/ AnswerCertificate
  BY <1>7 DEF SendMessage, AnswerCertificate, Post
<1>8. CASE Elsewhere
  BY <1>8 DEF Elsewhere
<1> QED
  BY <1>3, <1>4, <1>5, <1>6, <1>7, <1>8 DEF Posted, Others

\* The thread keeps to the order of events that EventFlow promises the UI: the
\* safety part of ImplementsFlow.
THEOREM KeepsFlow == Spec => Flow!Init /\ [][Flow!Next]_(Flow!vars)
<1>1. Init => Flow!Init
  BY DEF Init, Flow!Init, Stage
<1>2. Inv /\ Inv' /\ [Next]_vars => [Flow!Next]_(Flow!vars)
  <2> SUFFICES ASSUME Inv, Inv', [Next]_vars PROVE Flow!Next \/ UNCHANGED Flow!vars
    OBVIOUS
  <2>1. CASE Closed
    <3>1. at = "closing" /\ SessionOver(outcome) /\ outcome \in Outcomes
      BY <2>1 DEF Closed, Inv, TypeOK
    <3> QED
      BY <3>1, OverFlow
  <2>2. CASE UNCHANGED vars
    BY <2>2 DEF vars, Stage, Flow!vars
  <2> QED
    BY <2>1, <2>2, MainFlow, ConnectFlow, VerifyFlow, TalkFlow, CallFlow DEF Next, Terminated
<1> QED
  BY <1>1, <1>2, Invariant, PTL DEF Spec

=============================================================================

-------------------------- MODULE ClientMainProofs --------------------------
(* What ClientMain.cfg checks of the client process for two clients and a   *)
(* turn of three events, proved for any number of them.                     *)
EXTENDS ClientMain, SequenceTheorems, TLAPS

-----------------------------------------------------------------------------
(* The queues.                                                              *)

\* The events that end what Connected began.
EndEvents == {"Disconnected", "ConnectionFailed", "AuthFailed"}

\* What the printer takes for the end is one: nothing but Stopped comes after.
EndsLast(q, s) ==
    \A i \in DOMAIN q : q[i] \in Final =>
        /\ s \in {"over", "stopped"}
        /\ \A j \in DOMAIN q : i < j => q[j] = "Stopped"

\* Behind a Connected that was not read yet is its end, or there was none.
EndsTold(q, s) ==
    \A i \in DOMAIN q : q[i] = "Connected" =>
        \/ s \in {"live", "doomed"}
        \/ \E j \in DOMAIN q : i < j /\ q[j] \in EndEvents

\* A question that was not read yet is open, and the last event.
Asks(q, s, v) ==
    \A i \in DOMAIN q : q[i] = "CertificateUnknown" =>
        i = Len(q) /\ s = "asked" /\ v = "none"

\* All that comes of a client that was dropped under its prompt.
Ending(q, s, v) ==
    /\ s \in {"asked", "doomed", "over", "stopped"}
    /\ s = "asked" => v # "yes"
    /\ \A i \in DOMAIN q : q[i] \in {"AuthFailed", "ConnectionFailed", "Stopped"}

\* There is a session, or word of its end.
Heard(q, s) ==
    \/ s \in {"live", "doomed"}
    \/ \E j \in DOMAIN q : q[j] \in EndEvents

\* The client has ended, and its queue says no more.
Silent(q, s) ==
    /\ s \in {"over", "stopped"}
    /\ \A i \in DOMAIN q : q[i] = "Stopped"

\* The first Connected, which opens the chat, comes before all that needs it.
Opens(q, s, b, d) ==
    d = "gone" \/ /\ b \/ s = "live" => \E j \in DOMAIN q : q[j] = "Connected"
                  /\ \A i \in DOMAIN q : q[i] = "GaveUp" =>
                        \E j \in DOMAIN q : j < i /\ q[j] = "Connected"

QueueInv ==
    \A c \in Clients :
        /\ c > created => /\ stage[c] = "idle" /\ queue[c] = <<>> /\ verdict[c] = "none"
                          /\ ~before[c] /\ ~stopping[c]
        /\ EndsLast(queue[c], stage[c])
        /\ ~stopping[c] => EndsTold(queue[c], stage[c])

-----------------------------------------------------------------------------
(* The window.                                                              *)

\* Every other client has been told to stop.
OthersToldToStop == \A c \in 1..created : c # client => stopping[c]

\* The window's client has not been told to stop, and the others have; the pump
\* is where the prompt and the dialog say it is.
WindowInv ==
    /\ OthersToldToStop
    /\ client # None => ~stopping[client]
    /\ tk = "loop" => draining = None
    /\ tk \in {"drain", "prompt"} => draining # None
    /\ connected => dialog = "gone"

\* As long as no answer went astray: a prompt is about a question that is open,
\* what is left of a dropped client can only be its end, the reconnect button
\* is there for nobody who has a session, and _connected means what it says.
AnswersInv ==
    /\ client # None => Asks(queue[client], stage[client], verdict[client])
    /\ tk = "prompt" /\ draining = client =>
          stage[client] = "asked" /\ verdict[client] = "none" /\ queue[client] = <<>>
    /\ tk # "quit" /\ draining # None /\ draining # client =>
          /\ stopping[draining]
          /\ Ending(queue[draining], stage[draining], verdict[draining])
    /\ client # None => Opens(queue[client], stage[client], before[client], dialog)
    /\ button => dialog = "gone"
    /\ button /\ client # None => Silent(queue[client], stage[client])
    /\ connected /\ tk # "quit" => client # None /\ Heard(queue[client], stage[client])

-----------------------------------------------------------------------------
(* The terminal.                                                            *)

\* There is one client, from the launch on.
TerminalInv ==
    /\ client = created /\ created <= 1
    /\ input = "start" => created = 0 /\ printer = "idle" /\ reader = "nobody" /\ ~stop
    /\ input \in {"loop", "input", "leaving"} \/ printer # "idle" => created = 1
    /\ EndMeant

\* The front end that was not started does nothing.
Inv ==
    /\ TypeOK
    /\ QueueInv
    /\ mode = "gui" =>
          /\ WindowInv
          /\ ~crossed => AnswersInv
          /\ input = "start" /\ printer = "idle" /\ reader = "nobody" /\ ~stop
    /\ mode = "headless" =>
          /\ TerminalInv
          /\ ~connected /\ tk = "loop" /\ draining = None

-----------------------------------------------------------------------------
(* What a client may say next, and what that does to the queue.             *)

\* From stage s to stage z: in silence,
Quietly(s, t, v, z) ==
    \/ s = "connecting" /\ z = "greeting"
    \/ s = "asked" /\ v = "yes" /\ z = "greeting"
    \/ s = "asked" /\ (t \/ v = "no") /\ z = "doomed"
    \/ s \in {"greeting", "live"} /\ z = "doomed"
    \/ s \in {"idle", "live"} /\ t /\ z = "over"

\* with an event,
Saying(s, t, e, z) ==
    \/ s = "idle" /\ e = "Connecting" /\ z = "connecting"
    \/ s = "connecting" /\ e = "CertificateUnknown" /\ z = "asked"
    \/ s = "connecting" /\ e = "CertificateMismatch" /\ z = "doomed"
    \/ s = "greeting" /\ e = "Connected" /\ z = "live"
    \/ s \in {"connecting", "greeting", "live"} /\ e = "ConnectionFailed" /\ z = "over"
    \/ s \in {"connecting", "greeting", "live"} /\ t /\ e = "Disconnected" /\ z = "over"
    \/ s = "doomed" /\ e \in {"AuthFailed", "ConnectionFailed"} /\ z = "over"
    \/ s = "over" /\ e = "Stopped" /\ z = "stopped"

\* or with another event after Disconnected.
Losing(s, b, e, z) ==
    /\ s \in {"connecting", "greeting", "live"}
    /\ \/ e = "Reconnecting" /\ z = "idle"
       \/ b /\ e = "GaveUp" /\ z = "over"

\* All that a client may do at stage s.
Follows(s, b, t, v, r) ==
    /\ r.stage \in Stages /\ r.before \in BOOLEAN
    /\ r.before => b \/ s = "live"
    /\ \/ r.says = <<>> /\ Quietly(s, t, v, r.stage)
       \/ \E e \in Events : r.says = <<e>> /\ Saying(s, t, e, r.stage)
       \/ \E e \in Events : r.says = <<"Disconnected", e>> /\ Losing(s, b, e, r.stage)

\* Whatever a client may do, it follows from the stage it is at.
LEMMA WhatFollows ==
    ASSUME NEW s \in Stages, NEW b \in BOOLEAN, NEW t \in BOOLEAN, NEW v, NEW r \in After(s, b, t, v)
    PROVE  Follows(s, b, t, v, r)
  <1> USE DEF Then, Broken, Ended, Stages, Events, Follows, Quietly, Saying, Losing
  <1>1. CASE s = "idle"
    BY <1>1 DEF After
  <1>2. CASE s = "connecting"
    BY <1>2 DEF After
  <1>3. CASE s = "asked"
    BY <1>3 DEF After
  <1>4. CASE s = "greeting"
    BY <1>4 DEF After
  <1>5. CASE s = "live"
    <2>1. r \in {Then("doomed", b, <<>>)} \cup Ended(t) \cup Broken(b, t)
      BY <1>5 DEF After
    <2>2. CASE r \in Ended(t)
      <3>1. CASE t
        <4>1. r = Then("over", TRUE, <<>>) \/ r = Then("over", TRUE, <<"Disconnected">>)
          BY <2>2, <3>1
        <4>2. CASE r = Then("over", TRUE, <<>>)
          BY <1>5, <3>1, <4>2
        <4>3. CASE r = Then("over", TRUE, <<"Disconnected">>)
          BY <1>5, <3>1, <4>3
        <4> QED
          BY <4>1, <4>2, <4>3
      <3>2. CASE ~t
        <4>1. r = Then("idle", TRUE, <<"Disconnected", "Reconnecting">>)
          BY <2>2, <3>2
        <4> QED
          BY <1>5, <4>1
      <3> QED
        BY <3>1, <3>2
    <2>3. CASE r \in Broken(b, t)
      BY <1>5, <2>3
    <2>4. CASE r = Then("doomed", b, <<>>)
      BY <1>5, <2>4
    <2> QED
      BY <2>1, <2>2, <2>3, <2>4
  <1>6. CASE s = "doomed"
    BY <1>6 DEF After
  <1>7. CASE s = "over"
    BY <1>7 DEF After
  <1>8. CASE s = "stopped"
    BY <1>8 DEF After
  <1> QED
    BY <1>1, <1>2, <1>3, <1>4, <1>5, <1>6, <1>7, <1>8

\* What is said goes behind what was said: nothing, one event, or two.
LEMMA Said ==
    ASSUME NEW q \in Seq(Events), NEW e \in Events, NEW d \in Events
    PROVE  /\ Len(q) \in Nat /\ DOMAIN q = 1..Len(q)
           /\ q \o <<>> = q
           /\ q \o <<e>> \in Seq(Events)
           /\ DOMAIN (q \o <<e>>) = 1..(Len(q) + 1) /\ Len(q \o <<e>>) = Len(q) + 1
           /\ \A i \in 1..Len(q) : (q \o <<e>>)[i] = q[i]
           /\ (q \o <<e>>)[Len(q) + 1] = e
           /\ q \o <<d, e>> \in Seq(Events)
           /\ DOMAIN (q \o <<d, e>>) = 1..(Len(q) + 2) /\ Len(q \o <<d, e>>) = Len(q) + 2
           /\ \A i \in 1..Len(q) : (q \o <<d, e>>)[i] = q[i]
           /\ (q \o <<d, e>>)[Len(q) + 1] = d
           /\ (q \o <<d, e>>)[Len(q) + 2] = e
  OBVIOUS

\* What is read was said first.
LEMMA Heads ==
    ASSUME NEW q \in Seq(Events), q # <<>>
    PROVE  /\ Tail(q) \in Seq(Events) /\ Head(q) = q[1] /\ Head(q) \in Events
           /\ Len(q) \in Nat \ {0} /\ DOMAIN q = 1..Len(q)
           /\ Len(Tail(q)) = Len(q) - 1 /\ DOMAIN Tail(q) = 1..(Len(q) - 1)
           /\ \A i \in 1..(Len(q) - 1) : Tail(q)[i] = q[i + 1]
  OBVIOUS

\* What holds of a queue q at stage s goes on to hold of p at stage z.
Kept(q, s, b, t, v, p, z, a) ==
    /\ EndsLast(q, s) => EndsLast(p, z)
    /\ ~t /\ EndsTold(q, s) => EndsTold(p, z)
    /\ ~t /\ Asks(q, s, v) => Asks(p, z, "none")
    /\ Ending(q, s, v) => Ending(p, z, "none")
    /\ ~t /\ Heard(q, s) => Heard(p, z)
    /\ Silent(q, s) => Silent(p, z)
    /\ \A d : Opens(q, s, b, d) => Opens(p, z, a, d)

\* So it is in silence,
LEMMA KeptQuietly ==
    ASSUME NEW q \in Seq(Events), NEW s \in Stages, NEW b \in BOOLEAN, NEW t \in BOOLEAN,
           NEW v, NEW z, NEW a \in BOOLEAN, a => b \/ s = "live", Quietly(s, t, v, z)
    PROVE  Kept(q, s, b, t, v, q, z, a)
  BY DEF Quietly, Kept, EndsLast, EndsTold, Asks, Ending, Heard, Silent, Opens, Final, EndEvents

\* with an event at the end,
LEMMA KeptSaying ==
    ASSUME NEW q \in Seq(Events), NEW p \in Seq(Events), NEW s \in Stages, NEW b \in BOOLEAN,
           NEW t \in BOOLEAN, NEW v, NEW z, NEW a \in BOOLEAN, a => b \/ s = "live",
           Len(p) = Len(q) + 1, \A i \in 1..Len(q) : p[i] = q[i],
           Saying(s, t, p[Len(p)], z)
    PROVE  Kept(q, s, b, t, v, p, z, a)
  <1> USE DEF Saying, EndEvents
  <1>1. /\ Len(q) \in Nat /\ DOMAIN q = 1..Len(q) /\ DOMAIN p = 1..(Len(q) + 1)
        /\ \A i \in DOMAIN p : i = Len(q) + 1 \/ (i \in DOMAIN q /\ p[i] = q[i])
    OBVIOUS
  <1>2. EndsLast(q, s) => EndsLast(p, z)
    BY <1>1 DEF EndsLast, Final
  <1>3. ~t /\ EndsTold(q, s) => EndsTold(p, z)
    BY <1>1 DEF EndsTold
  <1>4. ~t /\ Asks(q, s, v) => Asks(p, z, "none")
    BY <1>1 DEF Asks
  <1>5. Ending(q, s, v) => Ending(p, z, "none")
    BY <1>1 DEF Ending
  <1>6. ~t /\ Heard(q, s) => Heard(p, z)
    BY <1>1 DEF Heard
  <1>7. Silent(q, s) => Silent(p, z)
    BY <1>1 DEF Silent
  <1>8. \A d : Opens(q, s, b, d) => Opens(p, z, a, d)
    BY <1>1 DEF Opens
  <1> QED
    BY <1>2, <1>3, <1>4, <1>5, <1>6, <1>7, <1>8 DEF Kept

\* or with two.
LEMMA KeptLosing ==
    ASSUME NEW q \in Seq(Events), NEW p \in Seq(Events), NEW s \in Stages, NEW b \in BOOLEAN,
           NEW t \in BOOLEAN, NEW v, NEW z, NEW a \in BOOLEAN, a => b \/ s = "live",
           Len(p) = Len(q) + 2, \A i \in 1..Len(q) : p[i] = q[i],
           p[Len(q) + 1] = "Disconnected", Losing(s, b, p[Len(p)], z)
    PROVE  Kept(q, s, b, t, v, p, z, a)
  <1> USE DEF Losing, EndEvents
  <1>1. /\ Len(q) \in Nat /\ DOMAIN q = 1..Len(q) /\ DOMAIN p = 1..(Len(q) + 2)
        /\ \A i \in DOMAIN p :
              i = Len(q) + 2 \/ i = Len(q) + 1 \/ (i \in DOMAIN q /\ p[i] = q[i])
    OBVIOUS
  <1>2. EndsLast(q, s) => EndsLast(p, z)
    BY <1>1 DEF EndsLast, Final
  <1>3. EndsTold(q, s) => EndsTold(p, z)
    BY <1>1 DEF EndsTold
  <1>4. Asks(q, s, v) => Asks(p, z, "none")
    BY <1>1 DEF Asks
  <1>5. ~Ending(q, s, v) /\ ~Silent(q, s)
    BY DEF Ending, Silent
  <1>6. Heard(p, z)
    BY <1>1 DEF Heard
  <1>7. \A d : Opens(q, s, b, d) => Opens(p, z, a, d)
    BY <1>1 DEF Opens
  <1> QED
    BY <1>2, <1>3, <1>4, <1>5, <1>6, <1>7 DEF Kept

\* So whatever a client does keeps what holds of its queue.
LEMMA SaysMore ==
    ASSUME NEW q \in Seq(Events), NEW s \in Stages, NEW b \in BOOLEAN, NEW t \in BOOLEAN,
           NEW v, NEW r, Follows(s, b, t, v, r)
    PROVE  q \o r.says \in Seq(Events) /\ Kept(q, s, b, t, v, q \o r.says, r.stage, r.before)
  <1>1. CASE r.says = <<>> /\ Quietly(s, t, v, r.stage)
    BY <1>1, KeptQuietly, Said DEF Follows
  <1>2. ASSUME NEW e \in Events, r.says = <<e>>, Saying(s, t, e, r.stage)
        PROVE  q \o r.says \in Seq(Events) /\ Kept(q, s, b, t, v, q \o r.says, r.stage, r.before)
    <2> DEFINE p == q \o <<e>>
    <2>1. /\ p \in Seq(Events) /\ Len(p) = Len(q) + 1
          /\ \A i \in 1..Len(q) : p[i] = q[i]
          /\ p[Len(p)] = e
      BY Said
    <2> HIDE DEF p
    <2>2. Kept(q, s, b, t, v, p, r.stage, r.before)
      BY <1>2, <2>1, KeptSaying DEF Follows
    <2> QED
      BY <1>2, <2>1, <2>2 DEF p
  <1>3. ASSUME NEW e \in Events, r.says = <<"Disconnected", e>>, Losing(s, b, e, r.stage)
        PROVE  q \o r.says \in Seq(Events) /\ Kept(q, s, b, t, v, q \o r.says, r.stage, r.before)
    <2>1. "Disconnected" \in Events
      BY DEF Events
    <2> DEFINE p == q \o <<"Disconnected", e>>
    <2>2. /\ p \in Seq(Events) /\ Len(p) = Len(q) + 2
          /\ \A i \in 1..Len(q) : p[i] = q[i]
          /\ p[Len(q) + 1] = "Disconnected" /\ p[Len(p)] = e
      BY <2>1, Said
    <2> HIDE DEF p
    <2>3. Kept(q, s, b, t, v, p, r.stage, r.before)
      BY <1>3, <2>2, KeptLosing DEF Follows
    <2> QED
      BY <1>3, <2>2, <2>3 DEF p
  <1> QED
    BY <1>1, <1>2, <1>3 DEF Follows

\* What holds of a queue when its first event is read, and of the rest then.
LEMMA Reads ==
    ASSUME NEW q \in Seq(Events), q # <<>>, NEW s, NEW b, NEW v, NEW d
    PROVE  /\ EndsLast(q, s) => EndsLast(Tail(q), s)
           /\ EndsLast(q, s) /\ Head(q) \in Final => Silent(Tail(q), s) /\ Ending(Tail(q), s, v)
           /\ EndsTold(q, s) => EndsTold(Tail(q), s)
           /\ EndsTold(q, s) /\ Head(q) = "Connected" => Heard(Tail(q), s)
           /\ Asks(q, s, v) => Asks(Tail(q), s, v)
           /\ Asks(q, s, v) /\ Head(q) = "CertificateUnknown"
                => Tail(q) = <<>> /\ s = "asked" /\ v = "none"
           /\ Ending(q, s, v) =>
                Ending(Tail(q), s, v) /\ Head(q) \in {"AuthFailed", "ConnectionFailed", "Stopped"}
           /\ Heard(q, s) => Head(q) \in EndEvents \/ Heard(Tail(q), s)
           /\ Silent(q, s) => Silent(Tail(q), s) /\ Head(q) = "Stopped"
           /\ Opens(q, s, b, d) => Head(q) = "Connected" \/ Opens(Tail(q), s, b, d)
           /\ Opens(q, s, b, d) /\ Head(q) = "GaveUp" => d = "gone"
  <1> USE Heads
  <1> DEFINE p == Tail(q)
             h == Head(q)
  <1>1. /\ p \in Seq(Events) /\ h = q[1] /\ Len(p) = Len(q) - 1
        /\ Len(p) \in Nat /\ 1 \in DOMAIN q /\ DOMAIN q \subseteq Nat /\ DOMAIN p \subseteq Nat
        /\ \A i \in DOMAIN p : 1 < i + 1 /\ i + 1 \in DOMAIN q /\ p[i] = q[i + 1]
        /\ \A i \in DOMAIN q : 1 < i => i - 1 \in DOMAIN p /\ q[i] = p[i - 1]
        /\ \A i \in DOMAIN q : i = 1 \/ 1 < i
    OBVIOUS
  <1>2. Len(p) = 0 => p = <<>>
    BY <1>1
  <1> HIDE DEF p, h
  <1>3. EndsLast(q, s) => EndsLast(p, s)
    BY <1>1 DEF EndsLast
  <1>4. EndsLast(q, s) /\ h \in Final => Silent(p, s) /\ Ending(p, s, v)
    <2> SUFFICES ASSUME EndsLast(q, s), h \in Final PROVE Silent(p, s) /\ Ending(p, s, v)
      OBVIOUS
    <2>1. s \in {"over", "stopped"} /\ \A j \in DOMAIN q : 1 < j => q[j] = "Stopped"
      BY <1>1 DEF EndsLast
    <2>2. \A i \in DOMAIN p : p[i] = "Stopped"
      BY <1>1, <2>1
    <2> QED
      BY <2>1, <2>2 DEF Silent, Ending
  <1>5. EndsTold(q, s) => EndsTold(p, s)
    <2> SUFFICES ASSUME EndsTold(q, s), s \notin {"live", "doomed"},
                        NEW i \in DOMAIN p, p[i] = "Connected"
                 PROVE  \E j \in DOMAIN p : i < j /\ p[j] \in EndEvents
      BY DEF EndsTold
    <2>1. i + 1 \in DOMAIN q /\ q[i + 1] = "Connected"
      BY <1>1
    <2>2. PICK j \in DOMAIN q : i + 1 < j /\ q[j] \in EndEvents
      BY <2>1 DEF EndsTold
    <2>3. j - 1 \in DOMAIN p /\ i < j - 1 /\ p[j - 1] \in EndEvents
      BY <1>1, <2>2
    <2> QED
      BY <2>3
  <1>6. EndsTold(q, s) /\ h = "Connected" => Heard(p, s)
    <2> SUFFICES ASSUME EndsTold(q, s), h = "Connected", s \notin {"live", "doomed"}
                 PROVE  \E j \in DOMAIN p : p[j] \in EndEvents
      BY DEF Heard
    <2>1. PICK j \in DOMAIN q : 1 < j /\ q[j] \in EndEvents
      BY <1>1 DEF EndsTold
    <2>2. j - 1 \in DOMAIN p /\ p[j - 1] \in EndEvents
      BY <1>1, <2>1
    <2> QED
      BY <2>2
  <1>7. Asks(q, s, v) => Asks(p, s, v)
    BY <1>1 DEF Asks
  <1>8. Asks(q, s, v) /\ h = "CertificateUnknown" => p = <<>> /\ s = "asked" /\ v = "none"
    <2>1. Asks(q, s, v) /\ h = "CertificateUnknown" => Len(q) = 1 /\ s = "asked" /\ v = "none"
      BY <1>1 DEF Asks
    <2> QED
      BY <1>1, <1>2, <2>1
  <1>9. Ending(q, s, v) =>
          Ending(p, s, v) /\ h \in {"AuthFailed", "ConnectionFailed", "Stopped"}
    BY <1>1 DEF Ending
  <1>10. Heard(q, s) => h \in EndEvents \/ Heard(p, s)
    BY <1>1 DEF Heard
  <1>11. Silent(q, s) => Silent(p, s) /\ h = "Stopped"
    BY <1>1 DEF Silent
  <1>12. Opens(q, s, b, d) => h = "Connected" \/ Opens(p, s, b, d)
    <2> SUFFICES ASSUME Opens(q, s, b, d), h # "Connected", d # "gone" PROVE Opens(p, s, b, d)
      BY DEF Opens
    <2>1. ASSUME b \/ s = "live" PROVE \E j \in DOMAIN p : p[j] = "Connected"
      <3>1. PICK j \in DOMAIN q : q[j] = "Connected"
        BY <2>1 DEF Opens
      <3> QED
        BY <1>1, <3>1
    <2>2. ASSUME NEW i \in DOMAIN p, p[i] = "GaveUp"
          PROVE  \E j \in DOMAIN p : j < i /\ p[j] = "Connected"
      <3>1. PICK j \in DOMAIN q : j < i + 1 /\ q[j] = "Connected"
        BY <1>1, <2>2 DEF Opens
      <3>2. j - 1 \in DOMAIN p /\ j - 1 < i /\ p[j - 1] = "Connected"
        BY <1>1, <3>1
      <3> QED
        BY <3>2
    <2> QED
      BY <2>1, <2>2 DEF Opens
  <1>13. Opens(q, s, b, d) /\ h = "GaveUp" => d = "gone"
    <2> SUFFICES ASSUME Opens(q, s, b, d), h = "GaveUp", d # "gone" PROVE FALSE
      OBVIOUS
    <2>1. PICK j \in DOMAIN q : j < 1 /\ q[j] = "Connected"
      BY <1>1 DEF Opens
    <2> QED
      BY <1>1, <2>1
  <1> QED
    BY <1>3, <1>4, <1>5, <1>6, <1>7, <1>8, <1>9, <1>10, <1>11, <1>12, <1>13 DEF p, h

\* An empty queue says nothing, and no session is heard of when all is silent.
LEMMA Nothing ==
    ASSUME NEW s, NEW b, NEW v, NEW d
    PROVE  /\ EndsLast(<<>>, s) /\ EndsTold(<<>>, s) /\ Asks(<<>>, s, v)
           /\ s = "idle" /\ ~b => Opens(<<>>, s, b, d)
           /\ s = "asked" /\ v # "yes" => Ending(<<>>, s, v)
           /\ \A q : ~(Heard(q, s) /\ Silent(q, s))
  BY DEF EndsLast, EndsTold, Asks, Opens, Ending, Heard, Silent, EndEvents

-----------------------------------------------------------------------------
(* Types.                                                                   *)

\* What one client does by itself, with r.
Speaks(c, read, r) ==
    /\ Follows(stage[c], before[c], stopping[c], verdict[c], r)
    /\ stage' = [stage EXCEPT ![c] = r.stage]
    /\ before' = [before EXCEPT ![c] = r.before]
    /\ queue' = [queue EXCEPT ![c] = IF read THEN @ \o r.says ELSE <<>>]
    /\ verdict' = [verdict EXCEPT ![c] = "none"]
    /\ c <= created
    /\ UNCHANGED <<mode, stopping, created, client>>

\* Whatever a client does next, it does as EventOrder says.
LEMMA NetworkSpeaks ==
    ASSUME TypeOK, NEW c \in Clients, NEW read, Network(c, read)
    PROVE  \E r : Speaks(c, read, r)
  <1>1. PICK r \in After(stage[c], before[c], stopping[c], verdict[c]) :
           /\ stage' = [stage EXCEPT ![c] = r.stage]
           /\ before' = [before EXCEPT ![c] = r.before]
           /\ queue' = [queue EXCEPT ![c] = IF read THEN @ \o r.says ELSE <<>>]
           /\ verdict' = [verdict EXCEPT ![c] = "none"]
    BY DEF Network
  <1>2. Follows(stage[c], before[c], stopping[c], verdict[c], r)
    BY WhatFollows DEF TypeOK, ThreadsTypeOK
  <1> QED
    BY <1>1, <1>2 DEF Network, Speaks

\* stop() is only ever called, and answers are only given to clients.
LEMMA CallTypes ==
    ASSUME TypeOK
    PROVE  /\ StopClient => stopping' \in [Clients -> BOOLEAN]
           /\ \A v \in {"yes", "no"} :
                 AnswerCertificate(v) => verdict' \in [Clients -> {"none", "yes", "no"}]
  BY DEF StopClient, AnswerCertificate, TypeOK, ThreadsTypeOK

\* A client by itself keeps the types.
LEMMA SpeaksTypes ==
    ASSUME TypeOK, NEW c \in Clients, NEW read, Network(c, read) PROVE ThreadsTypeOK'
  <1>1. PICK r : Speaks(c, read, r)
    BY NetworkSpeaks
  <1>2. r.stage \in Stages /\ r.before \in BOOLEAN
    BY <1>1 DEF Speaks, Follows
  <1>3. queue[c] \o r.says \in Seq(Events)
    BY <1>1, SaysMore DEF Speaks, TypeOK, ThreadsTypeOK
  <1> QED
    BY <1>1, <1>2, <1>3 DEF Speaks, TypeOK, ThreadsTypeOK

\* So does the window,
LEMMA WindowTypes ==
    ASSUME Inv, AppNext, UNCHANGED terminal PROVE TypeOK'
  <1> USE ClientsAssumption, AppAssumption, CallTypes
      DEF Inv, TypeOK, ThreadsTypeOK, AppTypeOK, threads, window, pump, SetBusy, Create, None
  <1>1. TermTypeOK'
    BY DEF TermTypeOK, terminal
  <1>2. mode = "gui" /\ mode' = mode
    BY DEF AppNext
  <1>3. CASE Submit
    BY <1>1, <1>2, <1>3 DEF Submit
  <1>4. CASE Cancel
    BY <1>1, <1>2, <1>4 DEF Cancel
  <1>5. CASE ManualReconnect
    <2>1. button' \in BOOLEAN
      BY <1>5 DEF ManualReconnect
    <2>2. client' \in 0..created' /\ created' \in 0..MaxClients /\ created <= created'
      BY <1>5 DEF ManualReconnect
    <2>3. stopping' \in [Clients -> BOOLEAN]
      BY <1>5 DEF ManualReconnect
    <2>4. dialog = "form" => client' = None
      BY <1>2, <1>5 DEF ManualReconnect
    <2> QED
      BY <1>1, <1>2, <1>5, <2>1, <2>2, <2>3, <2>4 DEF ManualReconnect
  <1>6. CASE Quit
    BY <1>1, <1>2, <1>6 DEF Quit
  <1>7. CASE Answer
    BY <1>1, <1>2, <1>7 DEF Answer
  <1>8. CASE DrainBegin
    BY <1>1, <1>2, <1>8 DEF DrainBegin
  <1>9. CASE DrainEnd
    BY <1>1, <1>2, <1>9 DEF DrainEnd
  <1>10. CASE Handle
    <2>1. draining \in Clients => Tail(queue[draining]) \in Seq(Events)
      BY <1>10, Heads DEF Handle
    <2>2. queue' \in [Clients -> Seq(Events)]
      BY <1>10, <2>1 DEF Handle
    <2>3. budget' \in 0..Batch /\ tk' \in {"loop", "drain", "prompt", "quit"}
      BY <1>10 DEF Handle, Enter, Lost, GiveUp, Fail
    <2>4. connected' \in BOOLEAN /\ button' \in BOOLEAN
      BY <1>10 DEF Handle, Enter, Lost, GiveUp, Fail
    <2>5. /\ stopping' \in [Clients -> BOOLEAN]
          /\ client' \in 0..created
          /\ dialog' \in {"form", "busy", "gone"}
          /\ dialog' = "form" => client' = None
      <3>1. CASE Fail
        BY <1>2, <3>1 DEF Fail, ShowFailure
      <3>2. CASE Enter \/ Lost \/ GiveUp \/ UNCHANGED <<stopping, client, window>>
        BY <1>2, <3>2 DEF Enter, Lost, GiveUp
      <3> QED
        BY <1>10, <3>1, <3>2 DEF Handle
    <2> QED
      BY <1>1, <1>2, <1>10, <2>2, <2>3, <2>4, <2>5 DEF Handle
  <1> QED
    BY <1>3, <1>4, <1>5, <1>6, <1>7, <1>8, <1>9, <1>10 DEF AppNext, User, Pump

\* and the terminal.
LEMMA TerminalTypes ==
    ASSUME Inv, TermNext, UNCHANGED <<window, pump>> PROVE TypeOK'
  <1> USE ClientsAssumption, CallTypes
      DEF Inv, TerminalInv, TypeOK, ThreadsTypeOK, TermTypeOK, threads, clients, Create, None
  <1>1. mode = "headless" /\ UNCHANGED <<mode, trusting, piped>>
    BY DEF TermNext
  <1>2. created' \in Nat /\ created <= created' => AppTypeOK'
    BY <1>1 DEF AppTypeOK, window, pump
  <1>3. stop' \in BOOLEAN /\ ended' \in BOOLEAN
    BY DEF TermNext, Launch, Decline, Printing, Show, Over, ShowEnd, AnswerPrompt, TakeInput,
       Eof, PromptEof, InputEof, Lines, PromptLine, InputLine, RunDry, MainThread, InputLoop,
       Goodbye, Leave
  <1>4. CASE Decline \/ RunDry \/ TakeInput \/ InputLine \/ PromptEof \/ InputEof \/ ShowEnd
    BY <1>1, <1>2, <1>3, <1>4
       DEF Decline, RunDry, TakeInput, InputLine, PromptEof, InputEof, ShowEnd
  <1>5. CASE PromptLine \/ InputLoop \/ Leave
    BY <1>1, <1>2, <1>5 DEF PromptLine, Pending, InputLoop, Leave
  <1>6. CASE Goodbye
    <2>1. stopping' \in [Clients -> BOOLEAN]
      BY <1>6 DEF Goodbye
    <2> QED
      BY <1>1, <1>2, <1>3, <1>6, <2>1 DEF Goodbye
  <1>7. CASE AnswerPrompt
    BY <1>1, <1>2, <1>7 DEF AnswerPrompt
  <1>8. CASE Show
    <2>1. queue' \in [Clients -> Seq(Events)]
      BY <1>8, Heads DEF Show
    <2> QED
      BY <1>1, <1>2, <1>3, <1>8, <2>1 DEF Show, Over, Pending
  <1>9. CASE Launch
    BY <1>1, <1>2, <1>9 DEF Launch
  <1> QED
    BY <1>9, <1>4, <1>5, <1>6, <1>7, <1>8 DEF TermNext, Printing, Eof, Lines, MainThread

\* Every step keeps the types.
LEMMA Types == ASSUME Inv, [Next]_vars PROVE TypeOK'
  <1>1. CASE AppNext /\ UNCHANGED terminal
    BY <1>1, WindowTypes
  <1>2. CASE TermNext /\ UNCHANGED <<window, pump>>
    BY <1>2, TerminalTypes
  <1>3. CASE Background
    <2>1. ThreadsTypeOK' /\ UNCHANGED <<mode, created, client, window, pump, terminal>>
      BY <1>3, SpeaksTypes DEF Background, Network, Inv
    <2> QED
      BY <2>1 DEF Inv, TypeOK, AppTypeOK, TermTypeOK, window, pump, terminal
  <1>4. CASE UNCHANGED vars
    BY <1>4 DEF Inv, TypeOK, ThreadsTypeOK, AppTypeOK, TermTypeOK, vars, threads, window, pump, terminal
  <1> QED
    BY <1>1, <1>2, <1>3, <1>4 DEF Next

-----------------------------------------------------------------------------
(* The queues in every state.                                               *)

\* What a front end does to its clients: it reads, stops, answers, creates.
Uses ==
    /\ UNCHANGED <<stage, before>>
    /\ created <= created'
    /\ \A c \in Clients :
          /\ \/ queue'[c] = queue[c]
             \/ c <= created /\ queue[c] # <<>> /\ queue'[c] = Tail(queue[c])
          /\ stopping[c] => stopping'[c]
          /\ c > created => stopping'[c] = stopping[c] /\ verdict'[c] = verdict[c]

\* stop() and answers go to the client there is.
LEMMA CallsReach ==
    ASSUME TypeOK
    PROVE  /\ StopClient => \A c \in Clients : stopping'[c] = (stopping[c] \/ c = client)
           /\ \A v \in {"yes", "no"} : AnswerCertificate(v) =>
                 \A c \in Clients : verdict'[c] =
                     IF c = client /\ stage[c] = "asked" /\ verdict[c] = "none" THEN v ELSE verdict[c]
  BY DEF StopClient, AnswerCertificate, TypeOK, ThreadsTypeOK

\* The window and the terminal do no more than that.
LEMMA FrontEndUses == ASSUME Inv, AppNext \/ TermNext PROVE Uses
  <1> USE ClientsAssumption, CallsReach
      DEF Inv, TypeOK, ThreadsTypeOK, Uses, threads, clients, Create, None, Clients
  <1>1. CASE AppNext
    <2>1. CASE Submit
      BY <2>1 DEF Submit
    <2>5. CASE Cancel
      BY <2>5 DEF Cancel
    <2>6. CASE Quit
      BY <2>6 DEF Quit
    <2>7. CASE DrainBegin \/ DrainEnd
      BY <2>7 DEF DrainBegin, DrainEnd
    <2>2. CASE ManualReconnect
      BY <2>2 DEF ManualReconnect
    <2>3. CASE Answer
      BY <2>3 DEF Answer
    <2>4. CASE Handle
      <3>1. \A c \in Clients : stopping[c] => stopping'[c]
        BY <2>4 DEF Handle, Fail, Enter, Lost, GiveUp
      <3>2. \A c \in Clients : c > created => stopping'[c] = stopping[c]
        BY <2>4 DEF Handle, Fail, Enter, Lost, GiveUp
      <3>3. draining \in 0..created
        BY DEF AppTypeOK
      <3> QED
        BY <2>4, <3>1, <3>2, <3>3 DEF Handle
    <2> QED
      BY <1>1, <2>1, <2>2, <2>3, <2>4, <2>5, <2>6, <2>7
         DEF AppNext, User, Pump
  <1>2. CASE TermNext
    <2>1. CASE Show
      BY <2>1 DEF Show
    <2>2. CASE AnswerPrompt
      BY <2>2 DEF AnswerPrompt
    <2>3. CASE Goodbye
      BY <2>3 DEF Goodbye
    <2>4. CASE Launch
      BY <2>4 DEF Launch
    <2>5. CASE UNCHANGED clients
      BY <2>5
    <2> QED
      BY <1>2, <2>1, <2>2, <2>3, <2>4, <2>5
         DEF TermNext, Printing, Eof, Lines, MainThread, ShowEnd, TakeInput, PromptEof, InputEof,
             PromptLine, InputLine, RunDry, InputLoop, Decline, Leave
  <1> QED
    BY <1>1, <1>2

\* Whoever speaks and whoever reads keeps the order of the queues.
LEMMA Queues == ASSUME Inv, [Next]_vars PROVE QueueInv'
  <1> USE Nothing DEF Inv, TypeOK, ThreadsTypeOK
  <1>1. CASE Uses
    <2> SUFFICES ASSUME NEW c \in Clients
                 PROVE  /\ c > created' => /\ stage'[c] = "idle" /\ queue'[c] = <<>>
                                           /\ verdict'[c] = "none"
                                           /\ ~before'[c] /\ ~stopping'[c]
                        /\ EndsLast(queue'[c], stage'[c])
                        /\ ~stopping'[c] => EndsTold(queue'[c], stage'[c])
      BY DEF QueueInv
    <2>1. created \in Nat /\ created' \in Nat /\ c \in Nat
      BY <1>1, Types, ClientsAssumption DEF Clients
    <2>2. /\ EndsLast(queue'[c], stage[c])
          /\ ~stopping[c] => EndsTold(queue'[c], stage[c])
      <3>1. CASE queue'[c] = queue[c]
        BY <3>1 DEF QueueInv
      <3>2. CASE queue[c] # <<>> /\ queue'[c] = Tail(queue[c])
        <4>1. queue[c] \in Seq(Events)
          OBVIOUS
        <4>2. /\ EndsLast(queue[c], stage[c]) => EndsLast(Tail(queue[c]), stage[c])
              /\ EndsTold(queue[c], stage[c]) => EndsTold(Tail(queue[c]), stage[c])
          BY <3>2, <4>1, Reads
        <4> QED
          BY <3>2, <4>2 DEF QueueInv
      <3> QED
        BY <1>1, <3>1, <3>2 DEF Uses
    <2> QED
      BY <1>1, <2>1, <2>2, ClientsAssumption DEF Uses, QueueInv
  <1>2. CASE Background
    <2>0. PICK c \in Clients : \E r : Speaks(c, Read(c), r)
      BY <1>2, NetworkSpeaks DEF Background
    <2>1. PICK r : Speaks(c, Read(c), r)
      BY <2>0
    <2>2. Kept(queue[c], stage[c], before[c], stopping[c], verdict[c],
               queue[c] \o r.says, r.stage, r.before)
      BY <2>1, SaysMore DEF Speaks
    <2>3. /\ EndsLast(queue'[c], stage'[c])
          /\ ~stopping'[c] => EndsTold(queue'[c], stage'[c])
      BY <2>1, <2>2 DEF Speaks, Kept, QueueInv
    <2>4. \A d \in Clients \ {c} :
             /\ stage'[d] = stage[d] /\ queue'[d] = queue[d] /\ verdict'[d] = verdict[d]
             /\ before'[d] = before[d] /\ stopping'[d] = stopping[d]
      BY <2>1 DEF Speaks
    <2>5. ~(c > created') /\ created' = created
      BY <2>1, ClientsAssumption DEF Speaks, Clients
    <2> QED
      BY <2>3, <2>4, <2>5 DEF QueueInv
  <1>3. CASE UNCHANGED vars
    BY <1>3 DEF QueueInv, vars, threads
  <1> QED
    BY <1>1, <1>2, <1>3, FrontEndUses DEF Next

-----------------------------------------------------------------------------
(* The terminal in every state.                                             *)

\* A client that has ended stays so.
LEMMA EndedStays ==
    ASSUME TypeOK, NEW c \in Clients, NEW d \in Clients, NEW read, Network(d, read),
           stage[c] \in {"over", "stopped"}
    PROVE  stage'[c] \in {"over", "stopped"}
  <1>1. PICK r : Speaks(d, read, r)
    BY NetworkSpeaks
  <1>2. c = d => r.stage \in {"over", "stopped"}
    BY <1>1 DEF Speaks, Follows, Quietly, Saying, Losing
  <1> QED
    BY <1>1, <1>2 DEF Speaks, TypeOK, ThreadsTypeOK

\* With the terminal there is one client, and its loop ends when that does.
LEMMA TerminalStep ==
    ASSUME Inv, [Next]_vars, mode = "headless"
    PROVE  TerminalInv' /\ ~connected' /\ tk' = "loop" /\ draining' = None /\ mode' = mode
  <1> USE ClientsAssumption
      DEF Inv, TypeOK, ThreadsTypeOK, TermTypeOK, TerminalInv, EndMeant, None, Clients
  <1>1. ~AppNext
    BY DEF AppNext
  <1>2. CASE TermNext /\ UNCHANGED <<window, pump>>
    <2>1. ~connected' /\ tk' = "loop" /\ draining' = None /\ mode' = mode
      BY <1>2 DEF window, pump, TermNext
    <2>2. CASE Launch
      BY <2>1, <2>2 DEF Launch, Create, threads
    <2>3. CASE Show
      <3>1. client = 1 /\ 1 \in Clients /\ UNCHANGED <<stage, created, client, input, reader>>
        BY <2>3 DEF Show
      <3>2. CASE Over
        <4>1. Head(queue[1]) \in Final
          BY <2>3, <3>1, <3>2 DEF Show, Over, Pending
        <4>2. queue[1] \in Seq(Events) /\ queue[1] # <<>> /\ EndsLast(queue[1], stage[1])
          BY <2>3, <3>1 DEF Show, QueueInv
        <4>3. stage[1] \in {"over", "stopped"}
          BY <4>1, <4>2, Reads DEF Silent
        <4> QED
          BY <2>1, <2>3, <3>1, <3>2, <4>3 DEF Show
      <3>3. CASE UNCHANGED stop
        BY <2>1, <2>3, <3>1, <3>3 DEF Show
      <3> QED
        BY <2>3, <3>2, <3>3 DEF Show
    <2>4. CASE AnswerPrompt \/ ShowEnd
      BY <2>1, <2>4 DEF AnswerPrompt, ShowEnd, clients, threads
    <2>5. CASE Decline \/ RunDry \/ TakeInput \/ InputLine \/ PromptEof \/ InputEof
      BY <2>1, <2>5 DEF Decline, RunDry, TakeInput, InputLine, PromptEof, InputEof, clients, threads
    <2>6. CASE PromptLine \/ InputLoop \/ Leave
      BY <2>1, <2>6 DEF PromptLine, InputLoop, Leave, clients, threads
    <2>7. CASE Goodbye
      BY <2>1, <2>7 DEF Goodbye
    <2> QED
      BY <1>2, <2>2, <2>3, <2>4, <2>5, <2>6, <2>7 DEF TermNext, Printing, Eof, Lines, MainThread
  <1>3. CASE Background
    <2>1. UNCHANGED <<mode, created, client, connected, tk, draining, input, printer, reader, stop>>
      BY <1>3 DEF Background, Network, window, pump, terminal
    <2>2. 1 \in Clients /\ (stage[1] \in {"over", "stopped"} => stage'[1] \in {"over", "stopped"})
      BY <1>3, EndedStays DEF Background
    <2> QED
      BY <2>1, <2>2
  <1>4. CASE UNCHANGED vars
    BY <1>4 DEF vars, threads, window, pump, terminal
  <1> QED
    BY <1>1, <1>2, <1>3, <1>4 DEF Next

-----------------------------------------------------------------------------
(* The window in every state.                                               *)

\* The other clients are told to stop, and the flag of the window opens the chat
\* for good.
LEMMA WindowStep ==
    ASSUME Inv, [Next]_vars, mode = "gui"
    PROVE  /\ WindowInv' /\ mode' = mode
           /\ input' = "start" /\ printer' = "idle" /\ reader' = "nobody" /\ ~stop'
  <1> USE ClientsAssumption
      DEF Inv, TypeOK, ThreadsTypeOK, AppTypeOK, WindowInv, OthersToldToStop, None, Clients
  <1>0. StopClient => \A c \in 1..created : stopping'[c]
    <2> SUFFICES ASSUME StopClient, NEW c \in 1..created PROVE stopping'[c]
      OBVIOUS
    <2>1. c \in Clients /\ (stopping[c] \/ c = client)
      OBVIOUS
    <2>2. stopping'[c] = (stopping[c] \/ c = client)
      BY <2>1 DEF StopClient
    <2> QED
      BY ONLY <2>1, <2>2
  <1>1. ~TermNext
    BY DEF TermNext
  <1>2. CASE AppNext /\ UNCHANGED terminal
    <2> SUFFICES WindowInv'
      BY <1>2 DEF AppNext, terminal
    <2> USE DEF threads, window, pump
    <2>1. CASE Submit
      <3>1. /\ client = None /\ ~connected /\ client' = created + 1 /\ created' = created + 1
            /\ UNCHANGED <<stopping, connected, tk, draining>>
        BY <2>1 DEF Submit, Create
      <3>2. created + 1 \in Clients /\ ~stopping[created + 1]
        BY <2>1 DEF Submit, Create, QueueInv
      <3> QED
        BY <3>1, <3>2
    <2>2. CASE Cancel
      BY <1>0, <2>2 DEF Cancel
    <2>3. CASE ManualReconnect
      <3>1. CASE client = None
        BY <1>0, <2>3, <3>1 DEF ManualReconnect
      <3>2. CASE client # None
        <4>1. /\ client' = created + 1 /\ created' = created + 1
              /\ UNCHANGED <<connected, dialog, tk, draining>>
          BY <2>3, <3>2 DEF ManualReconnect, Create
        <4>2. created + 1 \in Clients /\ ~stopping[created + 1]
          BY <2>3, <3>2 DEF ManualReconnect, Create, QueueInv
        <4>3. stopping'[created + 1] = stopping[created + 1]
          BY <2>3, <4>2, CallsReach DEF ManualReconnect
        <4> QED
          BY <1>0, <2>3, <4>1, <4>2, <4>3 DEF ManualReconnect
      <3> QED
        BY <3>1, <3>2
    <2>4. CASE Quit
      BY <1>0, <2>4 DEF Quit
    <2>5. CASE Answer \/ DrainBegin \/ DrainEnd
      BY <2>5 DEF Answer, DrainBegin, DrainEnd
    <2>6. CASE Handle
      <3>1. CASE Fail
        BY <1>0, <2>6, <3>1 DEF Handle, Fail
      <3>2. CASE Enter \/ Lost \/ GiveUp
        BY <2>6, <3>2 DEF Handle, Enter, Lost, GiveUp
      <3>3. CASE UNCHANGED <<stopping, client, window>>
        BY <2>6, <3>3 DEF Handle, Enter, Lost, GiveUp, Fail
      <3> QED
        BY <2>6, <3>1, <3>2, <3>3 DEF Handle
    <2> QED
      BY <1>2, <2>1, <2>2, <2>3, <2>4, <2>5, <2>6 DEF AppNext, User, Pump
  <1>3. CASE Background
    BY <1>3 DEF Background, Network, window, pump, terminal
  <1>4. CASE UNCHANGED vars
    BY <1>4 DEF vars, threads, window, pump, terminal
  <1> QED
    BY <1>1, <1>2, <1>3, <1>4 DEF Next

-----------------------------------------------------------------------------
(* The window as long as no answer went astray.                             *)

\* A client that was just created has nothing to say yet.
LEMMA Newcomer ==
    ASSUME Inv, created < MaxClients
    PROVE  /\ created + 1 \in Clients
           /\ stage[created + 1] = "idle" /\ queue[created + 1] = <<>>
           /\ verdict[created + 1] = "none" /\ ~before[created + 1]
  <1>1. created \in Nat /\ created + 1 \in Clients /\ created + 1 > created
    BY ClientsAssumption DEF Inv, TypeOK, ThreadsTypeOK, Clients
  <1>2. \A c \in Clients : c > created => /\ stage[c] = "idle" /\ queue[c] = <<>>
                                          /\ verdict[c] = "none" /\ ~before[c]
    BY DEF Inv, QueueInv
  <1> QED
    BY <1>1, <1>2

\* stop() stops the client there is and starts none anew.
LEMMA StopReaches ==
    ASSUME TypeOK, StopClient
    PROVE  /\ client # None => stopping'[client]
           /\ \A c \in Clients : stopping[c] => stopping'[c]
  <1>1. client # None => client \in Clients
    BY ClientsAssumption DEF TypeOK, ThreadsTypeOK, Clients, None
  <1>2. ASSUME client # None PROVE stopping'[client]
    <2>1. stopping'[client] = (stopping[client] \/ client = client)
      BY <1>1, <1>2 DEF StopClient
    <2> QED
      BY ONLY <2>1
  <1>3. ASSUME NEW c \in Clients, stopping[c] PROVE stopping'[c]
    <2>1. stopping'[c] = (stopping[c] \/ c = client)
      BY DEF StopClient
    <2> QED
      BY ONLY <1>3, <2>1
  <1> QED
    BY <1>2, <1>3

\* The user's actions keep it:
LEMMA UserAnswers ==
    ASSUME Inv, mode = "gui", ~crossed, ~crossed', User
    PROVE  AnswersInv'
  <1> USE ClientsAssumption DEF None
  <1>1. /\ AnswersInv /\ WindowInv /\ client \in 0..created /\ draining \in 0..created
        /\ created \in 0..MaxClients /\ (dialog = "form" => client = None)
        /\ 1..created \subseteq Clients
    BY DEF Inv, TypeOK, ThreadsTypeOK, AppTypeOK, Clients
  <1>2. StopClient /\ client # None => stopping'[client]
    BY StopReaches DEF Inv
  <1>3. StopClient => \A c \in Clients : stopping[c] => stopping'[c]
    BY StopReaches DEF Inv
  <1> USE DEF threads, window, pump
  <1>4. CASE Submit
    <2>1. /\ client = None /\ ~connected /\ ~button /\ client' = created + 1
          /\ UNCHANGED <<stage, before, stopping, verdict, queue, connected, button, tk, draining>>
      BY <1>1, <1>4 DEF Submit, Create, WindowInv, AnswersInv
    <2>2. created < MaxClients
      BY <1>1, <1>4 DEF Submit, Create
    <2> QED
      BY <1>1, <2>1, <2>2, Newcomer, Nothing DEF AnswersInv
  <1>5. CASE Cancel
    <2>1. /\ ~connected /\ ~button /\ client' = None
          /\ tk \in {"loop", "prompt"} /\ (tk = "prompt" => draining # None)
          /\ UNCHANGED <<stage, before, verdict, queue, connected, button, tk, draining>>
      BY <1>1, <1>5 DEF Cancel, Served, WindowInv, AnswersInv
    <2>2. ASSUME draining # None
          PROVE  /\ stopping'[draining]
                 /\ Ending(queue[draining], stage[draining], verdict[draining])
      <3>1. tk = "prompt"
        BY <1>1, <2>1, <2>2 DEF WindowInv
      <3>2. CASE draining = client
        BY <1>1, <1>2, <1>5, <2>2, <3>1, <3>2, Nothing DEF AnswersInv, Cancel
      <3>3. CASE draining # client
        BY <1>1, <1>3, <1>5, <2>2, <3>1, <3>3 DEF AnswersInv, Cancel
      <3> QED
        BY <3>2, <3>3
    <2>3. draining' # None =>
             stopping'[draining'] /\ Ending(queue'[draining'], stage'[draining'], verdict'[draining'])
      BY <2>1, <2>2
    <2> QED
      BY <2>1, <2>3 DEF AnswersInv
  <1>6. CASE ManualReconnect
    <2>1. /\ button /\ ~button' /\ StopClient /\ tk \in {"loop", "prompt"}
          /\ UNCHANGED <<stage, before, verdict, queue, connected, dialog, tk, draining>>
      BY <1>6 DEF ManualReconnect, Served
    <2>2. CASE client = None
      BY <1>1, <1>3, <1>6, <2>1, <2>2 DEF ManualReconnect, AnswersInv
    <2>3. CASE client # None
      <3>1. client' = created + 1 /\ created < MaxClients
        BY <1>1, <1>6, <2>3 DEF ManualReconnect, Create
      <3>2. Silent(queue[client], stage[client]) /\ ~connected
        BY <1>1, <2>1, <2>3, Nothing DEF AnswersInv
      <3>3. draining = None \/ draining # client
        <4>1. stage[client] # "asked"
          BY <3>2 DEF Silent
        <4> QED
          BY <1>1, <2>1, <4>1 DEF AnswersInv, WindowInv
      <3> QED
        BY <1>1, <1>3, <2>1, <3>1, <3>2, <3>3, Newcomer, Nothing DEF AnswersInv
    <2> QED
      BY <2>2, <2>3
  <1>7. CASE Quit
    BY <1>1, <1>7 DEF Quit, AnswersInv
  <1>8. CASE Answer
    <2>1. /\ tk = "prompt" /\ tk' = "drain"
          /\ UNCHANGED <<stage, before, stopping, queue, created, client, connected, dialog, button,
                         draining>>
      BY <1>8 DEF Answer
    <2>2. CASE verdict' = verdict
      BY <1>1, <2>1, <2>2 DEF AnswersInv
    <2>3. CASE client = draining
      BY <1>1, <2>1, <2>3, Nothing DEF AnswersInv
    <2> QED
      BY <1>8, <2>2, <2>3 DEF Answer
  <1> QED
    BY <1>4, <1>5, <1>6, <1>7, <1>8 DEF User

\* so does the pump,
LEMMA PumpAnswers ==
    ASSUME Inv, mode = "gui", ~crossed, Pump
    PROVE  AnswersInv'
  <1> USE DEF None, threads, window
  <1>1. /\ AnswersInv /\ WindowInv /\ client \in 0..created /\ draining \in 0..created
        /\ 1..created \subseteq Clients /\ queue \in [Clients -> Seq(Events)]
    BY ClientsAssumption DEF Inv, TypeOK, ThreadsTypeOK, AppTypeOK, Clients
  <1>2. CASE DrainBegin
    BY <1>1, <1>2 DEF DrainBegin, AnswersInv
  <1>3. CASE DrainEnd
    BY <1>1, <1>3 DEF DrainEnd, AnswersInv
  <1>4. CASE Handle
    <2> DEFINE q == queue[draining]
               s == stage[draining]
               v == verdict[draining]
    <2>1. /\ tk = "drain" /\ q # <<>> /\ draining # None /\ draining \in Clients
          /\ q \in Seq(Events)
          /\ EndsLast(q, s) /\ (~stopping[draining] => EndsTold(q, s))
      BY <1>1, <1>4 DEF Handle, WindowInv, Inv, QueueInv
    <2>2. /\ queue'[draining] = Tail(q)
          /\ \A c \in Clients \ {draining} : queue'[c] = queue[c]
          /\ UNCHANGED <<stage, before, verdict, created, draining>>
      BY <1>1, <1>4, <2>1 DEF Handle
    <2> DEFINE h == Head(q)
    <2>3. \/ h = "Connected" /\ Enter
          \/ h = "Disconnected" /\ Lost
          \/ h = "GaveUp" /\ GiveUp
          \/ h \in {"AuthFailed", "ConnectionFailed"} /\ Fail
          \/ h = "CertificateUnknown" /\ tk' = "prompt" /\ UNCHANGED <<stopping, client, window>>
          \/ /\ h \in {"Connecting", "CertificateMismatch", "Reconnecting", "Stopped"}
             /\ UNCHANGED <<stopping, client, window, tk>>
      BY <1>4 DEF Handle
    <2>4. /\ h \in Final => Silent(Tail(q), s) /\ Ending(Tail(q), s, v)
          /\ ~stopping[draining] /\ h = "Connected" => Heard(Tail(q), s)
          /\ Asks(q, s, v) => Asks(Tail(q), s, v)
          /\ Asks(q, s, v) /\ h = "CertificateUnknown" =>
               Tail(q) = <<>> /\ s = "asked" /\ v = "none"
          /\ Ending(q, s, v) =>
               Ending(Tail(q), s, v) /\ h \in {"AuthFailed", "ConnectionFailed", "Stopped"}
          /\ Heard(q, s) => h \in EndEvents \/ Heard(Tail(q), s)
          /\ Silent(q, s) => Silent(Tail(q), s) /\ h = "Stopped"
          /\ Opens(q, s, before[draining], dialog) =>
               h = "Connected" \/ Opens(Tail(q), s, before[draining], dialog)
          /\ Opens(q, s, before[draining], dialog) /\ h = "GaveUp" => dialog = "gone"
          /\ Opens(Tail(q), s, before[draining], "gone")
          /\ ~(Heard(Tail(q), s) /\ Silent(Tail(q), s))
      BY <2>1, Reads, Nothing DEF Opens
    <2>8. Fail => /\ client' = None /\ ~connected' /\ tk' = tk
                  /\ (button => dialog = "gone") => (button' => dialog' = "gone")
                  /\ stopping[draining] \/ draining = client => stopping'[draining]
      BY <2>1, StopReaches DEF Fail, ShowFailure, Inv
    <2> HIDE DEF q, s, v, h
    <2>5. /\ q = queue[draining] /\ s = stage[draining] /\ v = verdict[draining]
          /\ stage'[draining] = s /\ verdict'[draining] = v
      BY <2>2 DEF q, s, v
    <2>6. CASE draining = client
      <3>1. /\ Asks(q, s, v) /\ Opens(q, s, before[draining], dialog)
            /\ (button => dialog = "gone" /\ Silent(q, s))
            /\ (connected => Heard(q, s))
            /\ ~stopping[draining]
        BY <1>1, <2>1, <2>5, <2>6 DEF AnswersInv, WindowInv
      <3>2. CASE h = "Connected" /\ Enter
        BY <2>1, <2>2, <2>4, <2>5, <2>6, <3>1, <3>2 DEF Enter, AnswersInv
      <3>3. CASE h = "Disconnected" /\ Lost
        BY <2>1, <2>2, <2>4, <2>5, <2>6, <3>1, <3>3 DEF Lost, AnswersInv
      <3>4. CASE h = "GaveUp" /\ GiveUp
        BY <2>1, <2>2, <2>4, <2>5, <2>6, <3>1, <3>4 DEF GiveUp, AnswersInv, Final, EndEvents
      <3>5. CASE h \in {"AuthFailed", "ConnectionFailed"} /\ Fail
        BY <2>1, <2>2, <2>4, <2>5, <2>6, <2>8, <3>1, <3>5 DEF AnswersInv, Final
      <3>6. CASE /\ h \notin EndEvents \cup {"Connected"} /\ UNCHANGED <<stopping, client, window>>
                 /\ tk' = tk \/ (h = "CertificateUnknown" /\ tk' = "prompt")
        BY <2>1, <2>2, <2>4, <2>5, <2>6, <3>1, <3>6 DEF AnswersInv
      <3> QED
        BY <2>3, <3>2, <3>3, <3>4, <3>5, <3>6 DEF EndEvents
    <2>7. CASE draining # client
      <3>1. stopping[draining] /\ Ending(q, s, v)
        BY <1>1, <2>1, <2>5, <2>7 DEF AnswersInv
      <3>2. CASE Fail
        BY <1>1, <2>1, <2>2, <2>4, <2>5, <2>7, <2>8, <3>1, <3>2 DEF AnswersInv
      <3>3. CASE UNCHANGED <<stopping, client, window, tk>>
        <4>1. client # None => queue'[client] = queue[client]
          BY <1>1, <2>2, <2>7
        <4> QED
          BY <1>1, <2>1, <2>2, <2>4, <2>5, <2>7, <3>1, <3>3, <4>1 DEF AnswersInv
      <3> QED
        BY <2>3, <2>4, <3>1, <3>2, <3>3
    <2> QED
      BY <2>6, <2>7
  <1> QED
    BY <1>2, <1>3, <1>4 DEF Pump

\* and so does a client that goes on by itself, the window's or a dropped one.
LEMMA BackgroundAnswers ==
    ASSUME Inv, mode = "gui", ~crossed, Background
    PROVE  AnswersInv'
  <1> USE DEF None
  <1>1. /\ AnswersInv /\ WindowInv /\ client \in 0..created /\ draining \in 0..created
        /\ 1..created \subseteq Clients
    BY ClientsAssumption DEF Inv, TypeOK, ThreadsTypeOK, AppTypeOK, Clients
  <1>0. PICK c \in Clients : \E r : Speaks(c, Read(c), r)
    BY NetworkSpeaks DEF Background, Inv
  <1>2. PICK r : Speaks(c, Read(c), r)
    BY <1>0
  <1>3. UNCHANGED <<connected, dialog, button, tk, draining, client, created, stopping>>
    BY DEF Background, Network, window, pump
  <1>4. \A d \in Clients \ {c} : /\ stage'[d] = stage[d] /\ queue'[d] = queue[d]
                                 /\ verdict'[d] = verdict[d] /\ before'[d] = before[d]
    BY <1>2 DEF Speaks, Inv, TypeOK, ThreadsTypeOK
  <1>5. CASE c \notin {client, draining}
    <2>1. client # None => client \in Clients \ {c}
      BY <1>1, <1>5
    <2>2. draining # None => draining \in Clients \ {c}
      BY <1>1, <1>5
    <2>3. client # None => /\ stage'[client] = stage[client] /\ queue'[client] = queue[client]
                           /\ verdict'[client] = verdict[client] /\ before'[client] = before[client]
      BY <1>4, <2>1
    <2>4. draining # None => /\ stage'[draining] = stage[draining]
                             /\ queue'[draining] = queue[draining]
                             /\ verdict'[draining] = verdict[draining]
      BY <1>4, <2>2
    <2>5. tk = "prompt" => draining # None
      BY <1>1 DEF WindowInv
    <2> QED
      BY <1>1, <1>3, <2>3, <2>4, <2>5 DEF AnswersInv
  <1>6. CASE c \in {client, draining}
    <2> DEFINE p == queue[c] \o r.says
    <2>1. Kept(queue[c], stage[c], before[c], stopping[c], verdict[c], p, r.stage, r.before)
      BY <1>2, SaysMore DEF Speaks, Inv, TypeOK, ThreadsTypeOK
    <2>2. /\ stage'[c] = r.stage /\ queue'[c] = p /\ verdict'[c] = "none" /\ before'[c] = r.before
      BY <1>2, <1>6 DEF Speaks, Read, Inv, TypeOK, ThreadsTypeOK
    <2> HIDE DEF p
    <2>3. CASE c = client
      <3>1. ~stopping[c]
        BY <1>1, <2>3, ClientsAssumption DEF WindowInv, Clients
      <3>2. ~(stage[c] = "asked" /\ verdict[c] = "none")
        BY <1>2, <3>1 DEF Speaks, Follows, Quietly, Saying, Losing
      <3>3. ~(tk = "prompt" /\ draining = client)
        BY <1>1, <2>3, <3>2 DEF AnswersInv
      <3>4. draining # None /\ draining # client => draining \in Clients \ {c}
        BY <1>1, <2>3
      <3> QED
        BY <1>1, <1>3, <1>4, <2>1, <2>2, <2>3, <3>1, <3>3, <3>4 DEF AnswersInv, Kept
    <2>4. CASE c = draining /\ c # client
      <3>1. client # None => client \in Clients \ {c}
        BY <1>1, <2>4
      <3> QED
        BY <1>1, <1>3, <1>4, <2>1, <2>2, <2>4, <3>1 DEF AnswersInv, Kept
    <2> QED
      BY <1>6, <2>3, <2>4
  <1> QED
    BY <1>5, <1>6

-----------------------------------------------------------------------------
(* The theorems.                                                            *)

\* The invariant holds throughout, for any number of clients and any batch.
LEMMA Invariant == Spec => []Inv
  <1>1. Init => Inv
    <2> SUFFICES ASSUME Init PROVE Inv
      OBVIOUS
    <2> USE ClientsAssumption, AppAssumption DEF Init, ThreadsInit, AppInit, TermInit, None
    <2>1. TypeOK
      <3>1. ThreadsTypeOK
        BY DEF ThreadsTypeOK, Stages
      <3>2. connected \in BOOLEAN /\ button \in BOOLEAN /\ crossed \in BOOLEAN
        OBVIOUS
      <3>3. stop \in BOOLEAN /\ ended \in BOOLEAN
        OBVIOUS
      <3>4. AppTypeOK
        BY <3>2 DEF AppTypeOK
      <3>5. TermTypeOK
        BY <3>3 DEF TermTypeOK
      <3> QED
        BY <3>1, <3>4, <3>5 DEF TypeOK
    <2>2. QueueInv
      BY Nothing DEF QueueInv, Clients
    <2>3. WindowInv /\ AnswersInv /\ TerminalInv
      BY DEF WindowInv, OthersToldToStop, AnswersInv, TerminalInv, EndMeant
    <2> QED
      BY <2>1, <2>2, <2>3 DEF Inv
  <1>2. Inv /\ [Next]_vars => Inv'
    <2> SUFFICES ASSUME Inv, [Next]_vars PROVE Inv'
      OBVIOUS
    <2>1. TypeOK' /\ QueueInv'
      BY Types, Queues
    <2>2. CASE mode = "headless"
      BY <2>1, <2>2, TerminalStep DEF Inv
    <2>3. CASE mode = "gui"
      <3>1. /\ WindowInv' /\ mode' = mode
            /\ input' = "start" /\ printer' = "idle" /\ reader' = "nobody" /\ ~stop'
        BY <2>3, WindowStep
      <3>2. ASSUME ~crossed' PROVE AnswersInv'
        <4>1. CASE AppNext
          <5>1. ~crossed
            BY <3>2, <4>1
               DEF AppNext, User, Pump, Submit, Cancel, ManualReconnect, Quit, Answer, DrainBegin,
                   DrainEnd, Handle, pump
          <5> QED
            BY <2>3, <3>2, <4>1, <5>1, UserAnswers, PumpAnswers DEF AppNext
        <4>2. CASE Background
          BY <2>3, <3>2, <4>2, BackgroundAnswers DEF Background, pump
        <4>3. CASE UNCHANGED vars
          BY <2>3, <3>2, <4>3 DEF Inv, AnswersInv, vars, threads, window, pump
        <4> QED
          BY <2>3, <4>1, <4>2, <4>3 DEF Next, TermNext
      <3> QED
        BY <2>1, <2>3, <3>1, <3>2 DEF Inv
    <2> QED
      BY <2>2, <2>3 DEF Inv, TypeOK, ThreadsTypeOK
  <1> QED
    BY <1>1, <1>2, PTL DEF Spec

\* Every reachable state is type correct: while the form can be filled in there
\* is no client, and whoever reads standard input is where input() was called.
THEOREM TypeCorrect == Spec => []TypeOK
  <1>1. Inv => TypeOK
    BY DEF Inv
  <1> QED
    BY <1>1, Invariant, PTL

\* The window accepts messages only while its client has a session, or the
\* event that says otherwise is on its way.
THEOREM ConnectedMeant == Spec => []ConnectedMeans
  <1>1. Inv => ConnectedMeans
    BY DEF Inv, AnswersInv, Heard, EndEvents, ConnectedMeans, TypeOK, ThreadsTypeOK
  <1> QED
    BY <1>1, Invariant, PTL

\* The terminal's input loop ends on account of a client only when that has.
THEOREM EndIsMeant == Spec => []EndMeant
  <1>1. Inv => EndMeant
    BY DEF Inv, TerminalInv, EndMeant, TypeOK, ThreadsTypeOK
  <1> QED
    BY <1>1, Invariant, PTL
=============================================================================

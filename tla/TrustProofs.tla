----------------------------- MODULE TrustProofs -----------------------------
(* Proofs about Trust, for any clients, hosts, certificates and identities. *)
EXTENDS Trust, TLAPS

-----------------------------------------------------------------------------
(* The server's identity.                                                   *)

\* What the files are while a start goes on, and from the first service on.
IdentityInv ==
    /\ open => todo # <<>>
    /\ step \in {"down", "serving", "failed"} => todo = <<>>
    /\ step = "pair" => todo # <<"salt">>
    /\ step = "salt" => todo \in {<<>>, <<"salt">>}
    /\ step = "salt" /\ todo = <<>> => disk["salt"] \in Ids
    /\ cert # NoCert => cert = served
    /\ served # NoCert => /\ todo = <<>> /\ step # "failed"
                          /\ disk["crt"] = served /\ disk["key"] = served
                          /\ disk["salt"] \in Ids

\* What is left to write after the first of the files.
LEMMA Tails ==
    /\ Tail(<<"crt", "key">>) = <<"key">>
    /\ Tail(<<"key">>) = <<>>
    /\ Tail(<<"salt">>) = <<>>
<1>1. Tail(<<"crt", "key">>) = <<"key">>
  OBVIOUS
<1>2. Tail(<<"key">>) = <<>>
  OBVIOUS
<1>3. Tail(<<"salt">>) = <<>>
  OBVIOUS
<1> QED
  BY <1>1, <1>2, <1>3

\* Types of the server: the files a start still has to write are a tail of
\* what it set out to write.
LEMMA ServerTypes == Spec => []ServerTypeOK
<1>1. Init => ServerTypeOK
  BY DEF Init, ServerInit, ServerTypeOK
<1>2. ServerTypeOK /\ [Next]_vars => ServerTypeOK'
  <2> SUFFICES ASSUME ServerTypeOK, [Next]_vars PROVE ServerTypeOK'
    OBVIOUS
  <2> USE DEF ServerTypeOK
  <2>1. CASE Start
    BY <2>1 DEF Start, Missing
  <2>2. CASE OpenFile
    BY <2>2 DEF OpenFile
  <2>3. CASE FillFile
    <3>1. todo \in {<<"crt", "key">>, <<"key">>, <<"salt">>}
      BY <2>3 DEF FillFile
    <3>2. Tail(todo) \in {<<>>, <<"key">>}
      BY <3>1, Tails
    <3> QED
      BY <2>3, <3>2 DEF FillFile
  <2>4. CASE LoadSalt
    BY <2>4 DEF LoadSalt, Missing
  <2>5. CASE LoadChain
    BY <2>5 DEF LoadChain, Fits
  <2>6. CASE Down
    BY <2>6 DEF Down
  <2>7. CASE UNCHANGED serverVars
    BY <2>7 DEF serverVars
  <2> QED
    BY <2>1, <2>2, <2>3, <2>4, <2>5, <2>6, <2>7
    DEF Next, Server, ServerNext, Save, Connect, vars
<1> QED
  BY <1>1, <1>2, PTL DEF Spec

\* The files of a server that has served fit, and no start has anything to
\* write to them.
LEMMA IdentityInvariant == Spec => []IdentityInv
<1>1. Init => IdentityInv
  BY DEF Init, ServerInit, IdentityInv
<1>2. ServerTypeOK /\ IdentityInv /\ [Next]_vars => IdentityInv'
  <2> SUFFICES ASSUME ServerTypeOK, IdentityInv, [Next]_vars PROVE IdentityInv'
    OBVIOUS
  <2> USE IdsAssumption DEF ServerTypeOK, IdentityInv
  <2>1. CASE Start
    BY <2>1 DEF Start, Missing
  <2>2. CASE OpenFile
    BY <2>2 DEF OpenFile
  <2>3. CASE FillFile
    <3>1. CASE todo = <<"salt">>
      BY <2>3, <3>1, Tails DEF FillFile, Files
    <3>2. CASE todo \in {<<"crt", "key">>, <<"key">>}
      <4>1. Tail(todo) \in {<<>>, <<"key">>}
        BY <3>2, Tails
      <4> QED
        BY <2>3, <3>2, <4>1 DEF FillFile
    <3> QED
      BY <2>3, <3>1, <3>2 DEF FillFile
  <2>4. CASE LoadSalt
    BY <2>4 DEF LoadSalt, Missing, Files
  <2>5. CASE LoadChain
    BY <2>5 DEF LoadChain, Fits
  <2>6. CASE Down
    BY <2>6 DEF Down
  <2>7. CASE UNCHANGED serverVars
    BY <2>7 DEF serverVars
  <2> QED
    BY <2>1, <2>2, <2>3, <2>4, <2>5, <2>6, <2>7
    DEF Next, Server, ServerNext, Save, Connect, vars
<1> QED
  BY <1>1, <1>2, ServerTypes, PTL DEF Spec

\* A server that has ever listened never fails to start again.
THEOREM StartsAgain == Spec => []ServedStarts
<1>1. IdentityInv => ServedStarts
  BY DEF IdentityInv, ServedStarts
<1> QED
  BY <1>1, IdentityInvariant, PTL

\* From the first service on nothing changes the certificate, key or salt.
THEOREM IdentityKept == Spec => IdentityStable
<1>1. ServerTypeOK /\ IdentityInv /\ [Next]_vars
        => [served # NoCert => UNCHANGED disk]_serverVars
  BY DEF ServerTypeOK, IdentityInv, Next, Server, ServerNext, Save, Connect, vars, serverVars,
         Start, OpenFile, FillFile, LoadSalt, LoadChain, Down
<1> QED
  BY <1>1, ServerTypes, IdentityInvariant, PTL DEF Spec, IdentityStable
-----------------------------------------------------------------------------
(* The file of pins.                                                        *)

\* Contents of a file always parse to some pins.
LEMMA PinsTyped ==
    /\ Nothing \in Pinnings
    /\ \A x : Pins(x) \in Pinnings
<1>1. Nothing \in Pinnings
  BY DEF Nothing, Pinnings
<1> QED
  BY <1>1 DEF Pins

\* Types of the files and of the clients.
LEMMA HostsTypes == Spec => []HostsTypeOK
<1>1. Init => HostsTypeOK
  <2> SUFFICES ASSUME HostsInit PROVE HostsTypeOK
    BY DEF Init
  <2>1. mine \in [Clients -> Pinnings]
    BY PinsTyped DEF HostsInit
  <2> QED
    BY <2>1 DEF HostsInit, HostsTypeOK, Contents, Saving
<1>2. ServerTypeOK /\ HostsTypeOK /\ [Next]_vars => HostsTypeOK'
  <2> SUFFICES ASSUME ServerTypeOK, HostsTypeOK, [Next]_vars PROVE HostsTypeOK'
    OBVIOUS
  <2> USE DEF HostsTypeOK
  <2>1. ASSUME NEW c \in Clients, Connect(c) PROVE HostsTypeOK'
    <3>1. ASSUME NEW h \in Hosts, NEW d \in Certs, Verify(c, h, d) PROVE HostsTypeOK'
      <4>1. subject' \in [Clients -> Hosts \X Certs]
        BY <3>1 DEF Verify
      <4>2. \A x \in Clients : target'[x] # "none" => at'[x] = "writing"
        BY <3>1 DEF Verify
      <4>3. at' \in [Clients -> {"idle", "asking"} \cup Saving] /\ alarm' \in BOOLEAN
        BY <3>1 DEF Verify
      <4> QED
        BY <3>1, <4>1, <4>2, <4>3 DEF Verify
    <3> QED
      BY <2>1, <3>1, TrustAssumption DEF Connect, ServerTypeOK
  <2>2. ASSUME NEW c \in Clients, Load(c) PROVE HostsTypeOK'
    <3>1. [Pins(file) EXCEPT ![subject[c][1]] = subject[c][2]] \in Pinnings
      BY PinsTyped DEF Pinnings
    <3>2. mine' \in [Clients -> Pinnings]
      BY <2>2, <3>1 DEF Load
    <3>3. crossed' \in [Clients -> BOOLEAN]
      BY <2>2 DEF Load
    <3> QED
      BY <2>2, <3>2, <3>3 DEF Load, Saving
  <2>3. ASSUME NEW c \in Clients, Open(c) PROVE HostsTypeOK'
    BY <2>3 DEF Open, Saving, Contents
  <2>4. ASSUME NEW c \in Clients, Write(c) PROVE HostsTypeOK'
    <3>1. tmp' \in Contents /\ file' \in Contents
      BY <2>4 DEF Write, Overlay, Contents
    <3> QED
      BY <2>4, <3>1 DEF Write, Saving
  <2>5. ASSUME NEW c \in Clients, Replace(c) PROVE HostsTypeOK'
    <3>1. tmp' \in Contents /\ file' \in Contents
      BY <2>5 DEF Replace, Contents
    <3>2. target' \in [Clients -> {"none", "tmp", "file", "gone"}]
      BY <2>5 DEF Replace
    <3>3. \A x \in Clients : target'[x] # "none" => target[x] # "none"
      BY <2>5 DEF Replace
    <3> QED
      BY <2>5, <3>1, <3>2, <3>3 DEF Replace, Saving
  <2>6. ASSUME NEW c \in Clients, Quit(c) PROVE HostsTypeOK'
    BY <2>6 DEF Quit
  <2>7. CASE UNCHANGED hostVars
    BY <2>7 DEF hostVars
  <2> QED
    BY <2>1, <2>2, <2>3, <2>4, <2>5, <2>6, <2>7
    DEF Next, Server, Save, SaveNext, vars
<1> QED
  BY <1>1, <1>2, ServerTypes, PTL DEF Spec

\* Every reachable state of Trust is type correct.
THEOREM TypeCorrect == Spec => []TypeOK
  BY ServerTypes, HostsTypes, PTL DEF TypeOK

-----------------------------------------------------------------------------
(* No false alarms.                                                         *)

\* Host h presents d: ours the certificate s it first served, others theirs.
Genuine(s, h, d) == IF h = Ours THEN s # NoCert /\ d = s ELSE d = Foreign

\* Pins that only hold certificates their hosts present.
AllGenuine(s, pins) == \A h \in Hosts : pins[h] # Unpinned => Genuine(s, h, pins[h])

\* Whatever anybody has read, holds or has written is genuine.
PinsInv ==
    /\ AllGenuine(served, Pins(file)) /\ AllGenuine(served, Pins(tmp))
    /\ \A c \in Clients :
          /\ AllGenuine(served, mine[c])
          /\ at[c] = "asking" => /\ subject[c][1] \in Hosts
                                 /\ Genuine(served, subject[c][1], subject[c][2])
    /\ ~alarm

\* What our server presents never changes once it has presented anything.
LEMMA ServedStays ==
    ASSUME [Next]_vars
    PROVE  served' = served \/ served = NoCert
  BY DEF Next, Server, ServerNext, Save, Connect, vars, serverVars,
         Start, OpenFile, FillFile, LoadSalt, LoadChain, Down

\* So that what was genuine stays genuine.
LEMMA GenuineStays ==
    ASSUME NEW s, NEW t, t = s \/ s = NoCert
    PROVE  /\ \A h, d : Genuine(s, h, d) => Genuine(t, h, d)
           /\ \A m : AllGenuine(s, m) => AllGenuine(t, m)
  BY DEF Genuine, AllGenuine

\* Contents that are no dictionary hold no pins.
LEMMA NoPins ==
    ASSUME NEW s, NEW x \in {NoFile, Empty, Garbage}
    PROVE  Pins(x) = Nothing /\ AllGenuine(s, Pins(x))
<1>1. Pins(x) = Nothing
  BY PinsAssumption DEF Pins
<1> QED
  BY <1>1 DEF AllGenuine, Nothing

\* Writing over another file gives the new pins or none.
LEMMA OverlayPins ==
    ASSUME NEW s, NEW old, NEW new \in Pinnings, AllGenuine(s, new), NEW x \in Overlay(old, new)
    PROVE  AllGenuine(s, Pins(x))
<1>1. x = new \/ x = Garbage
  BY DEF Overlay
<1> QED
  BY <1>1, NoPins DEF Pins

\* Only genuine certificates are asked about, pinned or written.
LEMMA PinsGenuine == Spec => []PinsInv
<1>1. Init => PinsInv
  <2> SUFFICES ASSUME ServerInit, HostsInit PROVE PinsInv
    BY DEF Init
  <2>1. \A c \in Clients : AllGenuine(served, mine[c]) /\ at[c] = "idle"
    BY DEF HostsInit, AllGenuine, Nothing
  <2> QED
    BY <2>1, NoPins DEF HostsInit, PinsInv
<1>2. /\ ServerTypeOK /\ IdentityInv /\ HostsTypeOK /\ PinsInv
      /\ [Next]_vars
      => PinsInv'
  <2> SUFFICES ASSUME ServerTypeOK, IdentityInv, HostsTypeOK, PinsInv, [Next]_vars
               PROVE  PinsInv'
    OBVIOUS
  <2>1. CASE Server
    <3>1. served' = served \/ served = NoCert
      BY ServedStays
    <3>2. UNCHANGED <<file, tmp, at, subject, mine, alarm>>
      BY <2>1 DEF Server, hostVars
    <3> QED
      BY <3>1, <3>2, GenuineStays DEF PinsInv, Pins
  <2>2. ASSUME NEW c \in Clients, Connect(c) PROVE PinsInv'
    <3>1. ASSUME NEW h \in Hosts, NEW d, Genuine(served, h, d), served' = served, Verify(c, h, d)
          PROVE  PinsInv'
      <4>1. Pins(file)[h] \notin {Unpinned, d} => FALSE
        BY <3>1 DEF PinsInv, AllGenuine, Genuine
      <4>2. /\ at' = [at EXCEPT ![c] = "asking"]
            /\ subject' = [subject EXCEPT ![c] = <<h, d>>]
            /\ UNCHANGED <<file, tmp, mine, alarm>>
        BY <3>1, <4>1 DEF Verify
      <4>3. subject'[c] = <<h, d>> /\ \A x \in Clients \ {c} : subject'[x] = subject[x] /\ at'[x] = at[x]
        BY <4>2 DEF HostsTypeOK
      <4> QED
        BY <3>1, <4>2, <4>3 DEF PinsInv, Pins
    <3>2. served' = served
      BY <2>2 DEF Connect, serverVars
    <3>3. cert # NoCert => Genuine(served, Ours, cert)
      BY DEF IdentityInv, Genuine
    <3>4. \A h \in Hosts \ {Ours} : Genuine(served, h, Foreign)
      BY DEF Genuine
    <3> QED
      BY <2>2, <3>1, <3>2, <3>3, <3>4, TrustAssumption DEF Connect
  <2>3. ASSUME Save PROVE PinsInv'
    <3>1. served' = served
      BY <2>3 DEF Save, serverVars
    <3>2. ASSUME NEW c \in Clients, Load(c) PROVE PinsInv'
      <4>1. AllGenuine(served, [Pins(file) EXCEPT ![subject[c][1]] = subject[c][2]])
        <5>1. Pins(file) \in Pinnings
          BY PinsTyped
        <5> QED
          BY <3>2, <5>1 DEF Load, PinsInv, AllGenuine, Pinnings
      <4>2. \A x \in Clients : AllGenuine(served, mine'[x])
        BY <3>2, <4>1 DEF Load, PinsInv, HostsTypeOK
      <4>3. \A x \in Clients : at'[x] = "asking" => at[x] = "asking"
        BY <3>2 DEF Load, HostsTypeOK
      <4> QED
        BY <3>1, <3>2, <4>2, <4>3 DEF Load, PinsInv, Pins
    <3>3. ASSUME NEW c \in Clients, Open(c) PROVE PinsInv'
      <4>1. \A x \in Clients : at'[x] = "asking" => at[x] = "asking"
        BY <3>3 DEF Open, HostsTypeOK
      <4> QED
        BY <3>1, <3>3, <4>1, NoPins DEF Open, PinsInv, Pins
    <3>4. ASSUME NEW c \in Clients, Write(c) PROVE PinsInv'
      <4>1. \A x \in Clients : at'[x] = "asking" => at[x] = "asking"
        BY <3>4 DEF Write, HostsTypeOK
      <4>2. mine[c] \in Pinnings /\ AllGenuine(served, mine[c])
        BY DEF HostsTypeOK, PinsInv
      <4>3. AllGenuine(served, Pins(tmp')) /\ AllGenuine(served, Pins(file'))
        BY <3>4, <4>2, OverlayPins DEF Write, PinsInv
      <4> QED
        BY <3>1, <3>4, <4>1, <4>3 DEF Write, PinsInv
    <3>5. ASSUME NEW c \in Clients, Replace(c) PROVE PinsInv'
      <4>1. \A x \in Clients : at'[x] = "asking" => at[x] = "asking"
        BY <3>5 DEF Replace, HostsTypeOK
      <4>2. AllGenuine(served, Pins(tmp')) /\ AllGenuine(served, Pins(file'))
        BY <3>5, NoPins DEF Replace, PinsInv
      <4> QED
        BY <3>1, <3>5, <4>1, <4>2 DEF Replace, PinsInv
    <3>6. ASSUME NEW c \in Clients, Quit(c) PROVE PinsInv'
      <4>1. \A x \in Clients : at'[x] = "asking" => at[x] = "asking"
        BY <3>6 DEF Quit, HostsTypeOK
      <4> QED
        BY <3>1, <3>6, <4>1 DEF Quit, PinsInv, Pins
    <3> QED
      BY <2>3, <3>2, <3>3, <3>4, <3>5, <3>6 DEF Save, SaveNext
  <2>4. CASE UNCHANGED vars
    BY <2>4 DEF vars, hostVars, serverVars, PinsInv, Pins
  <2> QED
    BY <2>1, <2>2, <2>3, <2>4 DEF Next
<1> QED
  BY <1>1, <1>2, ServerTypes, IdentityInvariant, HostsTypes, PTL DEF Spec

\* No client that only meets genuine servers is ever told that an identity has
\* changed, for any clients, hosts and identities.
THEOREM AlarmsMeant == Spec => []NoFalseAlarm
<1>1. PinsInv => NoFalseAlarm
  BY DEF PinsInv, NoFalseAlarm
<1> QED
  BY <1>1, PinsGenuine, PTL
-----------------------------------------------------------------------------
(* Pins are kept.                                                           *)

\* A save that no other overlapped is alone, holds every pin of the file, and
\* has the temporary file for itself.
SaveInv ==
    \A c \in Clients :
        at[c] \in Saving /\ ~crossed[c] =>
            /\ \A x \in Clients \ {c} : at[x] \notin Saving
            /\ \A h \in Hosts : Pins(file)[h] # Unpinned => mine[c][h] = Pins(file)[h]
            /\ at[c] = "writing" => target[c] = "tmp" /\ tmp = Empty
            /\ at[c] = "replacing" => tmp = mine[c]

\* SaveInv is inductive; that a save keeps the pin of its own host uses that
\* what is asked about and what is pinned are both genuine.
LEMMA SavesAlone == Spec => []SaveInv
<1>1. Init => SaveInv
  BY DEF Init, HostsInit, SaveInv, Saving
<1>2. HostsTypeOK /\ PinsInv /\ SaveInv /\ [Next]_vars => SaveInv'
  <2> SUFFICES ASSUME HostsTypeOK, PinsInv, SaveInv, [Next]_vars PROVE SaveInv'
    OBVIOUS
  <2>1. CASE UNCHANGED hostVars
    BY <2>1 DEF hostVars, SaveInv, Pins
  <2>2. ASSUME NEW c \in Clients, NEW h, NEW d, Verify(c, h, d) PROVE SaveInv'
    <3>1. \A x \in Clients : at'[x] \in Saving => at'[x] = at[x]
      BY <2>2 DEF Verify, HostsTypeOK, Saving
    <3>2. \A x \in Clients : at[x] \notin Saving => at'[x] \notin Saving
      BY <3>1
    <3> QED
      BY <2>2, <3>1, <3>2 DEF Verify, SaveInv, Pins
  <2>3. ASSUME NEW c \in Clients, Load(c) PROVE SaveInv'
    <3> DEFINE new == [Pins(file) EXCEPT ![subject[c][1]] = subject[c][2]]
    <3>1. ASSUME NEW h \in Hosts, Pins(file)[h] # Unpinned PROVE new[h] = Pins(file)[h]
      <4>1. Pins(file) \in Pinnings
        BY PinsTyped
      <4>2. Genuine(served, h, Pins(file)[h])
        BY <3>1 DEF PinsInv, AllGenuine
      <4>3. Genuine(served, subject[c][1], subject[c][2])
        BY <2>3 DEF PinsInv, Load
      <4> QED
        BY <4>1, <4>2, <4>3 DEF Genuine, Pinnings
    <3>2. mine'[c] = new /\ at'[c] = "opening"
      BY <2>3 DEF Load, HostsTypeOK
    <3>3. ~crossed'[c] => \A x \in Clients \ {c} : at[x] \notin Saving
      BY <2>3 DEF Load
    <3>4. \A x \in Clients \ {c} : at'[x] = at[x] /\ (at[x] \in Saving => crossed'[x])
      BY <2>3 DEF Load, HostsTypeOK
    <3>5. file' = file
      BY <2>3 DEF Load
    <3> HIDE DEF new
    <3> QED
      BY <3>1, <3>2, <3>3, <3>4, <3>5 DEF SaveInv, Pins
  <2>4. ASSUME NEW c \in Clients, at[c] \in Saving, crossed' = crossed, mine' = mine,
               \A x \in Clients \ {c} : at'[x] = at[x],
               at'[c] \in Saving =>
                   /\ file' = file
                   /\ ~crossed[c] => /\ at'[c] = "writing" => target'[c] = "tmp" /\ tmp' = Empty
                                     /\ at'[c] = "replacing" => tmp' = mine[c]
        PROVE  SaveInv'
    <3>1. \A x \in Clients \ {c} : at[x] \in Saving => crossed[x]
      BY <2>4 DEF SaveInv
    <3> QED
      BY <2>4, <3>1 DEF SaveInv, Pins
  <2>5. ASSUME NEW c \in Clients, Open(c) PROVE SaveInv'
    <3>1. at'[c] = "writing" /\ target'[c] = "tmp" /\ tmp' = Empty /\ file' = file
      BY <2>5 DEF Open, HostsTypeOK
    <3>2. at[c] \in Saving /\ crossed' = crossed /\ mine' = mine
      BY <2>5 DEF Open, Saving
    <3>3. \A x \in Clients \ {c} : at'[x] = at[x]
      BY <2>5 DEF Open, HostsTypeOK
    <3> QED
      BY <2>4, <3>1, <3>2, <3>3
  <2>6. ASSUME NEW c \in Clients, Write(c) PROVE SaveInv'
    <3>1. at[c] \in Saving /\ at[c] = "writing" /\ crossed' = crossed /\ mine' = mine
      BY <2>6 DEF Write, Saving
    <3>2. at'[c] = "replacing" /\ \A x \in Clients \ {c} : at'[x] = at[x]
      BY <2>6 DEF Write, HostsTypeOK
    <3>3. ~crossed[c] => file' = file /\ tmp' = mine[c]
      BY <2>6, <3>1 DEF Write, SaveInv, Overlay
    <3>4. \A x \in Clients \ {c} : at[x] \in Saving => crossed[x]
      BY <3>1 DEF SaveInv
    <3> QED
      BY <3>1, <3>2, <3>3, <3>4 DEF SaveInv, Pins
  <2>7. ASSUME NEW c \in Clients, Replace(c) PROVE SaveInv'
    <3>1. at[c] \in Saving /\ crossed' = crossed /\ mine' = mine
      BY <2>7 DEF Replace, Saving
    <3>2. at'[c] = "idle" /\ \A x \in Clients \ {c} : at'[x] = at[x]
      BY <2>7 DEF Replace, HostsTypeOK
    <3> QED
      BY <2>4, <3>1, <3>2 DEF Saving
  <2>8. ASSUME NEW c \in Clients, Quit(c) PROVE SaveInv'
    <3>1. crossed' = crossed /\ mine' = mine /\ file' = file /\ tmp' = tmp
      BY <2>8 DEF Quit
    <3>2. at'[c] = "idle" /\ \A x \in Clients \ {c} : at'[x] = at[x] /\ target'[x] = target[x]
      BY <2>8 DEF Quit, HostsTypeOK
    <3> QED
      BY <3>1, <3>2 DEF SaveInv, Pins, Saving
  <2> QED
    BY <2>1, <2>2, <2>3, <2>5, <2>6, <2>7, <2>8
    DEF Next, Server, Save, SaveNext, Connect, vars
<1> QED
  BY <1>1, <1>2, HostsTypes, PinsGenuine, PTL DEF Spec

\* A pin that was saved is lost only when two saves overlapped, for any
\* clients and hosts.
THEOREM PinsStay == Spec => PinsKept
<1> DEFINE Lost == \E h \in Hosts : Pins(file)[h] # Unpinned /\ Pins(file')[h] # Pins(file)[h]
           Crossed == \E c \in Clients : crossed[c] /\ at[c] \in Saving
<1>1. HostsTypeOK /\ SaveInv /\ [Next]_vars => (Lost => Crossed)
  <2> SUFFICES ASSUME HostsTypeOK, SaveInv, [Next]_vars, Lost PROVE Crossed
    OBVIOUS
  <2>1. file' # file
    OBVIOUS
  <2>2. PICK c \in Clients : Write(c) \/ Replace(c)
    BY <2>1 DEF Next, Server, Save, SaveNext, Connect, Verify, vars, hostVars, Load, Open, Quit
  <2>3. CASE Write(c)
    BY <2>1, <2>3 DEF Write, SaveInv, Saving
  <2>4. CASE Replace(c)
    <3>1. file' = tmp /\ at[c] = "replacing" /\ at[c] \in Saving
      BY <2>1, <2>4 DEF Replace, Saving
    <3>2. CASE ~crossed[c]
      <4>1. tmp = mine[c] /\ Pins(tmp) = mine[c]
        BY <3>1, <3>2 DEF SaveInv, HostsTypeOK, Pins
      <4>2. \A h \in Hosts : Pins(file)[h] # Unpinned => mine[c][h] = Pins(file)[h]
        BY <3>1, <3>2 DEF SaveInv
      <4> QED
        BY <3>1, <4>1, <4>2
    <3> QED
      BY <3>1, <3>2
  <2> QED
    BY <2>2, <2>3, <2>4
<1>2. HostsTypeOK /\ SaveInv /\ [Next]_vars
        => [\A h \in Hosts :
              /\ Pins(file)[h] # Unpinned
              /\ Pins(file')[h] # Pins(file)[h]
              => \E c \in Clients : crossed[c] /\ at[c] \in Saving]_hostVars
  BY <1>1
<1> QED
  BY <1>2, HostsTypes, SavesAlone, PTL DEF Spec, PinsKept
=============================================================================

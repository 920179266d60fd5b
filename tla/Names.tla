------------------------------- MODULE Names -------------------------------
(* Display names, from the form to the roster: normalize_name()            *)
(* (src/src/pychat/protocol.py), called by the form, by the client before   *)
(* it sends and by the server when it parses, and unique_name() with its    *)
(* tags (src/src/pychat/server.py).                                         *)
(*                                                                         *)
(* A name is a sequence of characters of an alphabet that has one of every  *)
(* kind the code tells apart.                                               *)
EXTENDS Integers, SequencesExt

CONSTANTS
    Users,
    Foreign,     \* users of another client, which sends what they type
    Typed,       \* Typed[u]: what u may enter in the form
    MaxName,     \* protocol.MAX_NAME_CHARS
    MaxClients   \* protocol.MAX_CLIENTS

Letters == {"a", "A", "e", "acute", "e_acute", "s", "sharp_s"}

Figures == {"0", "1", "2", "3", "4", "5", "6", "7", "8", "9"}

Space      == {"space", "tab"}   \* what split() splits at
Disallowed == {"tab", "zwsp"}    \* categories Cc, Cf, Cs, Co, Cn

Characters == Letters \cup Figures \cup Space \cup Disallowed \cup {"hash"}

Text == Seq(Characters)

ASSUME NamesAssumption ==
    /\ Foreign \subseteq Users
    /\ \A u \in Users : Typed[u] \subseteq Text
    /\ MaxName \in Nat /\ MaxName >= 3 /\ MaxClients \in 1..90

NoName    == <<>>         \* ProtocolError, or no name yet
Fallback  == <<"user">>   \* `user-` and six random digits, which nobody types

VARIABLES
    stage,     \* of each user: "form", "calling", "member" or "broken"
    settings,  \* Settings.name, which the form accepted, or what a foreign client sends
    name       \* Client.name on the server

vars == <<stage, settings, name>>

-----------------------------------------------------------------------------
(* normalize_name()                                                         *)

\* What the characters of s, one after the other, make of the empty text.
Fold(step, s) ==
    LET done[i \in 0..Len(s)] == IF i = 0 THEN <<>> ELSE step[<<done[i - 1], s[i]>>]
    IN  done[Len(s)]

\* NFC, for the one pair of the alphabet that composes.
Compose == [p \in Text \X Characters |->
    LET t == p[1]  ch == p[2]
    IN  IF ch = "acute" /\ t # <<>> /\ Last(t) = "e"
        THEN Append(Front(t), "e_acute") ELSE Append(t, ch)]

NFC(s) == Fold(Compose, s)

\* " ".join(s.split())
Blank(t) == t = <<>> \/ Last(t) = "space"

Space1 == [p \in Text \X Characters |->
    LET t == p[1]  ch == p[2]
    IN  IF ch \notin Space THEN Append(t, ch)
        ELSE IF Blank(t) THEN t ELSE Append(t, "space")]

Collapse(s) ==
    LET t == Fold(Space1, s)
    IN  IF t # <<>> /\ Blank(t) THEN Front(t) ELSE t

Refused(s) == Len(s) > MaxName \/ \E i \in DOMAIN s : s[i] \in Disallowed

\* Mutant of Normalize: formatting characters are dropped instead of refused.
NormalizeDropping(raw) ==
    LET s == SelectSeq(Collapse(NFC(raw)), LAMBDA ch : ch \notin Disallowed)
    IN  IF Refused(s) THEN NoName ELSE s

Normalize(raw) ==
    LET s == Collapse(NFC(raw))
    IN  IF Refused(s) THEN NoName ELSE s

-----------------------------------------------------------------------------
(* unique_name()                                                            *)

\* str.casefold(): sharp s becomes two letters, and a fallback stays itself.
Folded(ch) == CASE ch = "A" -> <<"a">> [] ch = "sharp_s" -> <<"s", "s">> [] OTHER -> <<ch>>

Lower == [p \in Text \X Characters |-> p[1] \o Folded(p[2])]

Casefold(s) == IF s = Fallback THEN s ELSE Fold(Lower, s)

Digits(k) ==
    LET d == <<"0", "1", "2", "3", "4", "5", "6", "7", "8", "9">>
    IN  IF k < 10 THEN <<d[k + 1]>> ELSE <<d[(k \div 10) + 1], d[(k % 10) + 1]>>

\* Mutant of Tag: the tag is appended and nothing trimmed.
TagUntrimmed(n, k) == n \o <<"hash">> \o Digits(k)

\* n with "#k", the base trimmed to make room for the tag.
Tag(n, k) ==
    LET tag == <<"hash">> \o Digits(k)
    IN  SubSeq(n, 1, Min({Len(n), MaxName - Len(tag)})) \o tag

Members == {u \in Users : stage[u] = "member"}

\* Mutant of Taken: the names as they are.
TakenExactly == {name[u] : u \in Members}

Taken == {Casefold(name[u]) : u \in Members}

\* Mutant of Numbers: as many tags as there are places, the base counted.
NumbersFewer == 2 .. MaxClients

Numbers == 2 .. (MaxClients + 2)

UniqueName(n) ==
    LET free == {k \in Numbers : Casefold(Tag(n, k)) \notin Taken}
    IN  CASE Casefold(n) \notin Taken -> n
          [] Casefold(n) \in Taken /\ free # {} ->
                Tag(n, Min(free))
          [] OTHER -> Fallback

-----------------------------------------------------------------------------
Init ==
    /\ stage = [u \in Users |-> "form"]
    /\ settings = [u \in Users |-> NoName]
    /\ name = [u \in Users |-> NoName]

Goto(u, s) == stage' = [stage EXCEPT ![u] = s]

\* The form (ConnectDialog._validate, or the checks of run_headless) accepts
\* what u typed; a refused name leaves it open.  A foreign client checks nothing.
Submit(u) ==
    /\ stage[u] = "form"
    /\ \E raw \in Typed[u] :
        /\ u \in Foreign \/ Normalize(raw) # NoName
        /\ settings' = [settings EXCEPT ![u] = IF u \in Foreign THEN raw ELSE Normalize(raw)]
    /\ Goto(u, "calling")
    /\ UNCHANGED name

\* What the client sends, and what the server makes of that.
Sent(u)    == IF u \in Foreign THEN settings[u] ELSE Normalize(settings[u])
Display(u) == Normalize(Sent(u))

\* A ProtocolError: in the client before it sends, or in parse_auth(), which
\* the user is told is a wrong password.
Break(u) ==
    /\ stage[u] = "calling"
    /\ NoName \in {Sent(u), Display(u)}
    /\ Goto(u, "broken")
    /\ UNCHANGED <<settings, name>>

\* The proof is right and the client registered.
Join(u) ==
    /\ stage[u] = "calling"
    /\ NoName \notin {Sent(u), Display(u)}
    /\ name' = [name EXCEPT ![u] = UniqueName(Display(u))]
    /\ Goto(u, "member")
    /\ UNCHANGED settings

\* The connection ends; the form, or a reconnect with the same settings.
Leave(u) ==
    /\ stage[u] \in {"member", "broken"}
    /\ name' = [name EXCEPT ![u] = NoName]
    /\ \/ Goto(u, "form") /\ settings' = [settings EXCEPT ![u] = NoName]
       \/ Goto(u, "calling") /\ UNCHANGED settings

Next == \E u \in Users : Submit(u) \/ Break(u) \/ Join(u) \/ Leave(u)

Spec == Init /\ [][Next]_vars

-----------------------------------------------------------------------------
\* A name that can be shown in one line of a roster: composed, of the right
\* length, its words apart by one space and nothing that is not seen.
Presentable(n) ==
    /\ n # NoName /\ Len(n) <= MaxName
    /\ {"space"} \cap {Head(n), Last(n)} = {}
    /\ \A i \in DOMAIN n : n[i] \notin Disallowed \cup (Space \ {"space"})
    /\ \A i \in 1..(Len(n) - 1) :
          <<n[i], n[i + 1]>> \notin {<<"space", "space">>, <<"e", "acute">>}

\* Whatever anybody types, a roster has only presentable names, tagged ones
\* included.
TypeOK ==
    /\ stage \in [Users -> {"form", "calling", "member", "broken"}]
    /\ settings \in [Users -> Text]
    /\ name \in [Users -> Text \cup {Fallback}]
    /\ \A u \in Users \ Foreign : (settings[u] = NoName) <=> (stage[u] = "form")
    /\ \A u \in Members : Presentable(name[u]) \/ name[u] = Fallback

\* No two members have names that differ only in case, whichever of them was
\* trimmed to fit a tag.
NamesDistinct ==
    \A u, v \in Members : u # v => Casefold(name[u]) # Casefold(name[v])

\* A name the form accepted is the name of the member, but for a tag: the three
\* places that normalise it agree, and neither the client nor the server
\* refuses it.
AsAccepted ==
    \A u \in Users \ Foreign :
        /\ stage[u] # "broken"
        /\ stage[u] = "member" =>
              name[u] \in {settings[u], Fallback} \cup {Tag(settings[u], k) : k \in Numbers}

\* The tags suffice even where handshakes that overlapped have let one member
\* too many in: trimming makes names equal, but never all of them.
TagsSuffice == \A u \in Members : name[u] # Fallback
=============================================================================

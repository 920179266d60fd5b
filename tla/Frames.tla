------------------------------- MODULE Frames -------------------------------
(* How large frames get on their way through the server: what a client may  *)
(* send, and what the room is sent for it (src/src/pychat/protocol.py,      *)
(* server.py, net.py).  Sizes are bytes of compact JSON without escapes,    *)
(* which only add to them; the literals are the lengths of the fixed text.  *)
EXTENDS Integers, FiniteSetsExt

CONSTANTS
    MaxFrame,    \* MAX_FRAME_BYTES, also the max_size of both ends
    MaxChars,    \* MAX_MESSAGE_CHARS
    MaxClients,  \* MAX_CLIENTS
    NameSizes,   \* bytes of the display names members may have
    Lengths,     \* characters of the messages they type
    TsBytes      \* digits of a timestamp

IdBytes == 16                  \* new_user_id()
Widths  == 1..4                \* bytes of a character in UTF-8

VARIABLES
    members,   \* how many members have a name of each size
    frame      \* size of the last frame the room was sent, 0 at first

vars == <<members, frame>>

TypeOK == members \in [NameSizes -> Nat] /\ frame \in Nat

Init == members = [n \in NameSizes |-> 0] /\ frame = 0

Base64(n) == 4 * ((n + 2) \div 3)

\* encode_envelope(): a nonce of 12 bytes and a tag of 16.
Sealed(n) == 26 + Base64(12) + Base64(n + 16)

\* What the client seals, and msg_frame() as the server relays it.
Typed(text)         == 21 + text
Relayed(name, text) == 50 + IdBytes + name + text + TsBytes

\* roster_frame()
Roster(m) ==
    25 + MapThenSumSet(LAMBDA n : m[n] * (24 + IdBytes + n + 1), NameSizes) - 1

Join(name) ==
    /\ MapThenSumSet(LAMBDA n : members[n], NameSizes) < MaxClients
    /\ members' = [members EXCEPT ![name] = @ + 1]
    /\ frame' = Sealed(Roster(members'))

Leave(name) ==
    /\ members[name] > 0
    /\ members' = [members EXCEPT ![name] = @ - 1]
    /\ frame' = Sealed(Roster(members'))

\* _send_inner() lets through what fits the frame; _on_message() relays it when
\* it is not too long in characters.
Message(name, chars, width) ==
    /\ members[name] > 0
    /\ Sealed(Typed(chars * width)) <= MaxFrame
    /\ chars <= MaxChars
    /\ frame' = Sealed(Relayed(name, chars * width))
    /\ UNCHANGED members

Next == \E name \in NameSizes :
    \/ Join(name)
    \/ Leave(name)
    \/ \E chars \in Lengths, width \in Widths : Message(name, chars, width)

Spec == Init /\ [][Next]_vars

-----------------------------------------------------------------------------
\* What the documentation says and the code does not do: a message the client
\* lets through is within the limit when the room receives it, and so is a
\* roster.  A frame over the limit ends the connection of every recipient.
FramesFit == frame <= MaxFrame
=============================================================================

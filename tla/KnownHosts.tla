----------------------------- MODULE KnownHosts -----------------------------
(* The file of pinned certificates (src/src/pychat/net.py), shared by the   *)
(* client processes of one user: _verify_certificate() and                  *)
(* save_known_host(), one action per system call, each client killed at any *)
(* of them.  Files behave as POSIX says: a rename moves the file an open    *)
(* descriptor refers to.                                                    *)

CONSTANTS
    Clients,    \* client processes; one saves at most one pin at a time
    Hosts,      \* keys host:port
    Certs,      \* fingerprints
    Unpinned,   \* no entry
    NoFile, Empty, Garbage   \* contents that are no dictionary

Pinnings == [Hosts -> Certs \cup {Unpinned}]
Contents == Pinnings \cup {NoFile, Empty, Garbage}
Nothing  == [h \in Hosts |-> Unpinned]

ASSUME PinsAssumption ==
    /\ Unpinned \notin Certs
    /\ \A x \in {NoFile, Empty, Garbage} : x \notin Pinnings
    /\ NoFile # Empty /\ NoFile # Garbage

VARIABLES
    file,       \* contents of known_hosts
    tmp,        \* contents of known_hosts.tmp
    at,         \* where each client is
    subject,    \* the host and fingerprint it is about
    mine,       \* the dictionary it read and added to
    target,     \* where the file it has open is now
    crossed,    \* history: its save overlapped another's
    alarm       \* history: somebody was told that an identity changed

hostVars == <<file, tmp, at, subject, mine, target, crossed, alarm>>

Saving == {"opening", "writing", "replacing"}

HostsTypeOK ==
    /\ file \in Contents /\ tmp \in Contents
    /\ at \in [Clients -> {"idle", "asking"} \cup Saving]
    /\ subject \in [Clients -> Hosts \X Certs]
    /\ mine \in [Clients -> Pinnings]
    /\ target \in [Clients -> {"none", "tmp", "file", "gone"}]
    /\ \A c \in Clients : target[c] # "none" => at[c] = "writing"
    /\ crossed \in [Clients -> BOOLEAN]
    /\ alarm \in BOOLEAN

HostsInit ==
    /\ file = NoFile /\ tmp = NoFile
    /\ at = [c \in Clients |-> "idle"]
    /\ subject \in [Clients -> Hosts \X Certs]
    /\ mine = [c \in Clients |-> Nothing]
    /\ target = [c \in Clients |-> "none"]
    /\ crossed = [c \in Clients |-> FALSE]
    /\ alarm = FALSE

-----------------------------------------------------------------------------

\* load_known_hosts(): what cannot be read or parsed is no pins.
Pins(contents) == IF contents \in Pinnings THEN contents ELSE Nothing

\* _verify_certificate() of host h that presents d.
Verify(c, h, d) ==
    /\ at[c] = "idle"
    /\ \/ /\ Pins(file)[h] = Unpinned
          /\ at' = [at EXCEPT ![c] = "asking"]
          /\ subject' = [subject EXCEPT ![c] = <<h, d>>]
          /\ UNCHANGED alarm
       \/ /\ Pins(file)[h] \notin {Unpinned, d}
          /\ alarm' = TRUE
          /\ UNCHANGED <<at, subject>>
    /\ UNCHANGED <<file, tmp, mine, target, crossed>>

\* The user accepts; save_known_host() reads the file and adds the pin.
Load(c) ==
    /\ at[c] = "asking"
    /\ at' = [at EXCEPT ![c] = "opening"]
    /\ mine' = [mine EXCEPT ![c] = [Pins(file) EXCEPT ![subject[c][1]] = subject[c][2]]]
    /\ LET others == {x \in Clients \ {c} : at[x] \in Saving}
       IN  crossed' = [x \in Clients |-> \/ x \in others
                                         \/ IF x = c THEN others # {} ELSE crossed[x]]
    /\ UNCHANGED <<file, tmp, subject, target, alarm>>

\* Mutant of Open: the file is written in place.
OpenInPlace(c) ==
    /\ at[c] = "opening"
    /\ at' = [at EXCEPT ![c] = "writing"]
    /\ file' = Empty
    /\ target' = [target EXCEPT ![c] = "file"]
    /\ UNCHANGED <<tmp, subject, mine, crossed, alarm>>

\* Path.write_text() creates or truncates the one temporary file of all.
Open(c) ==
    /\ at[c] = "opening"
    /\ at' = [at EXCEPT ![c] = "writing"]
    /\ tmp' = Empty
    /\ target' = [target EXCEPT ![c] = "tmp"]
    /\ UNCHANGED <<file, subject, mine, crossed, alarm>>

\* Writing over what somebody else wrote meanwhile leaves the end of it.
Overlay(old, new) == IF old = Empty THEN {new} ELSE {new, Garbage}

Write(c) ==
    /\ at[c] = "writing"
    /\ at' = [at EXCEPT ![c] = "replacing"]
    /\ target' = [target EXCEPT ![c] = "none"]
    /\ tmp'  \in IF target[c] = "tmp"  THEN Overlay(tmp, mine[c])  ELSE {tmp}
    /\ file' \in IF target[c] = "file" THEN Overlay(file, mine[c]) ELSE {file}
    /\ UNCHANGED <<subject, mine, crossed, alarm>>

\* os.replace(): fails when somebody else has moved the temporary file.
Replace(c) ==
    /\ at[c] = "replacing"
    /\ at' = [at EXCEPT ![c] = "idle"]
    /\ \/ /\ tmp # NoFile
          /\ file' = tmp /\ tmp' = NoFile
          /\ target' = [x \in Clients |-> CASE target[x] = "tmp"  -> "file"
                                            [] target[x] = "file" -> "gone"
                                            [] OTHER -> target[x]]
       \/ /\ tmp = NoFile
          /\ UNCHANGED <<file, tmp, target>>
    /\ UNCHANGED <<subject, mine, crossed, alarm>>

\* The user declines, the connection ends, or the process is killed.
Quit(c) ==
    /\ at[c] # "idle"
    /\ at' = [at EXCEPT ![c] = "idle"]
    /\ target' = [target EXCEPT ![c] = "none"]
    /\ UNCHANGED <<file, tmp, subject, mine, crossed, alarm>>

SaveNext == \E c \in Clients : Load(c) \/ Open(c) \/ Write(c) \/ Replace(c) \/ Quit(c)

-----------------------------------------------------------------------------

\* A pin that was saved is lost only when two saves overlapped: no kill between
\* two system calls and no connection to another host takes it out of the file.
PinsKept ==
    [][\A h \in Hosts :
          /\ Pins(file)[h] # Unpinned
          /\ Pins(file')[h] # Pins(file)[h]
          => \E c \in Clients : crossed[c] /\ at[c] \in Saving]_hostVars
=============================================================================

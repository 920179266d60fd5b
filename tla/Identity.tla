------------------------------ MODULE Identity ------------------------------
(* The server's certificate, key and salt on disk: load_or_create_identity() *)
(* (src/src/pychat/crypto.py) and the start of run() (server.py), with the   *)
(* process killed between any two system calls and started again.  A write  *)
(* that was made is kept: the machine itself does not lose power.           *)
EXTENDS Sequences

CONSTANTS
    Ids,       \* what a generation can produce: matching certificate and key
    Absent,    \* no such file
    Torn,      \* a file that was created and not written
    NoCert     \* nothing listens

ASSUME IdsAssumption ==
    /\ Absent \notin Ids /\ Torn \notin Ids /\ NoCert \notin Ids
    /\ Absent # Torn

Files == {"crt", "key", "salt"}

VARIABLES
    step,      \* where the start of the process is
    disk,      \* the contents of each file
    todo,      \* files the process has still to write
    open,      \* whether the first of them is open
    fresh,     \* what the process generated for them
    cert,      \* the certificate it listens with
    served     \* history: the first certificate the server ever listened with

serverVars == <<step, disk, todo, open, fresh, cert, served>>

ServerTypeOK ==
    /\ step \in {"down", "pair", "salt", "serving", "failed"}
    /\ disk \in [Files -> Ids \cup {Absent, Torn}]
    /\ todo \in {<<>>, <<"crt", "key">>, <<"key">>, <<"salt">>}
    /\ open \in BOOLEAN
    /\ fresh \in Ids
    /\ cert \in Ids \cup {NoCert}
    /\ served \in Ids \cup {NoCert}

ServerInit ==
    /\ step = "down"
    /\ disk = [f \in Files |-> Absent]
    /\ todo = <<>> /\ open = FALSE
    /\ fresh \in Ids
    /\ cert = NoCert /\ served = NoCert

-----------------------------------------------------------------------------

\* Mutant of Missing: a start always writes a new identity.
MissingAlways(fs, s) == s

\* The files to generate when some of fs do not exist.
Missing(fs, s) == IF \E f \in fs : disk[f] = Absent THEN s ELSE <<>>

Start ==
    /\ step = "down"
    /\ step' = "pair"
    /\ todo' = Missing({"crt", "key"}, <<"crt", "key">>)
    /\ fresh' \in Ids
    /\ UNCHANGED <<disk, open, cert, served>>

\* _write_private(): os.open() creates or truncates, os.write() fills.
OpenFile ==
    /\ todo # <<>> /\ ~open
    /\ disk' = [disk EXCEPT ![Head(todo)] = Torn]
    /\ open' = TRUE
    /\ UNCHANGED <<step, todo, fresh, cert, served>>

FillFile ==
    /\ todo # <<>> /\ open
    /\ disk' = [disk EXCEPT ![Head(todo)] = fresh]
    /\ open' = FALSE
    /\ todo' = Tail(todo)
    /\ UNCHANGED <<step, fresh, cert, served>>

\* Mutant of LoadSalt: a salt that exists is replaced.
LoadSaltAnew ==
    /\ step = "pair" /\ todo = <<>>
    /\ step' = "salt"
    /\ todo' = <<"salt">>
    /\ fresh' \in Ids
    /\ UNCHANGED <<disk, open, cert, served>>

\* A salt of the wrong length ends the process.
LoadSalt ==
    /\ step = "pair" /\ todo = <<>>
    /\ step' = IF disk["salt"] = Torn THEN "failed" ELSE "salt"
    /\ todo' = Missing({"salt"}, <<"salt">>)
    /\ fresh' \in Ids
    /\ UNCHANGED <<disk, open, cert, served>>

\* load_cert_chain() refuses a key that is not the certificate's; then serve().
Fits == disk["crt"] \in Ids /\ disk["crt"] = disk["key"]

LoadChain ==
    /\ step = "salt" /\ todo = <<>>
    /\ \/ /\ Fits
          /\ step' = "serving" /\ cert' = disk["crt"]
          /\ served' = IF served = NoCert THEN cert' ELSE served
       \/ /\ ~Fits
          /\ step' = "failed" /\ UNCHANGED <<cert, served>>
    /\ UNCHANGED <<disk, todo, open, fresh>>

\* The process is killed, or has ended, and may be started again.
Down ==
    /\ step # "down"
    /\ step' = "down" /\ todo' = <<>> /\ open' = FALSE /\ cert' = NoCert
    /\ UNCHANGED <<disk, fresh, served>>

ServerNext == Start \/ OpenFile \/ FillFile \/ LoadSalt \/ LoadChain \/ Down

-----------------------------------------------------------------------------

\* Once the server has listened its certificate, key and salt stay what they
\* are through every kill and restart: "the server generates and must keep its
\* own TLS identity", and every key derived from the salt depends on it.
IdentityStable == [][served # NoCert => UNCHANGED disk]_serverVars

\* A server that has ever listened never fails to start again: no kill leaves
\* files that exist and do not fit.
ServedStarts == served # NoCert => step # "failed"
=============================================================================

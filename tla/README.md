# A TLA+ development for pychat

pychat is a self-hosted group chat: one Python server (`src/src/pychat/server.py`)
that relays sealed messages between at most fifty members of one room, and a
client with a Tk window (`ui/app.py`, `ui/connect_dialog.py`) or a terminal
interface (`client.py`) over one network layer (`net.py`). Paths below are
relative to `src/src/pychat/`.

The modules here model the parts whose correctness depends on order: the tasks
of the server's asyncio loop, the network thread of the client with the threads
that call into it, the Tk thread with the queue it reads, and the processes that
share files. TLC checks them on small instances; TLAPS proves their safety
properties for every value of the constants.

1. Inventory of the system
2. Modules, in the order they were planned
3. How the models correspond to the code
4. What each run checks, its bounds and its fairness
5. What is proved
6. Where code and documentation disagree
7. What is not modelled
8. The plan from here

## 1. Inventory

| Component | State it keeps | Operations | Talks to |
|---|---|---|---|
| Chat room (`server.py`, `ChatServer`, `run`) | `clients`, each `Client`'s `name` and `departed`, `_shutting_down`, one handler task per connection | `handle`, `_authenticate`, `unique_name`, `broadcast`, `broadcast_roster`, `depart`, `_serve_client`, `_dispatch`, `_on_message`, `shutdown`, `run` | sockets of the websockets library; lockout; rate limit |
| Message rate limit (`Client.rate_limited`) | a deque of send times per client | called for each message | the room |
| Lockout (`LockoutTracker`) | failure times and lock end per address | `is_locked`, `record_failure`, `record_success` | overlapping handshakes of one address |
| Server identity on disk (`crypto.load_or_create_identity`, `_write_private`, `server.build_ssl_context`) | certificate, key, salt | generated on first start, loaded on every other | file system, TLS |
| Network client (`net.NetworkClient`) | one thread with an event loop: `_ws`, `_key`, `_stopping`, the pending prompt; counters of `_main` | `_main`, `_session`, `_verify_certificate`, `_authenticate`, `_read_loop`; from other threads `start`, `stop`, `send_message`, `answer_certificate` | server; event queue; `known_hosts` |
| Known hosts (`load_known_hosts`, `save_known_host`) | one JSON file and one temporary name for all processes of a user | load, save (write, then replace) | network clients |
| Chat window (`ui/app.py`) | `client`, `_connected`, `dialog`, reconnect button | the pump `_drain_events`, `_handle_event`, `_fail`, `_ask_about_certificate`, `_manual_reconnect`, `quit_app`, `send_current` | one network client's queue |
| Connect dialog (`ui/connect_dialog.py`) | form or busy | `_submit`, `_cancel`, `set_busy`, `show_failure` | the window's callbacks |
| Wire protocol (`protocol.py`) | none | envelopes, frames, parsing, `normalize_name` | everything |
| Headless client (`client.py`) | a printer thread and an input loop | commands, `send_message`, `stop` | network client |
| Cryptography (`crypto.py`, the rest) | none | key derivation, proofs, sealing | server and client |
| Configuration, widgets, theme, deployment | – | – | – |

What is hard about them, and what makes them correct:

* **Chat room.** Every `await` lets other tasks run. A broadcast gathers one
  send per recipient, then awaits the departure of every recipient whose send
  failed; a departure closes a socket and broadcasts twice, so it finds failures
  of its own. A departure is noticed by a broadcast and by the client's own
  handler. Correct means: a leave is announced once; names are distinct; when
  nothing is under way everybody was sent the roster that is true; a dead client
  is removed; tasks do not wait in circles; the process ends with nobody left
  registered.
* **Rate limit and lockout.** Boundaries (an entry exactly as old as the window)
  and handshakes that passed the check before the lock. Correct means: no window
  with more than the limit, no refusal without a full window, no lockout that was
  not earned, none that is lifted or cut short by a handshake in progress.
* **Network client.** One coroutine, but callbacks from two other threads run
  between any two of its turns, on whatever connection there is at that moment.
  The file of pins is read again on every attempt, and others write it. Correct
  means: nothing that depends on the password reaches a server that is
  not pinned, a pin is only what the user accepted, `stop` stops, retries end,
  and the events on the queue come in an order the window can work with.
* **Window and dialog.** The certificate prompt runs an event loop inside the
  pump, so user callbacks run in the middle of handling an event. Correct means:
  the window never takes a dead session for a live one, a client it lets go of
  ends, and the user is never left with a busy dialog or without a way on.
* **Files.** Kills between any two system calls; several processes and one
  temporary name. Correct means: an identity that was ever served never changes,
  a pin is not lost, and the identity alarm is never false.
* **Terminal client.** Two threads read one standard input and share one flag; the
  printer may be killed by an end of file or a closed loop. Correct means: a script's
  last line ends the process, the end of the client is noticed, and only an end is.
* **Names.** Normalised in three places, compared without case and tagged by
  trimming. Correct means: what the form accepted is neither refused nor changed but
  for a tag, and no two members look alike but for case.
* **Client and server together.** Either side may believe in a session the other has
  seen the end of, and a message may overtake the proof on a new connection. Correct
  means: a connected client is a member, old sessions go, refusals are meant.
* **Wire protocol.** Sizes: what the client checks is not what the server sends.

`PROJECT.json` lists every hazard at its line with the properties that cover it,
and says of the uncovered ones why.

## 2. Modules

In the order of the plan, the most important behaviour first:

| Module | Models | Composes |
|---|---|---|
| `Room` | the abstract specification of the room: membership, names, leaves announced | |
| `ChatRoom` | the room: handlers, broadcasts, departures, shutdown | implements `Room` |
| `MCChatRoom` | instances of it: names that collide when trimmed | `ChatRoom` |
| `ChatRoomProofs` | theorems about it, with the safety of the refinement of `Room` | `ChatRoom` |
| `SlidingWindow` | the clock and the deque both limiters count with | |
| `RateLimit` | `Client.rate_limited` | `SlidingWindow` |
| `Lockout` | `LockoutTracker` and the handshakes of one address | `SlidingWindow` |
| `MCLimiters` | an instance of both, which share only the clock | `Lockout`, `RateLimit` |
| `LimiterProofs` | theorems about both, and lemmas about the deque | `Lockout`, `RateLimit` |
| `NetClient`, `MCNetClient` | the network thread and the calls of the others | implements `EventFlow` |
| `NetClientProofs` | theorems about it, with the safety of the refinement of `EventFlow` | `NetClient` |
| `EventOrder` | what a client may say next, as an operator | |
| `EventFlow` | the abstract specification of a client: `EventOrder` as a state machine | `EventOrder` |
| `ClientThreads` | what both front ends share: network clients that behave as `EventOrder` says, one after the other | `EventOrder` |
| `ChatApp` | the window: Tk thread, prompt, user | `ClientThreads` |
| `Headless` | the terminal: printer, input loop, standard input | `ClientThreads` |
| `ClientMain`, `ClientMainProofs` | the process, with either front end | `ChatApp`, `Headless` |
| `Identity` | the server's files and its start | |
| `KnownHosts` | the file of pins and the clients that share it | |
| `Trust`, `TrustProofs` | servers, clients and files together | `Identity`, `KnownHosts` |
| `Frames` | sizes of frames from client to room | |
| `Names`, `MCNames`, `NamesProofs` | display names, character by character | |
| `Session`, `MCSession` | client and server end to end: handshake frames, reconnects | `NetClient`, `ChatRoom` |
| `SessionProofs` | theorems about it, from the lemmas about the two sides | `Session`, `NetClientProofs`, `ChatRoomProofs` |

`EventOrder` is where the two halves of the client meet: `NetClient` is shown to
implement it (`ImplementsFlow`, with liveness), and `ClientMain` is checked against
any client that does, so that the properties of window and terminal do not depend
on details of the network thread. `Session` is where client and server meet: it takes
both specifications as they are (`Net`, `Server`), with the frames of the handshake
between them in place of the free choices each makes alone.

A definition named `Mutant of X` in a comment is a variant of `X` that a
plausible mistake would give; no specification uses it. `PROJECT.json` pairs
each checked property with one that breaks it.

## 3. How the models correspond to the code

Common to all of them: definitions keep the names of the methods they model,
comments name the method where the name had to change, and `PROJECT.json`
`map` gives the lines of each. Text, themes, logging and the contents of
messages are left out. Cryptography is a judgement, not a computation: a proof is
right or wrong, a frame decrypts or does not.

**ChatRoom.** The server is one asyncio loop, so the code between two awaits
that really suspend is one action.
* `pc[c]` is where the handler of connection `c` waits; `dpc[c]` where the one
  effective `depart()` of its client waits and `owner[c]` which task awaits it.
* A broadcast of a task `t` is three sets: `wait[t]` (sends not completed),
  `fail[t]` (sends that raised), `kids[t]` (departures gathered and not yet
  started). `Cleanup` is the code after the first `gather`, `RunKid` the first
  turn of a gathered departure, `Returned` the end of the second `gather`.
* A send to an open transport completes in the turn it is made. A peer that does
  not read stalls its transport (`Stall`); sends then wait until it reads again,
  or until the keepalive (20 s interval, 20 s timeout) or anything else ends the
  connection, when they raise.
* Frames a peer had sent stay readable after its connection ended, so the read
  loop may relay several more messages before it ends (`ServeEnd`).
* Malformed frames and repeated decryption failures both end in `Expel`. The
  lockout is `Refuse`, possible for any connection; `Lockout` models when it is.
  A reply to the client's own socket blocks only when that socket is stalled.
* `name` holds casefold classes, which is what `unique_name` compares; `Tag`
  appends `#k` and trims. `roster[c]` is the last roster sent to `c` while it is
  connected, as a set of clients.
* `LibClose` is the exit of `async with serve(...)`: websockets starts a close for
  every connection in one turn and waits for the handlers. `shutdown()` runs
  after it, as in `run()`.
* `leftCount` (announced leaves) is a history variable, `UniqueName` returns the
  set of names the code may return (the fallback is random).

**Room.** `Status` maps a connection of `ChatRoom` to `outside`, `member`, `gone` or
`announced`, and `Abstract` is the refinement mapping. One broadcast may remove several
members at once (`Remove(S)`), each of which is announced by its own departure.
`Status` has a value of its own for a leave announced twice, which `Room` does not
reach: a second announcement, a shared name or a join after the shutdown would be no step of it, and its fairness says that every departure is
announced while the room is open. Ghosts (section 6) are members to it.

**Names.** A name is a sequence of characters of an alphabet with one of each kind
the code tells apart: letters, a pair that NFC composes, a letter whose casefold is
two letters, whitespace that is and is not a control character, a
formatting character, one of each named by a word (`"space"`, `"hash"`). `NFC`, `Collapse`
and `Casefold` go through a text from its first character to its last (`Fold`), each with
a function that says what one more character does. `Normalize` is applied in the three places the code applies it
(the form, `_authenticate` of the client, `parse_auth`). Users in `Foreign` have a
client of another make, whose names only the server normalises; it may send an empty
one. All fallbacks are one name, though in the code they differ by a random number:
the model never gains from that difference. `ChatRoom` has casefold
classes as names, which is exact as long as names of one class are trimmed alike;
a class with names of two lengths is what `Names` adds.

**Session.** `conn` is the connection the client holds; the server's handlers of
earlier ones run on. `first[c]` is what the server will read on `c` in place of a
proof, `heard` the handshake frames on their way to the client, `right` whether the
typed password is the room's. Every action is one of `Net` or of `Server`, or a
pair of them that a frame ties together; what a side reads after the handshake is
left to its own module, as are the stop signal and certificates that differ. The client
may start with its key and pin (`Returning`): a server restarted normally. Others may
change the file of pins here too. A wrong
proof and a malformed first frame are answered alike (`Reject`). `TurnAway` may
always say `rate_limited`, since other clients share the address.

**SlidingWindow, RateLimit, Lockout.** Time is a discrete monotonic clock;
`Popped(s, k, ..)` says that the `while` loop pops exactly `k` entries. `accepted`
and `failed` are histories the properties compare the deques with. `Lockout`
is about one address: entries of different addresses never meet. The names of
`RateLimit` begin with `Rate`, so that `LimiterProofs` can extend both.

**NetClient.** `at` is the await the thread is at, from `_main` down to
`_read_loop`. `posted` are the callbacks of `call_soon_threadsafe`; one of
them runs between any two steps (`Callback`), and also while a session is being
torn down. `said` is the latest event, `shown` what the window's `_connected`
will be once it has read all of them. The server and the network are free: any
certificate, any refusal, any end at any time.
`known_hosts` belongs to all clients of a user and is read anew on every attempt
(`net.py:415`). `pinned` is what it would give for this server now; `Elsewhere` changes
that between any two steps, as another client's save, an edit by the user or a file that
cannot be parsed does. `ConnectOk` reads it, the save after a yes overwrites whatever is
there by then (`CertAccepted`) or fails because another save has taken the temporary file
(`CertUnsaved`). `known` is what this client last read or wrote there, and `lost` remembers
that the entry has been taken away; both serve the properties only. `_main` reads the stop flag twice
after a session (`net.py:333`, `361`), and a stop that comes between the two leaves a
`Disconnected` before the end: the second disjunct of `Retry`.
A TLS connection always has a certificate, so the two errors for one without are left out.

**EventOrder, EventFlow.** `After(stage, before, stopping, verdict)` is the set of
things a client may do by itself, with the events each puts on the queue.
`EventFlow` turns it into a specification with the two things other threads may
do (`Stop`, `Answer`). `NetClient!Flow` is the refinement mapping: `Stage` sends
the awaits to stages, and `closing` to the stage the pending outcome leads from.

**ChatApp.** Tk runs one callback at a time. `tk` is the main loop, a turn of
the pump (`"drain"`, of client `draining`, with `budget` events left) or the
prompt's own loop inside such a turn. The user's actions are possible in both
loops: the prompt asks for a grab only after 100 ms, and a refused grab is
swallowed. The pump does not run while a prompt is open, because it is
rescheduled at its end. The queue of a client nobody reads any more is dropped.
`crossed` is a history: an answer to the prompt of one client has gone to another
that was asking meanwhile. From then on what the window believes is not promised
(section 6 says what may follow).

**ClientThreads, Headless, ClientMain.** `mode` is the `--headless` argument. In the
terminal, `printer` and `input` are the two threads; `reader` is who is inside
`input()`, since a lock of standard input lets only one of them in: a line goes to
whoever has it, so an answer to the prompt may be read as a message. A pipe that ran dry raises
`EOFError` for both, `Ctrl-D` at a terminal for one. `answer_certificate()` is two
steps in the printer (`Pending`, `AnswerPrompt`), because the loop may close between
its look at the prompt and its call, which then raises and kills the thread; in the
window the pump catches that, so there one step is enough. `Goodbye` sets the flag and
stops the client; exiting ends the daemon threads.

**Identity, KnownHosts, Trust.** One action per system call, the process killed
between any two. A write that was made is kept: a crash of a process, not of the
machine. `Torn` is a file that was created and not yet filled. Files behave as
POSIX says: `os.replace` moves the file that another process may have open
(`target`), and writing into a file that somebody else filled may leave the end
of it (`Overlay`, `Garbage`). A client's fingerprint of other servers never
changes (`Foreign`). `served`, `crossed` and `alarm` are histories.

**Frames.** The sizes of sealed frames, byte for byte: the literals are the
lengths of the fixed JSON text, checked by hand against the encoder. Characters
that JSON escapes only make frames larger.

## 4. Runs

All runs check for deadlock except `client_main`, where the window may be closed, the
terminal exited and TLC's two clients used up.

| Run | What it shows | Bounds |
|---|---|---|
| `room_two` | two members with every kind of interleaving: distinct names, leaves announced once, rosters that converge, tidy exit; dead members leave, broadcasts return, a stop signal ends the process; the server implements `Room` | 2 connections, both sending; capacity 1; names that collide when tagged; stop signals |
| `limiters` | never more than the limit in a window, refusals only with a full window; lockouts earned, and held against handshakes in progress | 3 messages per 3 instants; 2 failures in 2 instants, lock of 3, 2 handshakes at a time; 9 instants |
| `client` | secrets only after the pin, unless the pin was lost (section 6); pins only as asked, the window's belief, stopping, the end of retrying, and that the client implements `EventFlow` | 2 identities, 2 pending callbacks, 3 attempts; the file changes at any moment |
| `session` | a connected client is a member; the proof is read first; a wrong password is only said of one, but for a message sent during a reconnect; sessions left behind leave the room | 2 connections of one client, capacity 1, 2 attempts, 1 pending callback |
| `client_main` | window: its belief, a client it let go of ends or is in a session its stop came too early for (section 6), the busy dialog ends, there is a way on; terminal: the end of a pipe ends the process, the end of the client is noticed, only an end is taken for one | 2 clients in a row, queue of 4, 3 events per turn |
| `names` | rosters of presentable names, distinct but for case; accepted names are neither refused nor changed but for a tag; tags suffice | 3 users with capacity 2, names of at most 3 characters; one user types anything of up to 4 characters out of 8, the others names that collide, one of them with a foreign client |
| `trust` | the served identity is kept, the server starts again, no false alarm, pins kept | 2 clients, 2 hosts, 2 generations |
| `room_ghost`, `client_pin`, `client_stop`, `client_drop`, `frames` | the disagreements of section 6 | as above |

The type invariants and the inductive invariants of the modules with proofs (`RosterInv`,
`Window`, `Tracked`, `TypeOK`) were found with TLC; being proved for every
instance they have no run of their own any more, except the type invariants that say
something about the code: that of `Names`, by which names are presentable, and that of
`Session`, which has the one of `ChatRoom` in it.

Why the bounds are enough to be interesting. In `room_two` the capacity of one
does not prevent two members, since overlapping handshakes pass the check
together; so the second base name and the tag that collides with it both
occur. Two members are enough for a broadcast to fail, its departure to fail
on the other, and both to meet the shutdown. What a third connection would witness,
that the leave of each of two others is told once and its last roster is true, is proved
for any number of them (section 5).
In `session` two connections are the fewest with a session left behind, and a capacity
of one makes it stand in the way of the next one. Its action constraint `Representative`
leaves out no case: connections that are interchangeable are dialed in one order, and the
file of pins changes only where the next step may read it. `limiters` looks at the rate limit
and at the lockout by turns (`OneBusy`), since the two share nothing but the clock. In `names` four typed characters
over a limit of three give every way to be too long, or to become short enough by composing and
collapsing; one- and two-letter names with two-character tags make every
trimming collide; the third user is the one member too many that overlapping
handshakes let in. Nine instants are three windows of `RateLimit`, and a lockout,
its end and a second one. Two clients in `client_main` are the fewest with a stale prompt, a
stale verdict and a stale queue. The code takes up to 200 events in a turn of the pump;
three are the fewest with which one turn can open a prompt for a question that is
already answered and then read the `Connected` that followed, and a turn can still end
between any two events of a longer batch. In `trust` a third client would add only a third
overlap of the same two kinds of step.

`Horizon`, `MaxPending`, `MaxFailed`, `MaxPosted`, `MaxQueued`, `MaxTyped` and
`MaxClients` of `ClientThreads` exist for TLC only; `MaxAttempts`, `MaxName` and the
`MaxClients` of `ChatRoom` and `Names` are the code's, made smaller. `FewFailed` and
`OneBusy` are state constraints of a run without liveness.

### Fairness

* **ChatRoom.** A ready task of the loop runs (weak). A stalled transport
  recovers or is given up by the keepalive (weak). A handshake ends by its
  timeout (weak). `ServeEnd` is strongly fair: the buffer of a dead connection
  is finite, but each frame left in it takes the handler out of the read loop
  and back. Nothing is assumed of peers: they need not read, send or leave.
* **NetClient.** Every wait of the thread has a timeout or a poll, and callbacks
  run (weak), except that a server may keep a session open for ever
  and a user may never answer: `Verify` is enabled only by an answer or a
  stop, and `ReadEnd` is fair only once this side closed the socket.
* **Session.** One weak fairness for all of the server's loop and for the end of
  connections the client no longer holds, which the keepalive sees to. Nothing is
  assumed of the client: `OldSessionsLeave` holds for one that never comes back.
* **EventFlow**, **ClientMain.** The same for a client as a whole: weak fairness of
  its steps except in an established session. The pump is an `after` callback
  (weak), as are the steps of the terminal's threads; the lock of standard input goes to somebody
  (weak), and a pipe that ran dry raises at whoever reads it. The user owes nothing, so `BusyEnds` and `WayOut` accept an open
  prompt as an end of the wait.

## 5. Proofs

`tlapm` checks every leaf. The only assumptions are the named `ASSUME`s on
constants in the models, and the hypotheses two theorems of `NamesProofs` state. No other
theorem assumes that a set is finite: even `Conns` may be infinite, since no other proof
counts.

**ChatRoom** (`ChatRoomProofs`).
* `TypeCorrect`.
* `LeaveOnce`. Inductive with: a leave was announced only for a client whose
  effective departure is past its close, and a departure takes effect once,
  because the flag is set in the turn it is tested.
* `NamesDistinct`. By `UniqueName`'s choice outside `Taken` and registration in
  the same action.
* `RosterInvariant`, from which `RostersConverge`. That everybody
  has the true roster when nothing is under way is not inductive: between a change
  of the registry and the roster that follows it, everybody is out of date.
  `RosterInv` says that then somebody still owes the roster (`Owed`): a
  newcomer at `joined`, a departure before its roster broadcast, or a
  gathered departure of a client not yet marked as departed. Its other parts keep the
  argument honest at the edges: a task outside a broadcast has no leftovers
  (`CastsTidy`), connections in their handshake are not clients of anything
  (`StrangersUnknown`), and being registered excludes having departed until the
  shutdown (`DepartedGone`). `Cleanup` is the delicate step: it removes a client
  from the registry before its departure has begun, and the debt is the
  unstarted departure itself. Ghosts (section 6) are exempt on both sides.
* `ExitsClean`, by `ShutdownInv`. A departure cut short by the end of the loop would be
  one that nobody main waits for awaits any more. `Awaited`: every departure under way is
  awaited by a live task, a handler or main itself or another departure. That does not
  exclude departures that await one another in a circle; `Rooted` does: of every
  nonempty set of departing clients, one is awaited by a task that is not the departure of
  one in the set. It is kept because a departure is started by a task that is already
  there. So every chain ends in a handler or in main, and when main has waited for all
  handlers and for its own gathering, no departure is left (`WoundUp`).
* `RegistryIsRoom`, the safety part of `ImplementsRoom`: `Room!Init` and `[Room!Next]`
  follow from `Init` and every step, through `Abstract`. `RoomInv` has what the mapping
  needs: everybody registered has a name (`KnownNamed`), everybody who left the registry
  will announce it (`GoneDeparts`).

**Client** (`NetClientProofs`).
* `SecretsPinned`, by `ConnectionInv`: past the check of the certificate the
  fingerprint of the connection is the one this client read in the file or put there
  (`known`), which is not always what the file says by now. The callbacks make
  it delicate: the socket is stored before the check (`net.py:394`), so a message
  submitted while the user is asked finds a socket that is not verified. Without a key it is
  not sent; with one it is, and then the pin was there when the key was derived and has
  been taken away since. That is the second part of `PinnedUnlessLost`, and the
  finding `client_pin`.
* `OnlyAskedPinned`, an action property; `ShownConnected`, with `ProgressInv`, which
  says what `said` and `closing` may be at each await.
* `KeepsFlow`, the safety part of `ImplementsFlow`: each action is a step of `EventFlow` or
  a stutter. `Callback` runs between any two awaits and during a close, so the outcome
  chosen before a close has to be one the stage still leads to (`closing`).

**Front ends** (`ClientMainProofs`), for any number of clients, any length of queue and any
number of events in a turn.
* `EndIsMeant` (`TerminalInv`): the input loop goes on account of a client only when that
  is over, since `Final` events are the last on a queue (`EndsLast`, `EndsTold`).
* `ConnectedMeant`. The lemma `WhatFollows` says of `EventOrder` what each stage may say
  and lead to; `QueueInv`, that the end of a client is its last event but `Stopped`, and that
  behind a `Connected` not yet read is its end, or there was none; `AnswersInv`, that an
  open prompt is about an open question, that a client dropped under its prompt can only
  end, and that the window's belief has a session or word of its end behind it. The
  attempt to prove it showed that the property, checked with two events per turn
  until then, fails with three: after an answer that went to the wrong client
  (section 6). Hence `crossed`, and three events per turn in the run.

**Client and server** (`SessionProofs`). `SidesStep`: a step of `Session` is a step or
a stutter of `Net` (from one of its own initial states or from `Returning`) and of
`Server`. So what the lemmas of the two sides say of a step holds here, cited through
the instances, and their invariants are invariants of `Session`: `RoomServed` and
`ClientServed` restate the properties of `ChatRoom` and `NetClient` for two sides
that answer each other and for a client that returns with key and pin, while others
change the file. The first follows from
the room's theorems, since `Spec` implies the room's specification; the second needs the
lemmas about steps, since `Returning` is no initial state of `NetClient`.
* `ConnectedInRoom`, `ProofComesFirst`, `RefusalsMeant`, by `LinkInv`: which frames may be
  under way at which await of the two sides (`LinkTypes`, `Held`); what the server
  has read first (`FirstRead`); what the frames under way say of the server
  (`HeardInv`, whose `Tells` says that an `auth_ok` under way means that the handler
  serves its client or has seen its end); and when a refusal may be on its way (`Refusal`).
  `SessionAssumption` repeats the assumptions of the two sides, as an instance needs them.

**Limiters** (`LimiterProofs`, which extends `Lockout` and `RateLimit`: both take the time
from the clock of `SlidingWindow`). `Window`:
the deque is the end of the history and the rest of the history is stale. The
lemmas on `EndOf` and `RestStale` say what popping, appending and
the passing of time do to that. `RateCorrect` and `LimitJust` follow for every
limit and width. `Tracked` is the same for failures since the latest success;
`LockoutsEarned` and `LockoutsHold` are action properties from it.

**Trust** (`TrustProofs`).
* `IdentityInv`: from the first service on the files are complete and fit, the
  process has nothing to write, and what is served is the served identity. Hence
  `StartsAgain`, `IdentityKept`.
* `PinsInv`: whatever is in the file of pins, in the temporary file, in a dictionary
  in memory or on a user's screen is the genuine fingerprint of its
  host, which for our server needs `IdentityInv`. Hence `AlarmsMeant`.
* `SaveInv`: among saves that do not overlap, the dictionary about to be written
  contains the pins of the file. Hence `PinsStay`.

**Names** (`NamesProofs`), for texts of any length over the characters of the model, any set
of users, any limit of at least three characters and any capacity of at most 90, since
a tag then has two figures at most.
* Induction over texts. The library states induction for operators, which the provers
  cannot instantiate; that inclusion of finite sets is well-founded it states for sets.
  From that, a set of naturals has a least element (`Least`), and induction over numbers
  (`Counting`) and sequences (`Growing`) follow, for a set in place of a property.
* `FoldStep`: what `Fold` makes of a text with one more character. `Fold` is a recursive
  function, so first there has to be one that satisfies its equation (`TraceExists`).
* `NormalizePresents` and `NormalizeSame`: what `normalize_name()` returns is presentable,
  and what is presentable it leaves alone. The delicate part is the order of its steps:
  collapsing the space must not bring together an `e` and an accent that NFC would have
  composed (`WordsComposed`), or a second call would change the name.
* `TagPresentable`: the base a tag leaves may end in a space, but the hash follows it.
  `TagsApart`: two tags never make one name of one name, though a tag of two figures
  trims the base by one more than a tag of one figure, and casefolding may lengthen it.
* `TypeCorrect`, `NamesAsAccepted`, `MembersAlike`, by `Inv`. A foreign client may break;
  ours does not, since it sends only what `NormalizeSame` speaks of. `MembersAlike` has no
  hypothesis: in a room of any size, two members alike but for case are both called by
  a fallback.
* `FallbackWhenFull`, an action property: who is called by a fallback finds more members than
  the capacity. By the pigeonhole principle, from `TagsApart`: there is one tag more than
  the capacity, and each member takes one of a name at most.
* `TagsDoSuffice` and `NamesAreDistinct` follow where there is at most one user more than the
  capacity, which is their hypothesis; it cannot be dropped, since capacity plus two
  users with one name are enough for a fallback.
The attempt to prove `TypeOK` corrected it: a foreign client may have sent an empty name, so
that only our own has no name exactly while its form is open.

Only model-checked is everything under fairness, and `ENABLED`, which are outside the
prover's reach: `DeadLeave`, `BroadcastReturns`, `StopCompletes`, `RetryEnds`,
`StopWithSocket`, `DroppedEnds`, `BusyEnds`, `WayOut`, `EofEnds`, `EndNoticed`, `OldSessionsLeave`, and the
liveness of the refinements `ImplementsFlow` and `ImplementsRoom`.

## 6. Where code and documentation disagree

Each has a run that exhibits it and an entry under `findings`.

* **Ghost members** (`room_ghost`, `server.py:333`). When sending `auth_ok` raises,
  the client is registered but nobody departs it. It stays in the roster, and
  holds its name and a place, until a broadcast fails on it.
* **A message to a server that is not verified** (`client_pin`, `net.py:394`). A client
  that reconnects reads the file of pins again. When its entry is gone by then (two saves
  that overlapped, an edit, a file that cannot be parsed and counts as empty), it asks about the
  server, with the socket stored and the key of the last session in hand: a message
  posted while the question is open is sealed and sent, although the docstring of
  `_pinning_ssl_context` says that verification comes "before anything is sent".
  `PinnedUnlessLost` is the promise the code keeps: it takes all of a key, a lost pin and an
  open question, and the proof is never sent that way.
* **A stop that does not stop** (`client_stop`, `net.py:271`). Called during
  `connect()` it finds no socket to close, and the session that follows is not
  ended by the flag. `StopWithSocket` is the promise the code keeps. For the window this means
  that a client given up by Cancel may authenticate and read on in the
  background: `DroppedEnds` allows a session as an end of the wait for that reason.
* **A lost session counts as a failed attempt** (`client_drop`, `net.py:349`). Only a
  normal close counts as success; a first session that worked and was cut off
  is not retried.
* **Frames that grow** (`frames`, `server.py:407`). The client's size check does not
  count what the server adds. A full room of long names is over the limit too.

Met while modelling, and left in prose. One contradicts a docstring that
no run quotes: `run()` has closed every connection before it calls `shutdown()`
(`server.py:494`), so nobody is left for it to "tell" (`server.py:412`); in `ChatRoom` the
broadcast of `MainShutdown` finds only closed sockets. Of the others no sentence of the documentation
speaks: handshakes that overlap can exceed `MAX_CLIENTS`, as the limit is
checked before the proof (`server.py:290`, `331`); a message submitted during a
reconnect is sealed with the old key and sent before the proof, which the server
answers as a wrong password, so that the client ends without a retry (`net.py:394`, `512`; `session`
shows that this is the only way to be told so with the right one); a client that
reconnects before the server has noticed the end of its old connection may be
refused by a room that is full with itself (`server.py:290`); in the terminal a line
meant for the certificate prompt may be sent as a message, and an end of file at
the prompt leaves a printer that says nothing more, while the input loop goes on until it
ends too (`client.py:137`); a prompt answered after the user
cancelled and connected again gives its verdict to the new client, and events
left in the pump's turn are taken for the new client's (`ui/app.py:391`, `292`); such
an answer may come before the new client's own question is shown, whose prompt then
opens late: cancelling it returns to the form, as `ui/connect_dialog.py:289` means it
to, but the `Connected` of the client just given up is still read in the same turn and
closes the dialog over a window that believes itself connected and has no client; a
kill during the very first write of key or salt leaves a server that never
starts until the files are removed (`crypto.py:245`); two saves that overlap can
lose a pin, so that the user is asked again (`net.py:174`; what may be sent meanwhile is the finding `client_pin`); and the
Reconnect button after a failure only says that the password is needed
(`ui/app.py:567`).

## 7. Not modelled

* Key derivation, proofs and sealing: calls without state into a library, whose
  outcome is a free choice where it matters.
* `Config.from_env`, logging, arguments: read once.
* Widgets, themes, drawing, the log and its limit.
* Preferences: hints for the form, written like the pins. So `ChatApp.Enter` leaves out that
  `save_prefs` may raise (`ui/app.py:271`): the pump logs that and goes on, with
  the chat's flag set and the dialog still open and busy over it (`ui/app.py:273`), which
  `BusyEnds` says nothing of.
* JSON and base64 syntax of frames: in the models a frame is well formed or not, and
  `parse_*` of the wrong kind is one of the ill-formed.
* Host, port and password in the form: each compared with constants.
* Loss of power, a full disk, a second server on the same directory.
* Deployment files, packaging, tests and the demonstration script.
* websockets, asyncio, TLS and Tk themselves: external, as section 3 describes
  them. Their model is what the code relies on.

## 8. The plan from here

The models of the plan are written and every safety property a passing run checks is
proved. What is left: `Session` with the stop signal of the server, which it leaves out.

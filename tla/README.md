# epoll-chat-server in TLA+

A verification development of the chat server in `src/`: TLA+ modules that
follow its handlers, TLC configurations that check them on small instances, and
TLAPS proofs of the main invariants for every size. Names in the modules are
the names of the code wherever TLA+ allows it; `PROJECT.json` maps every
definition to the lines it stands for.

## The system

One thread runs `ChatServer::run`: an edge-triggered epoll loop that accepts
connections, reads lines, runs one handler per line to completion and writes
what handlers have appended to the output buffers. Nothing is stored on disk.

| Component | State | Operations | Talks to |
|---|---|---|---|
| `server/chat_server` | `clients_`, `rooms_`, `server_fd_`, `epoll_fd_` | `run`, `accept_new_client`, `handle_client_read`, `handle_client_write`, `disconnect_client`, `process_message`, `broadcast`, `join_room`, `leave_room` | calls every other component; owns the clients and rooms |
| `command/command_handler` | none of its own (friend of `ChatServer`) | `execute` and six handlers | the server's tables, `join_room`, `broadcast`, `queue_message` |
| `command/command_parser` | none | `parse`: line to command | called by `execute` |
| `room` | `password_`, `user_count_` | `setPassword`, `verification_password`, the two counter operations | called by server and handler |
| `client` | `state`, `nickname`, `room_`, `connected_room_`, `in_buffer`, `out_buffer`, `want_write` | `queue_message`, `handle_write` | epoll interest of its descriptor |
| `network/socket_utils` | descriptors | `create_server_socket`, `set_nonblocking` | called by `run`, `accept_new_client` |
| `config` | `data_` | `load`, `get`, `parse_line` | called by `main` |
| `core/daemon` | the process's descriptors 0 to 2 | `daemonize` | called by `main` in daemon mode |
| `core/logger` | one logger | `init`, `get` | output only |
| `utils/helper` | none | `trim_string` | the read loop, the configuration |
| `main` | `keep_running` | start-up, signal handler | the loop reads `keep_running` |

### What is hard in it

* **Handlers of different clients interleave.** A password prompt splits "look
  the room up" from "join it": between the prompt and its answer other clients
  create, protect, empty and erase rooms. Correct: the room tables stay
  consistent whatever happens between, and a protected room is entered only
  from a prompt for it.
* **Reference counts kept by hand.** `user_count_` is changed on five paths and
  decides when a room is erased. Correct: it is the number of clients whose
  `room_` is that room, a room other than the lobby exists exactly while it has
  a client, and the lobby is always there, open.
* **Notices.** `broadcast` skips clients at a prompt and filters by `room_`,
  which `join_room` changes between the "left" and the "joined" notice.
  Correct: who follows the notices knows who is in the room; a chat line
  reaches only the sender's room.
* **The event loop.** Events carry raw `Client` pointers; one event can have
  several bits, and its first handler can free the client. Edge triggering
  means a descriptor must be drained and the output interest must agree with
  the buffer.
* **Writes** can be partial or would-block, and peers hang up at any time.
* **Signals** arrive between any two steps.
* **Bytes and lines.** TCP cuts lines anywhere, a read brings part of one or
  several, a write takes any part of a buffer that other handlers append to.
* **The process around the loop**: a configuration that is parsed by positions
  of `#` and `=`, descriptors 0 to 2 that are replaced while others are open,
  numbers that are closed twice, error paths, and a flag that a signal handler
  sets between any two steps.

`PROJECT.json` ("hazards") lists each of these at its line, with the properties
that watch it.

## Modules

| Module | What it is |
|---|---|
| `Rooms` | records, message kinds and the value-level operations handlers share: `broadcast`, the counter operations, `join_room` and `leave_room` |
| `CommandHandler` | `execute`: one action per command of a chatting client |
| `ChatServer` | the server at the grain of its handlers: `accept_new_client`, `process_message`, `disconnect_client`; the invariants and action properties |
| `RoomDirectory` | abstract: members are outside or in one room, move one at a time, and the census lists the occupied rooms |
| `Presence` | `ChatServer` with a history variable: what a user can conclude from the lines the server sends |
| `Sockets` | external: the kernel as the loop uses it: connections with their buffers, what peers do, an edge-triggered epoll set |
| `EventLoop` | `run` at the grain of its system calls: `epoll_wait`, the loop over its events, the accept and read loops, `handle_write`, with peers acting between any two calls |
| `Text` | `find`, `substr` and `trim_string` on sequences of words and characters |
| `LineReader` | `handle_client_read` byte by byte: the socket, `in_buffer`, the reading loop and the loop that cuts lines |
| `LineStream` | abstract: bytes are cut at their newlines, whole, once and in order |
| `CommandParser` | `parse` and the functions it calls, on the lines that reading and trimming produce |
| `CommandInput` | `LineReader` composed with `CommandParser` |
| `Connection` | the output of the clients byte by byte: `queue_message`, `handle_write`, the kernel, the peers |
| `Channel` | abstract: what is delivered is a growing prefix of what was accepted |
| `Config` | `load`, `parse_line` and `get`, and what a file of `KEY=VALUE` lines means |
| `Descriptors` | external: the table of descriptors of a process: the lowest free number, `close`, `dup2` |
| `Lifecycle` | the process: `main`, the configuration, the log, `daemonize`, signals, the start and the error paths of `run`, the destructor; composes `Config` and `Descriptors` |
| `MCChatServer`, `MCPresence`, `MCEventLoop`, `MCCommandInput`, `MCConnection`, `MCLifecycle` | small instances for TLC |
| `ChatServerProofs` | the inductive invariant of the handlers and its theorems; `ChatServer` implements `RoomDirectory` |
| `RoomAccessProofs` | who enters a room, what becomes of its password, who hears a chat line |
| `PresenceProofs` | who follows the notices knows who is in the room |
| `EventLoopProofs` | the invariants of the loop, for every size |
| `LifecycleProofs` | the descriptors, the standard streams and the signals of the process, for a table of any size; the settings, for a file of any length |
| `TextProofs` | what the loops of `trim_string` and the searches compute, for every text |
| `CommandInputProofs` | the lines and commands of a client, for any bytes and reads; `LineReader` implements `LineStream` |
| `ConnectionProofs` | nothing of the output is lost or reordered; `Connection` implements `Channel` |

### State

`clients` is `clients_`: a function from live descriptors to records with the
fields of `Client` that handlers read. `rooms` is `rooms_`: from existing names
to password and count. `queued` is what the last handler appended to each
client's `out_buffer`, as a sequence of messages per descriptor; the buffer's
further way to the socket is not in these modules. The empty string, which is
the nickname and room of a new connection and the password of an open room, is
the constant `Blank`.

### Actions

Each handler runs to completion in one thread, so it is one action with
everything it calls. `join_room` is split by what it changes into
`JoinClients`, `JoinRooms` and `JoinNotices`, and an action that calls it uses
the three together. `process_message` is split by the state of the client:
`set_nickname`, `setup_password`, `enter_password`, and `execute`, which is
split by the parsed command. A line is abstracted to what the parser makes of
it. Messages are records of a kind and a subject; a subject is the connection
rather than its nickname, so that properties can tell two clients with one
nickname apart.

`accept_new_client` takes any free descriptor; it can fail to make the client
non-blocking or to register it, and then drops it. `disconnect_client` is
enabled for every live client at any time: a read of zero bytes, a read or
write error, a hang-up.
`handle_private_message` picks any owner of the nickname: the code takes the
first in the hash table's order.

Not in these modules: events and buffers, which the following ones have (a
handler called on a client that an earlier handler of the same event has freed
is a matter of the event loop), and the text of messages.

### The event loop

`EventLoop` is the same program seen from the kernel. `pc` is where the thread
is, `batch` what `epoll_wait` returned and the loop has yet to look at, `event`
the one in hand. One step is one system call of the thread or one act of a peer,
so a peer can end or reset its connection between `epoll_wait` and the handler
of its event, or between two reads. Of a client it keeps the number of messages
in `out_buffer`, `want_write`, and what the epoll set says of its descriptor.
What a line makes the handlers of `ChatServer` do is here "a message queued to
any set of clients", which includes all they can do to the buffers; that they
delete no other client is seen in `ChatServer`, where only `disconnect_client`
removes one, its own. An input unit is a line: a line that spans reads, and
several in one read, queue the same messages at the same places between reads.

`Sockets` is external. An item of the epoll set is ready from an event on its
socket, or from an `epoll_ctl` that finds it readable or writable, until
`epoll_wait` takes it; what `epoll_wait` then reports is read off the socket at
that time. A full send buffer wakes who waits to write when it has room again.
A reset makes a socket readable, writable and hung up; a write after an end and
a reset raises SIGPIPE.

### Input

A byte of `LineReader` is a character or a whole word such as `/msg`: the code
compares words only as prefixes of a line, so a word that arrives in one piece
stands for its letters, and the cuts that matter (before and after it, between
`\r` and `\n`, between lines) all occur. `read` is a turn of the outer loop of
`handle_client_read` and `next_line` one of the inner loop; bytes may arrive
between any two of them. `BUFFER_SIZE` is the array of the code and a read
takes one byte less. `disconnect` starts the next connection. `LineStream` says
what comes out without mentioning reads: `stream` is refined to the bytes of
`in_buffer` followed by those of the socket. `CommandInput` gives every
processed line to `parse`; what the handlers make of a command is
`CommandHandler`.

### Output

`Connection` has for each client the bytes that were queued to it, those in
`out_buffer`, those the kernel has and those its peer has received. A byte is
known by its message and its place in it, so that a byte lost, repeated or out
of place is seen. A handler's message goes to any set of clients at once.
`handle_write` takes something and at most what the socket has room for; that
it never finds a full socket, and that EPOLLOUT is reported while output
waits, is `EventLoop` (`WriteHasRoom`, `OutputArmed`, `OutputServed`), as is
the write to a peer that is gone (there it disconnects or raises SIGPIPE;
here `hang_up` disconnects).

### The process

`pc` of `Lifecycle` follows `main`: read the configuration, open the log file,
in daemon mode fork, redirect and install the two handlers, then `run` up to its
loop. Every step that can fail may fail, with the closes of its error path.
`fds` says for each number what it refers to; the numbers the objects keep
(`server_fd_`, `epoll_fd_`, the keys of `clients_`, the log's) are variables of
their own, so that a close of a number that has changed hands is seen
(`OwnDescriptors`). The flag and the loop are at the grain of "test, call, sleep
or return, handle": a signal may come between any two of these, and a sleeping
`epoll_wait` returns EINTR. `left` counts the events of the batch that are still
to be handled: an event disconnects a client, writes to it (which changes
nothing here), or enters the accept loop or the read loop, whose turns are steps
(`accept` and `accepted`, `read` and `lines`). Either loop ends only when a call
finds nothing, so it may go on for ever; `keep_running` is looked at after the
last event. What the events do to buffers is `EventLoop`. `epoll_wait` fails with nothing but EINTR:
its other errors are for arguments the code does not pass. `bind`, `listen` and
the other steps of `create_server_socket` fail alike, with the socket closed.
The file `server.env` is a sequence of lines, a line a sequence of words and
the characters `=`, `#` and blank, which are all that `parse_line` tells apart.

## Runs

| Run | Shows | Instance |
|---|---|---|
| `chat_server` | nine properties and the refinement of `RoomDirectory` | 3 descriptors, 1 nickname, 2 passwords, lobby and 2 rooms |
| `presence` | `RosterAccurate` | 3 descriptors, 1 nickname, 1 password, lobby and 1 room |
| `event_loop` | six invariants of the loop | 3 peers, table of 2 clients, batches of 2, buffers of 1 line, 1 message in the socket and 2 in `out_buffer` |
| `event_loop_service` | what is eventually served, and `BacklogArmed` | 2 peers, room for both, same buffers |
| `lifecycle` | eight properties of the process | files of one line of up to four words, or two of nine chosen lines; 8 descriptors (0 to 7), up to 3 clients, batches of up to 2 events; any of 0 to 2 open at the start |
| `command_input` | lines and the commands they are, refinement of `LineStream`, and that no line waits | 6 bytes of the alphabet `x`, `/msg`, `/join`, blank, `\r`, `\n`; reads of at most 2 |
| `connection` | no byte lost, one order, refinement of `Channel`, and that everything arrives | 2 clients, 2 messages of up to 3 bytes, sockets of 2 bytes |
| `password_race` | finding: a creator's password is replaced by the next creator's | 2 descriptors, 2 passwords, 1 room |
| `deleted_client` | finding: a handler is called on a deleted client | 2 peers |
| `broken_pipe` | finding: a peer can end the process | 2 peers |
| `lost_signal` | finding: a signal may not stop the server, though its loop goes round | one daemon, 1 client, batches of up to 2 events |
| `held_server` | finding: no number of signals stops a server that is kept busy | one daemon, 1 client, batches of up to 2 events |

The state spaces of the handlers are finite without any bound on the number of steps:
descriptors are reused, and counters are bounded by the number of clients. Three
clients are what the races need: two that race for a room and one that observes
it or keeps it alive. Two rooms beside the lobby allow a move between
protected rooms. Two passwords tell a right answer from a wrong one and an
overwritten password from the old one; the empty password is always there too.
`presence` needs one room beside the lobby: a move is between two rooms.
One nickname is enough, as handlers compare nicknames only in `/msg`, where a
shared one is the interesting case; the blank one is always there. Symmetry is
used for the interchangeable constants, in runs of safety properties only.

`EventLoop` has one bound that the code has not: `MaxOut` messages in an
`out_buffer` (a handler step that would go beyond it is not taken). Two are
needed for a write that is partial, as the socket takes one. `RcvBuf`, `SndBuf`,
`MAX_EVENTS` and the number of descriptors exist in the kernel or the code and
are only small. One line in a socket is enough to be read before, between and
after the events of others; with batches of two out of three ready items the
loop gets back to `epoll_wait` with items left over; with three peers and two
clients `accept` fails with a connection waiting. `event_loop_service` has room
for every peer, because a failing `accept` does leave connections waiting
(`BacklogArmed` and `ConnectionsAccepted` are false of a full table, and the
code does not claim them there), and batches that take all that is ready,
because the kernel serves its ready list in turn and the model of a partial
batch does not.

`LineReader` bounds the bytes of a connection (`MaxBytes`): six are a private
message with its newline, or a cut line with another behind it, and three reads
of two. `Connection` bounds the messages and their length; a message of three
bytes does not fit the socket, so a write is partial, a second message is
appended to a rest, and two writes separate its parts. `Lifecycle` bounds the
clients (`MaxClients`); with 8 numbers, the standard ones, the log, the server
and epoll leave two, so the table fills and `accept` fails, and with none open at
the start they leave more than the clients can take; batches of two events have
one behind the other, and the last. One line of up to four
words has every order of `=`, `#` and blanks about a key and a value; the pairs
assign one key twice, or both keys. `65616` is a port of more than 16 bits.

The runs of `ChatServer` keep the deadlock check: while a descriptor is free a
connection can come, and while one is used it can go. Those of `EventLoop`
disable it: the system stops where the process was killed or has called a
handler on a deleted client, after which nothing can be said of it. `lifecycle`,
`lost_signal`, `held_server` and `connection` disable it too: a process ends, and
two messages are delivered some time. `command_input` keeps it.

### Fairness

`event_loop_service`: `WF_vars(Server)`: the thread is scheduled while it has a
step, which is all the operating system promises a process. Weak fairness of
`acknowledge` for each connection: a peer that is connected acknowledges what it
received some time, without which nobody can promise delivery. Peers owe
nothing else. And every promise is conditional on `LoopGoesRound`:
`handle_client_read` reads until there is nothing left, so a client that sends
without pause keeps the thread for itself, and fairness does not exclude that.

`command_input`: `WF(read \/ next_line)`, the thread again; no byte is owed.
`connection`: weak fairness of `handle_write` and `hang_up` of each client, which
is what `OutputServed` and `InputServed` of `EventLoop` give it (EPOLLOUT and
EPOLLHUP are reported again as long as there is reason to, and the loop gets to
them), and of `acknowledge`. `AllServed` is again only of clients that stay.
`lifecycle`: `WF_vars(Process)`: the process runs while it can. No peer owes an
event, or an end of what it sends; nobody sends a signal, and a sleep in
`epoll_wait` may last for ever. `StaysUpOnlyAsleep` and `RepeatedSignalEnds`
have the premise `LoopGoesRound` as the promises of `EventLoop` have (the thread
is outside its handlers again and again), and `RepeatedSignalEnds` is also
conditional on a sender that goes on sending. Two findings are about what is
missing without a premise: `lost_signal` has a loop that goes round and one
signal, `held_server` has repeated signals and a loop that does not.

### The properties

* `CountAccurate`, `RoomsInhabited`, `LobbyOpen`: the room table against the
  clients.
* `InRoomOnceNamed`, `ChatStaysInRoom`: an empty `room_` would make `broadcast`
  speak to all rooms.
* `PromptNamesAnotherRoom`: answering a prompt never makes a client leave and
  re-enter its own room, which would erase it on the way.
* `ProtectedEntry`: a protected room is entered only from a prompt for it.
* `PasswordOverwritesRunOut`: what is left of the owner's password under the
  creation race. Once a room exists nobody new is asked to create it, and every
  overwrite uses up one of the creators that were asked before.
* `ImplementsDirectory`: the refinement of `RoomDirectory`.
* `RosterAccurate`: `/online` followed by the notices is an exact account of the
  room, as long as the user neither moves nor sits at a prompt.

* `InterestAgrees`, `OutputArmed`, `InputArmed`, `BacklogArmed`: edge triggering
  reports each change once. Whatever the peers do meanwhile, unread input,
  unwritten output and waiting connections are always covered by a readiness, an
  event in the batch or the loop that is draining them. `OutputServed`,
  `InputServed` and `ConnectionsAccepted` are what follows under fairness.
* `BatchAlive`: no event of a batch points to a client that an earlier event of
  the batch deleted.
* `WriteHasRoom`: `handle_write` treats a write that would block as a failure,
  which would disconnect slow readers; it holds that no write is ever tried on a
  full socket, because there is one write per event and EPOLLOUT precedes it.
* `ImplementsLineStream`, `LinesServed`: lines are cut the same way whatever the
  reads are, and a line that has arrived waits for nothing more.
* `PrivateMessagesParsed`, `CommandsClean`: the one reading of a private message
  and when there is none; no command has an empty room, and no room, target or
  text ends in a blank, which takes the trim before the parser. A blank in front
  may remain (below).
* `NothingLost`, `OneOrder`, `ImplementsChannels`, `AllServed`: the output of
  each client is a channel, and all peers see the messages they share in the
  order the server handled them.
* `OwnDescriptors`, `NothingLeaks`: the numbers the server keeps, some of which
  it closes twice, stay its own and are closed when it ends, on every path.
* `StandardStreams`: `daemonize` leaves log and sockets alone, for a process
  that starts with its standard descriptors open.
* `LastAssignmentWins`: the port and the mode that `main` goes on with, against
  what the lines of the file mean; nothing changes them afterwards.
* `DaemonNotKilled`, `StaysUpOnlyAsleep`, `RepeatedSignalEnds`: what does hold of
  "graceful shutdown": no signal kills the daemon, and it ends unless it sleeps
  or a handler does not return.

## Findings

* **A room's password is not its first owner's.** Two clients are asked for the
  password of a new room; the first answer creates and protects it; the second
  answer joins it without that password and replaces it
  (`chat_server.cpp:223-229`; run `password_race`).
* **A handler runs on a deleted client.** An event with EPOLLIN and EPOLLOUT,
  end of input, and pending output: the read deletes the client, and the same
  event goes on to `handle_client_write` (`chat_server.cpp:71-77`; run
  `deleted_client`). It takes one peer that connects and ends its side before
  the prompt is written.
* **The server can be ended by a peer.** SIGPIPE keeps its default action; an
  end and a reset between `epoll_wait` and the write raise it (run
  `broken_pipe`).
* **A signal may not stop the server.** A handler that runs after the test of
  `keep_running` and before `epoll_wait` sets a flag that nobody looks at before
  the next event (`chat_server.cpp:46-47`; run `lost_signal`).
* **Nor may any number of signals.** The accept loop and the read loop go on
  until a call finds nothing and do not look at `keep_running`
  (`chat_server.cpp:89` and `:133`; run `held_server`), so a client that never
  stops sending, or connections that never stop coming, keep a signalled server
  up.

Differences between the code and its documents or tests that were met while
modelling, and that need no search to see:

* Nothing makes nicknames unique, and `/msg` goes to the first owner in the hash
  table's order (`command_handler.cpp:42`, against "Send a private message to a
  specific user" at `README.md:69`).
* In normal mode no handler is installed (`main.cpp:25`), so "Graceful shutdown
  on SIGTERM / SIGINT" (`README.md:13`) is of the daemon only.
* With a standard descriptor closed at the start, the log file is opened under
  its number and `daemonize` redirects it to `/dev/null` (`daemon.cpp:32`,
  against "File logging" at `README.md:12`); `StandardStreams` assumes them open.
* A port of more than 16 bits is cut by `htons` (`socket_utils.cpp:33`), and the
  log line names the whole number (`chat_server.cpp:41`).
* `/leavex` is `/leave`: three commands are tested as prefixes
  (`command_parser.cpp:48`), while the test "parse unknown command returns plain
  message" (`tests/test_command_parser.cpp:59`) makes a chat line of `/unknown`.
* `tests/test_command_parser.cpp:40` requires `parse("/join ")` to be `UNKNOWN`,
  which is dropped. The server trims the line first (`chat_server.cpp:162`), so
  the parser sees `/join`, a plain message, and the room reads it.
* `/join  room`, with two blanks, joins ` room`, another room than `room`: the
  trim is of the line, and the rest of a command is taken as it is
  (`command_parser.cpp:22`).
* `PORT= ` and `PORT=#x` store the empty string, of which `std::stoi` throws in
  `main` (`config.cpp:54`; `tests/test_config.cpp:124`).

## Proofs

Every invariant, action property and refinement that a passing run checks is
stated by a theorem, which holds for every value of the constants. The theorems
of the handlers (`ChatServerProofs`, `RoomAccessProofs`, `PresenceProofs`) hold
for every finite set of descriptors and any sets of nicknames, rooms and
passwords that satisfy `NamesAssumption` (the lobby is a room; the empty string
is none of the non-empty ones). Those of the loop hold
for every finite set of connections, and any sizes of socket buffers, batches,
tables and `MaxOut` (`BuffersAssumption`, `LoopAssumption`); those of the output
for any set of clients and any sizes (`ConnectionAssumption`); those of the
input for any alphabet, any `BUFFER_SIZE` of at least two and any number of bytes
(`ReaderAssumption`).

### The handlers

The single invariants are not inductive. Whether the answer to a prompt keeps
the counts right depends on the prompt naming another room; that it does not
protect the lobby depends on the prompt not naming the lobby, which depends on
the lobby existing and being open. `IInv` in `ChatServerProofs` is therefore
`TypeOK`, `CountAccurate`, `RoomsInhabited`, `LobbyOpen`, `InRoomOnceNamed` and
`PromptNamesAnotherRoom` together (`IInvMeaning` proves it equivalent to that
conjunction, each part of which the run `chat_server` checks), phrased over the
function `Place` from descriptors to rooms. The argument:

1. `LeaveConsistent` and `EnterConsistent`: one step out of a room, with the
   erasure, and one step into a room, with the creation, keep counts and rooms
   consistent. They rest on the cardinality facts of `FiniteSetTheorems`.
2. `JoinConsistent`: so `join_room` does, and it does not touch the lobby's
   password.
3. `Settled`: the per-client part, kept because prompts are issued only for
   rooms that do not exist or are protected, which excludes the lobby.
4. One lemma per handler (`SoundAccept`, ..., `SoundRoomsList`), then
   `SoundStep`.

The last part of `ChatServerProofs` shows that every handler moves at most its own client
(`NextMoves`) and that a consistent table is the census of the places
(`CensusIsCount`), hence `Spec => ImplementsDirectory`.

`RoomAccessProofs` goes on from `IInv`. `ChatStaysInRoom`: every handler but
`handle_plain_message` queues other kinds of messages (`QuietAccept`,
`QuietJoin`, ...), and that one broadcasts to a room whose name is not empty.
`ProtectedEntry`: `StepEnters` lists the ways into another room, and those that
need no prompt lead to the lobby or to an open room. `PasswordOverwritesRunOut`:
`JoinKeepsPasswords` (leaving one room and joining another keeps the password of
every room that stays) and `NoNewCreator`.

### What a user knows

`RosterAccurate` is a statement about everything a client was ever sent, and
`queued` is only what the last handler sent. `PInv` adds to `IInv` what a client
may know between two handlers (`Follows`): nothing, or exactly who is in its
room, and nothing while it is at a prompt, as notices pass a prompt by. The
argument:

1. `HeardConcat`: what is made of lines queued one behind the other is what is
   made of the second after the first, so a handler's notices can be taken one
   `broadcast` at a time (`HeardThen`, `HeardBroadcast`, `HeardTell`).
2. `HeardLeave` and `JoinFollows`: the "left" notice is broadcast while the
   client is still in its old room, the "joined" one when it is in the new room;
   between the two everyone else is off by that one client and no more.
3. `JoinForgets`: the client that moves hears itself join, which ends what it
   knew of the old room.
4. One lemma per handler (`AcceptKept`, ..., `UnknownKept`), `NextKept`,
   `PresenceStep`.

`UnknownAssumption` says that not to follow a room is different from knowing
some set of clients in it.

### The event loop

`IInv` of `EventLoopProofs` adds to the checked invariants the shape of a batch
(`BatchShape`: one event per client, none of a deleted client, an event is of
something) and of the event in hand (`EventShape`), and what makes `WriteHasRoom`
inductive: an event with EPOLLOUT is of a socket that has room and keeps it until
its own handler writes (`Believed`). Then:

1. `PeerAffects`, `AffectedNotices`: an act of a peer that makes a socket
   readable, or writable for who waits for that, makes its item ready, and takes
   no room.
2. `QueuedKept`, `DisconnectKeeps`: what a handler does to the clients that are
   not its own: more output, with the interest that goes with it, and readiness
   if there is room.
3. `KeptArmed`: so they stay armed, as the step does not take their events. One
   lemma per step does the rest for the handler's own client. The write that
   empties no buffer fills the socket, which is why one write per event is
   enough.

`BacklogIsArmed` assumes a table with room for every connection, as its run does.

### The output

`NothingLost` is of connected clients. Its strengthening `Flow` is of all:
what was queued is what was received, what the kernel has and a rest, and the
rest is `out_buffer` while the client is connected. `MovedForward` and
`MovedBetween` are the two ways a piece goes from the front of one sequence to
the end of the one before. From `Flow`, what was received is a prefix of what
was queued, which is the refinement; `OneOrder` needs `OrderInv` besides, that
what was queued is in the order of the messages.

### The process

The theorems of `LifecycleProofs` hold for a table of any size (`MaxFdAssumption`),
any contents of the file, any standard descriptors open at the start and any
bound on the clients. `OwnDescriptors` is about a serving process and says
nothing of the start, during which numbers are taken and `daemonize` overwrites
three of them. `IInv` therefore has, for every place of the process, what the
numbers kept so far are of (`Kept`), that each of the server's files is under
the number kept for it (`Owners`), and that what the start has not come to is
not there yet (`NotYet`), so that `daemonize` cannot hit it. Opening takes the
lowest free number (`LowestIsFree`, from the well-foundedness of `<`), so a
process that starts with 0 to 2 open never has log or `/dev/null` there
(`StreamsSettled`). The double close of a client is harmless because no step is
between its two halves; the second close of `server_fd_` and `epoll_fd_` is,
because nothing is opened after the first (`DownKeeps`). `NothingLeaks` and
`DaemonNotKilled` (`HandlersInstalled`) follow.

`LoadMeans` is about `Config::load` and mentions no state: for a file of any
number of lines, over any characters, `get` returns what the last line that
assigns the key assigns to it, or the default. Its loop runs over the lines
(`LoadIs`); what a line does to the table is `ParsedIs`, and that this is what
the line means, between the positions of `#` and `=` that `parse_line` looks
for and the blanks it trims, is `LineMeans`, with `RightIs` for the part behind
the `=`. `LastAssignmentsWin` is about the process: the text that PORT means is
among the pieces of the lines (`MeantIsGot`), `main` goes on with its number and
with the mode that DAEMON means, and no later step touches either.
`StartAssumption` has the files be sequences of lines of characters.

### Loops

The prover has no induction that takes a predicate as a parameter. `TextProofs`
does without: `LeastNumber` (from the well-foundedness of `<`) gives every
non-empty set of numbers a least element, and the least number at which a loop
would not do what is said of it is the contradiction. `Recursion` constructs in
that way the values of a loop, step by step from the one before; that the
recursive function of the model is such a function is what makes its equations
usable. It serves the two loops of `trim_string`, the loop over the lines of
`server.env` (`LoadIs`) and the lines queued to a client (`HeardAfter`).

`TrimMeans`: `t` is the text `s` without the blanks around it exactly if it is
what `trim_string` returns. The loop from the back does not test the first
character, which is harmless because the loop from the front has removed it if
it was a blank (`LastKeptIs`, `TrimIs`).

### The input

`IInv` of `CommandInputProofs` is `TypeOK` of `LineReader` and that every
processed line is trimmed (`LinesTrimmed`), by `TrimIs`. `ReaderImplementsStream`
maps `stream` to `in_buffer` followed by the socket: a read leaves it alone
(`ReadMoves`), a byte that arrives is appended to it, and the first newline of
`in_buffer` is the first one of the stream, whatever is behind it, so that a cut
of the one is a cut of the other (`PiecesOfConcat`). `MessagesAreParsed`:
of the readings a line could have, the one at the first blank after `/msg ` is
the only one (`BlankIs`), and there is none if that blank is missing or ends the
line. `CommandsAreClean` is where the trim is needed: a room or a text that is a
tail of the line ends as the line does, in no blank, and a target ends where the
first blank begins. What a tail begins with it does not say.

### What is only model-checked

Liveness, and everything with `ENABLED`, which are out of the prover's reach:
`InputServed`, `OutputServed`, `ConnectionsAccepted`, `StaysUpOnlyAsleep`,
`RepeatedSignalEnds`, `LinesServed` and `AllServed`.

## Plan

The modules of the plan are written, and every invariant, action property and
refinement of the passing runs is proved. What could be added: the safety half
of the arguments for liveness (that a step of the thread is enabled whenever a
byte waits), a proof that `EventLoop` without bytes and `Connection` without
events agree on `out_buffer`, and `Matches` with the hash table's order, should
the code come to promise one.

## Not modelled

* The vendored libraries, which are nine tenths of the repository's lines: the
  server calls spdlog to write its log and uses nothing else of them. For that
  reason the map covers a small part of all lines, but every function of
  `src/src` that keeps state.
* The logger beyond the descriptor of its file and the failure to open it;
  the text of messages, prompts and log lines.
* The tests, which are quoted where they disagree with the code.
* The growth of `in_buffer` and `out_buffer`: the code has no bound to check.
* `ChatServer::stop`, which is empty and not called.

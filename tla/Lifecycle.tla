----------------------------- MODULE Lifecycle -----------------------------
(***************************************************************************)
(* The process from main to its end: configuration, log file, daemonize,   *)
(* signal handlers, the start of ChatServer::run with its error paths, the *)
(* loop, and the destructor; with the descriptors it opens and closes and  *)
(* the signals that arrive between any two steps.  What an event does to   *)
(* the buffers is in EventLoop; here it takes or closes a descriptor, and  *)
(* its handler may be long in returning.                                   *)
(***************************************************************************)
EXTENDS Descriptors, Config

CONSTANTS
  Files,      \* contents server.env may have
  Numeral,    \* the words std::stoi takes for numbers, and their numbers
  Inherited,  \* sets of standard descriptors the process may start with
  MAX_EVENTS, \* events one epoll_wait returns at most
  MaxClients  \* bound of the model: clients at a time

ASSUME StartAssumption ==
  /\ \A w \in DOMAIN Numeral : Numeral[w] \in Int
  /\ "8080" \in DOMAIN Numeral
  /\ Files \subseteq Seq(Seq(STRING))
  /\ Inherited \subseteq SUBSET Standard
  /\ MAX_EVENTS \in Nat \ {0}
  /\ MaxClients \in Nat \ {0}

VARIABLES
  env,           \* server.env, until it is read
  port, daemon_enabled,
  inherited,     \* the standard descriptors open at the start
  fds,           \* the table of descriptors
  log_fd,        \* the descriptor of the log file's sink
  fd_dev_null,   \* the local of daemonize
  server_fd_, epoll_fd_, clients_,
  bound,         \* the port the server socket is bound to
  left,          \* events of the last epoll_wait that are still to be handled
  keep_running,
  handled,       \* the signals with a handler
  pc             \* where the process is, or how it ended

settings == <<env, port, daemon_enabled, inherited>>
server == <<server_fd_, epoll_fd_, clients_, bound>>
signals == <<keep_running, handled>>
vars == <<settings, fds, log_fd, fd_dev_null, server, signals, left, pc>>

Signal == {"SIGTERM", "SIGINT"}
Handling == {"events", "accept", "accepted", "read", "lines"}
Serving == {"test", "epoll_wait", "asleep",
            "events", "accept", "accepted", "read", "lines"}
Ended == {"threw", "exited", "killed", "returned", "stopped"}
Places == {"main", "log", "fork", "null", "redirect", "SIGTERM", "SIGINT",
           "socket", "epoll", "register", "error", "stop"} \cup Serving \cup Ended

Init ==
  /\ env \in Files /\ port = 0 /\ daemon_enabled = FALSE
  /\ inherited \in Inherited
  /\ fds = [n \in Number |-> IF n \in inherited THEN "terminal" ELSE "none"]
  /\ log_fd = -1 /\ fd_dev_null = -1
  /\ server_fd_ = -1 /\ epoll_fd_ = -1 /\ clients_ = {} /\ bound = -1
  /\ left = 0
  /\ keep_running = TRUE /\ handled = {}
  /\ pc = "main"

(* From one place to the next, with the same events in hand.               *)
Goes(from, to) == pc = from /\ pc' = to /\ left' = left

-----------------------------------------------------------------------------
(* std::stoi throws at a text that does not begin with a number.           *)
IsNumber(text) == text # <<>> /\ text[1] \in DOMAIN Numeral

(* Mutant of read_config: any value of DAEMON turns daemon mode on.        *)
read_config_AnyDaemon ==
  LET data == load(env)
      text == get(data, <<"PORT">>, <<"8080">>)
  IN  /\ Goes("main", IF IsNumber(text) THEN "log" ELSE "threw")
      /\ port' = IF IsNumber(text) THEN Numeral[text[1]] ELSE port
      /\ daemon_enabled' = (<<"DAEMON">> \in DOMAIN data)
      /\ env' = <<>>
      /\ UNCHANGED <<inherited, fds, log_fd, fd_dev_null, server, signals>>

(* main reads server.env, which is closed again, and takes its settings.   *)
read_config ==
  LET data == load(env)
      text == get(data, <<"PORT">>, <<"8080">>)
  IN  /\ Goes("main", IF IsNumber(text) THEN "log" ELSE "threw")
      /\ port' = IF IsNumber(text) THEN Numeral[text[1]] ELSE port
      /\ daemon_enabled' = (get(data, <<"DAEMON">>, <<"false">>) = <<"true">>)
      /\ env' = <<>>
      /\ UNCHANGED <<inherited, fds, log_fd, fd_dev_null, server, signals>>

(* A log file that cannot be opened is an exception of the sink.           *)
init_logger ==
  /\ \/ Goes("log", "threw") /\ UNCHANGED <<fds, log_fd>>
     \/ /\ Goes("log", IF daemon_enabled THEN "fork" ELSE "socket") /\ ~ Full(fds)
        /\ log_fd' = Lowest(fds)
        /\ fds' = Opened(fds, "log")
  /\ UNCHANGED <<settings, fd_dev_null, server, signals>>

(* daemonize: the parent exits, the child goes on with a copy of the       *)
(* table; any failure exits.                                               *)
fork ==
  /\ Goes("fork", "null") \/ Goes("fork", "exited")
  /\ UNCHANGED <<settings, fds, log_fd, fd_dev_null, server, signals>>

open_dev_null ==
  /\ \/ Goes("null", "exited") /\ UNCHANGED <<fds, fd_dev_null>>
     \/ /\ Goes("null", "redirect") /\ ~ Full(fds)
        /\ fd_dev_null' = Lowest(fds)
        /\ fds' = Opened(fds, "null")
  /\ UNCHANGED <<settings, log_fd, server, signals>>

(* Mutant of redirect: the standard descriptors are closed.                *)
redirect_Close ==
  /\ Goes("redirect", "SIGTERM")
  /\ fds' = Closed(fds, Standard \cup {fd_dev_null})
  /\ UNCHANGED <<settings, log_fd, fd_dev_null, server, signals>>

redirect ==
  /\ Goes("redirect", "SIGTERM")
  /\ fds' = Closed(Duplicated(fds, fd_dev_null, Standard), {fd_dev_null})
  /\ UNCHANGED <<settings, log_fd, fd_dev_null, server, signals>>

(* Mutant of install_handler: SIGINT is left out.                          *)
install_handler_Once ==
  /\ Goes("SIGTERM", "socket")
  /\ handled' = handled \cup {pc}
  /\ UNCHANGED <<settings, fds, log_fd, fd_dev_null, server, keep_running>>

install_handler ==
  /\ Goes("SIGTERM", "SIGINT") \/ Goes("SIGINT", "socket")
  /\ handled' = handled \cup {pc}
  /\ UNCHANGED <<settings, fds, log_fd, fd_dev_null, server, keep_running>>

-----------------------------------------------------------------------------
(* Mutant of create_server_socket: a failed bind leaves the socket open.   *)
create_server_socket_Leak ==
  /\ \/ /\ Goes("socket", "error")
        /\ fds' = Opened(fds, "server")
        /\ UNCHANGED <<server_fd_, bound>>
     \/ /\ Goes("socket", "epoll") /\ ~ Full(fds)
        /\ server_fd_' = Lowest(fds)
        /\ fds' = Opened(fds, "server")
        /\ bound' = port % 2^16
  /\ UNCHANGED <<settings, log_fd, fd_dev_null, epoll_fd_, clients_, signals>>

(* A step of it that fails closes the socket.  htons takes 16 bits.        *)
create_server_socket ==
  /\ \/ Goes("socket", "error") /\ UNCHANGED <<fds, server_fd_, bound>>
     \/ /\ Goes("socket", "epoll") /\ ~ Full(fds)
        /\ server_fd_' = Lowest(fds)
        /\ fds' = Opened(fds, "server")
        /\ bound' = port % 2^16
  /\ UNCHANGED <<settings, log_fd, fd_dev_null, epoll_fd_, clients_, signals>>

create_epoll ==
  /\ \/ /\ Goes("epoll", "error")
        /\ fds' = Closed(fds, {server_fd_})
        /\ UNCHANGED epoll_fd_
     \/ /\ Goes("epoll", "register") /\ ~ Full(fds)
        /\ epoll_fd_' = Lowest(fds)
        /\ fds' = Opened(fds, "epoll")
  /\ UNCHANGED <<settings, log_fd, fd_dev_null, server_fd_, clients_, bound, signals>>

register_server ==
  /\ \/ Goes("register", "error") /\ fds' = Closed(fds, {server_fd_, epoll_fd_})
     \/ Goes("register", "test") /\ UNCHANGED fds
  /\ UNCHANGED <<settings, log_fd, fd_dev_null, server, signals>>

-----------------------------------------------------------------------------
(* Mutant of test: the flag is not looked at.                              *)
test_Forever ==
  /\ Goes("test", "epoll_wait")
  /\ UNCHANGED <<settings, fds, log_fd, fd_dev_null, server, signals>>

test ==
  /\ Goes("test", IF keep_running THEN "epoll_wait" ELSE "stop")
  /\ UNCHANGED <<settings, fds, log_fd, fd_dev_null, server, signals>>

(* epoll_wait has no timeout: it returns what is ready or sleeps.          *)
epoll_wait ==
  /\ \/ pc = "epoll_wait" /\ pc' = "events" /\ left' \in 1..MAX_EVENTS
     \/ Goes("epoll_wait", "asleep")
  /\ UNCHANGED <<settings, fds, log_fd, fd_dev_null, server, signals>>

(* Mutant of accept_client: the result of accept is not tested.            *)
accept_client_Untested ==
  /\ Cardinality(clients_) < MaxClients
  /\ clients_' = clients_ \cup {IF Full(fds) THEN -1 ELSE Lowest(fds)}
  /\ fds' = IF Full(fds) THEN fds ELSE Opened(fds, "client")

(* With the table full accept fails, and the loop over the backlog ends.   *)
accept_client ==
  /\ ~ Full(fds) /\ Cardinality(clients_) < MaxClients
  /\ clients_' = clients_ \cup {Lowest(fds)}
  /\ fds' = Opened(fds, "client")

(* Mutant of disconnect_client: the Client, which closes its descriptor    *)
(* again, is not erased.                                                   *)
disconnect_client_Keep(c) ==
  /\ fds' = Closed(fds, {c})
  /\ UNCHANGED clients_

(* close, and the destructor of Client closes the same number again.       *)
disconnect_client(c) ==
  /\ fds' = Closed(Closed(fds, {c}), {c})
  /\ clients_' = clients_ \ {c}

(* The loop over the events: a connection and input have loops of their    *)
(* own, a client that is written to stays, one that hung up or cannot be   *)
(* written to is disconnected; after the last event comes the test.        *)
handle_events ==
  /\ pc = "events"
  /\ \/ /\ left = 0 /\ left' = left
        /\ pc' = "test" /\ UNCHANGED <<fds, clients_>>
     \/ /\ left > 0 /\ left' = left - 1
        /\ \/ pc' = "accept" /\ UNCHANGED <<fds, clients_>>
           \/ pc' = "read" /\ clients_ # {} /\ UNCHANGED <<fds, clients_>>
           \/ pc' = "events" /\ UNCHANGED <<fds, clients_>>
           \/ pc' = "events" /\ \E c \in clients_ : disconnect_client(c)
  /\ UNCHANGED <<settings, log_fd, fd_dev_null, server_fd_, epoll_fd_, bound, signals>>

(* The loop over the backlog: turn after turn, while connections come.  A  *)
(* client that cannot be made non-blocking or registered is closed again.  *)
accept_new_client ==
  /\ \/ Goes("accept", "accepted") /\ accept_client
     \/ Goes("accept", "accepted") /\ ~ Full(fds) /\ UNCHANGED <<fds, clients_>>
     \/ Goes("accepted", "accept") /\ UNCHANGED <<fds, clients_>>
     \/ Goes("accept", "events") /\ UNCHANGED <<fds, clients_>>
  /\ UNCHANGED <<settings, log_fd, fd_dev_null, server_fd_, epoll_fd_, bound, signals>>

(* The loop over what a client sent: read and handle the lines, turn after *)
(* turn, while input comes; it ends with EAGAIN or with the client.        *)
handle_client_read ==
  /\ \/ Goes("read", "lines") /\ UNCHANGED <<fds, clients_>>
     \/ Goes("lines", "read") /\ UNCHANGED <<fds, clients_>>
     \/ /\ Goes("read", "events")
        /\ UNCHANGED <<fds, clients_>> \/ \E c \in clients_ : disconnect_client(c)
  /\ UNCHANGED <<settings, log_fd, fd_dev_null, server_fd_, epoll_fd_, bound, signals>>

-----------------------------------------------------------------------------
(* ~ChatServer, after an error and after the loop.                         *)
destroy ==
  /\ Goes("error", "returned") \/ Goes("stop", "stopped")
  /\ fds' = Closed(fds, {server_fd_, epoll_fd_} \cup clients_)
  /\ clients_' = {}
  /\ UNCHANGED <<settings, log_fd, fd_dev_null, server_fd_, epoll_fd_, bound, signals>>

-----------------------------------------------------------------------------
(* Mutant of signal: epoll_wait is called again at once.                   *)
signal_Restart(s) ==
  /\ pc \notin Ended
  /\ \/ /\ s \in handled
        /\ keep_running' = FALSE
        /\ pc' = IF pc = "asleep" THEN "epoll_wait" ELSE pc
     \/ /\ s \notin handled
        /\ pc' = "killed"
        /\ UNCHANGED keep_running
  /\ UNCHANGED <<settings, fds, log_fd, fd_dev_null, server, handled, left>>

(* A handled signal clears the flag, and makes a sleeping epoll_wait       *)
(* return EINTR, after which the loop continues with its test.             *)
signal(s) ==
  /\ pc \notin Ended
  /\ \/ /\ s \in handled
        /\ keep_running' = FALSE
        /\ pc' = IF pc = "asleep" THEN "test" ELSE pc
     \/ /\ s \notin handled
        /\ pc' = "killed"
        /\ UNCHANGED keep_running
  /\ UNCHANGED <<settings, fds, log_fd, fd_dev_null, server, handled, left>>

(* An event on a socket wakes the thread.                                  *)
wake ==
  /\ pc = "asleep" /\ pc' = "events" /\ left' \in 1..MAX_EVENTS
  /\ UNCHANGED <<settings, fds, log_fd, fd_dev_null, server, signals>>

Process ==
  \/ read_config
  \/ init_logger
  \/ fork
  \/ open_dev_null
  \/ redirect
  \/ install_handler
  \/ create_server_socket
  \/ create_epoll
  \/ register_server
  \/ test
  \/ epoll_wait
  \/ handle_events
  \/ accept_new_client
  \/ handle_client_read
  \/ destroy

Next == Process \/ wake \/ \E s \in Signal : signal(s)

Spec == Init /\ [][Next]_vars

(* The process runs when it can.  No peer owes it an event, or an end of   *)
(* what it sends, and nobody a signal.                                     *)
FairSpec == Spec /\ WF_vars(Process)

-----------------------------------------------------------------------------
TypeOK ==
  /\ port \in Int /\ daemon_enabled \in BOOLEAN
  /\ fds \in [Number -> File]
  /\ {log_fd, fd_dev_null, server_fd_, epoll_fd_} \subseteq Number \cup {-1}
  /\ clients_ \subseteq Number
  /\ bound \in -1..(2^16 - 1)
  /\ keep_running \in BOOLEAN /\ handled \subseteq Signal
  /\ left \in 0..MAX_EVENTS
  /\ pc \in Places

(* The numbers the server holds stay its own: no close, dup2 or second     *)
(* close of a number hits a descriptor that something else owns.           *)
OwnDescriptors ==
  pc \in Serving \cup {"stop"} =>
    /\ fds[server_fd_] = "server"
    /\ fds[epoll_fd_] = "epoll"
    /\ \A c \in clients_ : fds[c] = "client"
    /\ Cardinality({n \in Number : fds[n] = "client"}) = Cardinality(clients_)

(* A process started with its standard descriptors open keeps its log, and *)
(* serves with no socket at one of them: they are the terminal's, or       *)
(* /dev/null's once daemonize has redirected them.                         *)
StandardStreams ==
  inherited = Standard /\ pc \in Serving =>
    /\ fds[log_fd] = "log"
    /\ \A n \in Standard :
         fds[n] = (IF daemon_enabled THEN "null" ELSE "terminal")

(* However run ends, the server's descriptors are closed with it.          *)
NothingLeaks ==
  pc \in {"returned", "stopped"} =>
    \A n \in Number : fds[n] \notin {"server", "epoll", "client"}

(* KEY=VALUE: main goes on with the port and the mode that the last lines  *)
(* of server.env about PORT and DAEMON mean, or with their defaults; it    *)
(* throws only if what PORT means is no number; and these settings are     *)
(* those of the process to its end.                                        *)
Texts == {<<"8080">>} \cup UNION {SubSeqs(env[i]) : i \in DOMAIN env}

PortTexts == {text \in Texts : Means(env, <<"PORT">>, <<"8080">>, text)}

LastAssignmentWins ==
  [][/\ pc = "main" /\ pc' = "log" =>
          /\ \E text \in PortTexts : IsNumber(text) /\ port' = Numeral[text[1]]
          /\ daemon_enabled' <=> Means(env, <<"DAEMON">>, <<"false">>, <<"true">>)
     /\ pc = "main" /\ pc' = "threw" => \A text \in PortTexts : ~ IsNumber(text)
     /\ pc # "main" => UNCHANGED <<port, daemon_enabled>>]_vars

(* "Graceful shutdown on SIGTERM / SIGINT", for the daemon: neither signal *)
(* kills it once it has begun to open its sockets.                         *)
DaemonNotKilled ==
  [][(daemon_enabled /\ pc \in Serving \cup {"socket", "epoll", "register"})
       => pc' # "killed"]_vars

-----------------------------------------------------------------------------
(* Nobody else is served, and the flag is not looked at, while connections *)
(* or the input of one client keep a handler from returning.               *)
LoopGoesRound == []<>(pc \notin Handling)

(* "Graceful shutdown on SIGTERM / SIGINT": a signal the process handles   *)
(* ends it, whenever the loop does go round.                               *)
GracefulShutdown == LoopGoesRound => (~ keep_running ~> pc \in Ended)

(* What holds of it: the one way for a loop that goes round to stay up     *)
(* after a signal is to sleep in epoll_wait for ever; any event ends it.   *)
StaysUpOnlyAsleep ==
  LoopGoesRound => (~ keep_running ~> (pc \in Ended \/ [](pc = "asleep")))

(* A sender that repeats its signal ends a process whose loop goes round.  *)
RepeatedSignalEnds ==
  WF_vars(\E s \in handled : signal(s)) => GracefulShutdown

(* "Graceful shutdown on SIGTERM / SIGINT", of such a sender and any loop. *)
(* A client that never stops sending breaks it: the server reads on, and   *)
(* is not interrupted in any call.                                         *)
SignalsEnd ==
  WF_vars(\E s \in handled : signal(s)) => (~ keep_running ~> pc \in Ended)
=============================================================================

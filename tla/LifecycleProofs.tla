-------------------------- MODULE LifecycleProofs --------------------------
(***************************************************************************)
(* The numbers the server keeps are its own from its start to its end, its *)
(* end closes them, the standard streams and the signals of a daemon are   *)
(* as daemonize and main left them, and the settings are those server.env  *)
(* means: for a table of any size, whatever is open at the start and       *)
(* whatever server.env says.                                               *)
(***************************************************************************)
EXTENDS Lifecycle, FiniteSetTheorems, TextProofs

Starting == {"main", "log", "fork", "null", "redirect", "SIGTERM", "SIGINT", "socket"}
Daemonizing == {"fork", "null", "redirect", "SIGTERM", "SIGINT"}
Opening == {"socket", "epoll", "register"}
Up == Serving \cup {"stop"}

(* A server's file is open under the number kept for it and no other.      *)
Owners ==
  \A n \in Number :
    /\ fds[n] = "server" => n = server_fd_
    /\ fds[n] = "epoll" => n = epoll_fd_
    /\ fds[n] = "client" => n \in clients_

(* A number kept while the server is up is of what it is kept for.         *)
Kept ==
  /\ pc \in {"epoll", "register"} \cup Up =>
       server_fd_ \in Number /\ fds[server_fd_] = "server"
  /\ pc \in {"register"} \cup Up =>
       epoll_fd_ \in Number /\ fds[epoll_fd_] = "epoll"
  /\ pc \in Up => \A c \in clients_ : fds[c] = "client"

(* What the start has not come to is not there yet.                        *)
NotYet ==
  /\ pc \in Starting => server_fd_ = -1
  /\ pc \in Starting \cup {"epoll"} => epoll_fd_ = -1
  /\ pc \in Starting \cup {"epoll", "register"} => clients_ = {}
  /\ pc = "redirect" => fd_dev_null \in Number

(* The standard streams of a process that starts with them open, and the   *)
(* numbers that daemonize must not confuse with them.                      *)
StreamsSettled ==
  inherited = Standard =>
    /\ pc \in {"main", "log", "fork", "null", "redirect"} =>
         \A n \in Standard : fds[n] = "terminal"
    /\ pc \in {"SIGTERM", "SIGINT"} => \A n \in Standard : fds[n] = "null"
    /\ pc \in Opening \cup Serving =>
         \A n \in Standard :
           fds[n] = (IF daemon_enabled THEN "null" ELSE "terminal")
    /\ pc \in Daemonizing \cup Opening \cup Serving =>
         log_fd \in Number \ Standard /\ fds[log_fd] = "log"
    /\ pc = "redirect" =>
         fd_dev_null \in Number \ Standard /\ fds[fd_dev_null] = "null"

(* A daemon has both handlers when it begins to open its sockets.          *)
HandlersInstalled ==
  /\ pc \in Daemonizing => daemon_enabled
  /\ pc = "SIGINT" => "SIGTERM" \in handled
  /\ daemon_enabled /\ pc \in Opening \cup Serving => handled = Signal

IInv ==
  TypeOK /\ Owners /\ Kept /\ NotYet /\ StreamsSettled /\ HandlersInstalled

-----------------------------------------------------------------------------
(* A table that is not full has a lowest free number.                      *)
LEMMA LowestIsFree ==
  ASSUME NEW f \in [Number -> File], ~ Full(f)
  PROVE  Lowest(f) \in Number /\ f[Lowest(f)] = "none"
<1> DEFINE Free == {n \in Number : f[n] = "none"}
<1> DEFINE IsLowest(n) ==
      f[n] = "none" /\ \A m \in 0..(n - 1) : f[m] # "none"
<1>1. Free \in SUBSET Nat /\ Free # {}
  BY MaxFdAssumption DEF Full, Number
<1>2. PICK n \in Free : \A m \in Free : n <= m
  <2> HIDE DEF Free
  <2> QED  BY <1>1, LeastNumber
<1>3. IsLowest(n)
  BY <1>2, MaxFdAssumption DEF Number
<1>4. Lowest(f) = CHOOSE k \in Number : IsLowest(k)
  BY DEF Lowest
<1> QED
  BY <1>2, <1>3, <1>4

(* Opening a file changes the lowest free number and no other.             *)
LEMMA OpenedIs ==
  ASSUME NEW f \in [Number -> File], ~ Full(f), NEW file \in File
  PROVE  /\ Opened(f, file) \in [Number -> File]
         /\ Opened(f, file)[Lowest(f)] = file
         /\ \A n \in Number \ {Lowest(f)} : Opened(f, file)[n] = f[n]
  BY LowestIsFree DEF Opened

(* Closing numbers leaves the others alone.                                *)
LEMMA ClosedIs ==
  ASSUME NEW f \in [Number -> File], NEW numbers
  PROVE  /\ Closed(f, numbers) \in [Number -> File]
         /\ \A n \in Number : n \in numbers => Closed(f, numbers)[n] = "none"
         /\ \A n \in Number : n \notin numbers => Closed(f, numbers)[n] = f[n]
  BY DEF Closed, File

(* htons keeps 16 bits.                                                    *)
LEMMA Ports ==
  /\ 2^16 \in Nat
  /\ \A p \in Int : p % (2^16) \in -1..(2^16 - 1)
  OBVIOUS

-----------------------------------------------------------------------------
(* The start of the process.                                               *)
LEMMA StartKeeps == Init => IInv
<1> SUFFICES ASSUME Init PROVE IInv
  OBVIOUS
<1> USE MaxFdAssumption, StartAssumption
<1>1. TypeOK
  <2>1. bound \in -1..(2^16 - 1)
    BY Ports DEF Init
  <2>2. fds \in [Number -> File]
    BY DEF Init, File
  <2>3. daemon_enabled \in BOOLEAN /\ keep_running \in BOOLEAN
    BY Zenon DEF Init
  <2>5. /\ port \in Int /\ handled \subseteq Signal
        /\ left \in 0..MAX_EVENTS /\ pc \in Places
    BY DEF Init, Places
  <2>4. /\ {log_fd, fd_dev_null, server_fd_, epoll_fd_} \subseteq Number \cup {-1}
        /\ clients_ \subseteq Number
    BY DEF Init
  <2> QED  BY <2>1, <2>2, <2>3, <2>4, <2>5 DEF TypeOK
<1>2. Owners /\ Kept /\ NotYet /\ HandlersInstalled
  BY DEF Init, Owners, Kept, NotYet, HandlersInstalled, Up, Serving, Starting,
         Daemonizing, Opening
<1>3. StreamsSettled
  BY DEF Init, StreamsSettled, Standard, Number, Daemonizing, Opening, Serving
<1> QED
  BY <1>1, <1>2, <1>3 DEF IInv

(* main reads its settings.                                                *)
LEMMA ReadKeeps == IInv /\ read_config => IInv'
<1> SUFFICES ASSUME IInv, read_config PROVE IInv'
  OBVIOUS
<1> USE StartAssumption DEF IInv
<1>1. port' \in Int /\ daemon_enabled' \in BOOLEAN /\ pc' \in {"log", "threw"}
  BY DEF read_config, Goes, IsNumber, TypeOK
<1>2. pc = "main" /\ UNCHANGED <<inherited, fds, log_fd, fd_dev_null, server, signals, left>>
  BY DEF read_config, Goes
<1>3. TypeOK'
  BY <1>1, <1>2 DEF TypeOK, server, signals, Places, Ended
<1>4. (Owners /\ Kept /\ NotYet)'
  BY <1>1, <1>2 DEF Owners, Kept, NotYet, Up, Serving, Starting, server
<1>5. (StreamsSettled /\ HandlersInstalled)'
  BY <1>1, <1>2 DEF StreamsSettled, HandlersInstalled, Daemonizing, Opening,
                    Serving, server, signals
<1> QED
  BY <1>3, <1>4, <1>5

(* The steps that touch no descriptor.                                     *)
LEMMA WalkKeeps ==
  ASSUME IInv,
         \/ fork
         \/ install_handler
         \/ create_server_socket /\ pc' = "error"
         \/ register_server /\ pc' = "test"
         \/ test
         \/ epoll_wait
         \/ wake
         \/ \E s \in Signal : signal(s)
  PROVE  IInv'
<1> USE DEF IInv
<1>0. left' \in 0..MAX_EVENTS
  BY StartAssumption DEF fork, install_handler, create_server_socket,
     register_server, test, epoll_wait, wake, signal, Goes, TypeOK
<1>1. UNCHANGED <<settings, fds, log_fd, fd_dev_null, server>>
  BY DEF fork, install_handler, create_server_socket, register_server, test,
         epoll_wait, wake, signal, Goes, server
<1>2. \/ /\ \/ pc = "fork" /\ pc' \in {"null", "exited"}
            \/ pc = "socket" /\ pc' = "error"
            \/ pc = "register" /\ pc' = "test"
            \/ pc = "test" /\ pc' \in {"epoll_wait", "stop"}
            \/ pc = "epoll_wait" /\ pc' \in {"events", "asleep"}
            \/ pc = "asleep" /\ pc' = "events"
         /\ UNCHANGED signals
      \/ /\ \/ pc = "SIGTERM" /\ pc' = "SIGINT"
            \/ pc = "SIGINT" /\ pc' = "socket"
         /\ handled' = handled \cup {pc} /\ keep_running' = keep_running
      \/ /\ pc' \in {pc, "killed"} \/ (pc = "asleep" /\ pc' = "test")
         /\ handled' = handled /\ keep_running' \in {keep_running, FALSE}
  BY DEF fork, install_handler, create_server_socket, register_server, test,
         epoll_wait, wake, signal, Goes, signals, Ended
<1>3. TypeOK'
  BY <1>0, <1>1, <1>2 DEF TypeOK, settings, server, signals, Places, Serving,
                         Ended, Signal
<1>4. Owners' /\ Kept'
  <2>1. Owners'
    BY <1>1 DEF Owners, server
  <2>2. Kept'
    BY <1>1, <1>2 DEF Kept, NotYet, Starting, Up, Serving, server
  <2> QED  BY <2>1, <2>2
<1>5. NotYet'
  BY <1>1, <1>2 DEF NotYet, Starting, server
<1>6. StreamsSettled'
  BY <1>1, <1>2 DEF StreamsSettled, HandlersInstalled, Daemonizing, Opening,
                    Serving, settings
<1>7. HandlersInstalled'
  BY <1>1, <1>2 DEF HandlersInstalled, Daemonizing, Opening, Serving, settings,
                    signals, Signal, TypeOK
<1> QED
  BY <1>3, <1>4, <1>5, <1>6, <1>7

-----------------------------------------------------------------------------
(* The steps that open a file.                                             *)
LEMMA LogKeeps == IInv /\ init_logger => IInv'
<1> SUFFICES ASSUME IInv, init_logger, pc' # "threw" PROVE IInv'
  <2>1. ASSUME IInv, init_logger, pc' = "threw" PROVE IInv'
    <3>1. UNCHANGED <<settings, fds, log_fd, fd_dev_null, server, signals, left>>
      BY <2>1 DEF init_logger, Goes
    <3> QED
      BY <2>1, <3>1 DEF IInv, TypeOK, Owners, Kept, NotYet, StreamsSettled,
         HandlersInstalled, settings, server, signals, Places, Ended, Serving,
         Up, Starting, Daemonizing, Opening
  <2> QED  BY <2>1
<1> USE DEF IInv
<1> DEFINE new == Lowest(fds)
<1>1. /\ pc = "log" /\ pc' = (IF daemon_enabled THEN "fork" ELSE "socket")
      /\ ~ Full(fds) /\ log_fd' = new /\ fds' = Opened(fds, "log")
      /\ UNCHANGED <<settings, fd_dev_null, server, signals, left>>
  BY DEF init_logger, Goes
<1>2. /\ fds' \in [Number -> File] /\ new \in Number
      /\ fds[new] = "none" /\ fds'[new] = "log"
      /\ \A n \in Number \ {new} : fds'[n] = fds[n]
  BY <1>1, OpenedIs, LowestIsFree DEF TypeOK, File
<1> HIDE DEF new
<1>3. TypeOK'
  BY <1>1, <1>2 DEF TypeOK, settings, server, signals, Places
<1>4. Owners'
  BY <1>1, <1>2 DEF Owners, server
<1>5. Kept' /\ NotYet'
  BY <1>1 DEF Kept, NotYet, Starting, Up, Serving, server
<1>6. StreamsSettled'
  <2> SUFFICES ASSUME inherited = Standard PROVE StreamsSettled'
    BY <1>1 DEF StreamsSettled, settings
  <2>1. \A n \in Standard : n \in Number /\ fds[n] = "terminal"
    BY <1>1, MaxFdAssumption DEF StreamsSettled, Standard, Number
  <2>2. new \notin Standard
    BY <1>2, <2>1
  <2> QED
    BY <1>1, <1>2, <2>1, <2>2 DEF StreamsSettled, TypeOK, settings, Opening,
       Daemonizing, Serving
<1>7. HandlersInstalled'
  BY <1>1 DEF HandlersInstalled, TypeOK, Daemonizing, Opening, Serving, settings, signals
<1> QED
  BY <1>3, <1>4, <1>5, <1>6, <1>7

LEMMA NullKeeps ==
  ASSUME IInv, open_dev_null, pc' = "redirect"
  PROVE  IInv'
<1> USE DEF IInv
<1> DEFINE new == Lowest(fds)
<1>1. /\ pc = "null" /\ pc' = "redirect" /\ ~ Full(fds)
      /\ fd_dev_null' = new /\ fds' = Opened(fds, "null")
      /\ UNCHANGED <<settings, log_fd, server, signals, left>>
  BY DEF open_dev_null, Goes
<1>2. /\ fds' \in [Number -> File] /\ new \in Number
      /\ fds[new] = "none" /\ fds'[new] = "null"
      /\ \A n \in Number \ {new} : fds'[n] = fds[n]
  BY <1>1, OpenedIs, LowestIsFree DEF TypeOK, File
<1> HIDE DEF new
<1>3. TypeOK'
  BY <1>1, <1>2 DEF TypeOK, settings, server, signals, Places
<1>4. Owners'
  BY <1>1, <1>2 DEF Owners, server
<1>5. Kept' /\ NotYet'
  BY <1>1, <1>2 DEF Kept, NotYet, Starting, Up, Serving, server
<1>6. StreamsSettled'
  <2> SUFFICES ASSUME inherited = Standard PROVE StreamsSettled'
    BY <1>1 DEF StreamsSettled, settings
  <2>1. \A n \in Standard : n \in Number /\ fds[n] = "terminal"
    BY <1>1, MaxFdAssumption DEF StreamsSettled, Standard, Number
  <2>2. new \notin Standard
    BY <1>2, <2>1
  <2>3. log_fd' \in Number \ Standard /\ fds'[log_fd'] = "log"
    BY <1>1, <1>2 DEF StreamsSettled, Daemonizing
  <2> QED
    BY <1>1, <1>2, <2>1, <2>2, <2>3 DEF StreamsSettled, Opening, Daemonizing, Serving
<1>7. HandlersInstalled'
  BY <1>1 DEF HandlersInstalled, Daemonizing, Opening, Serving, settings, signals
<1> QED
  BY <1>3, <1>4, <1>5, <1>6, <1>7

(* create_server_socket and create_epoll where they succeed: the new       *)
(* number is kept, and only its owner has changed.                         *)
LEMMA ServerKeeps ==
  ASSUME IInv, create_server_socket, pc' = "epoll"
  PROVE  IInv'
<1> USE DEF IInv
<1> DEFINE new == Lowest(fds)
<1>1. /\ pc = "socket" /\ pc' = "epoll" /\ ~ Full(fds)
      /\ server_fd_' = new /\ fds' = Opened(fds, "server")
      /\ bound' = port % 2^16
      /\ UNCHANGED <<settings, log_fd, fd_dev_null, epoll_fd_, clients_, signals, left>>
  BY DEF create_server_socket, Goes
<1>2. /\ fds' \in [Number -> File] /\ new \in Number
      /\ fds[new] = "none" /\ fds'[new] = "server"
      /\ \A n \in Number \ {new} : fds'[n] = fds[n]
  BY <1>1, OpenedIs, LowestIsFree DEF TypeOK, File
<1> HIDE DEF new
<1>3. TypeOK'
  <2>1. bound' \in -1..(2^16 - 1)
    BY <1>1, Ports DEF TypeOK
  <2>2. /\ {log_fd, fd_dev_null, server_fd_, epoll_fd_}' \subseteq Number \cup {-1}
        /\ (clients_ \subseteq Number)' /\ (pc \in Places)'
    BY <1>1, <1>2 DEF TypeOK, Places
  <2>3. (/\ port \in Int /\ daemon_enabled \in BOOLEAN
         /\ keep_running \in BOOLEAN /\ handled \subseteq Signal)'
    BY <1>1 DEF TypeOK, settings, signals
  <2> QED  BY <1>1, <1>2, <2>1, <2>2, <2>3 DEF TypeOK
<1>4. Owners'
  <2>1. \A n \in Number : fds[n] # "server"
    BY <1>1, MaxFdAssumption DEF Owners, NotYet, Starting, Number
  <2> QED
    BY <1>1, <1>2, <2>1 DEF Owners
<1>5. Kept' /\ NotYet'
  BY <1>1, <1>2 DEF Kept, NotYet, Starting, Up, Serving
<1>6. StreamsSettled'
  <2> SUFFICES ASSUME inherited = Standard PROVE StreamsSettled'
    BY <1>1 DEF StreamsSettled, settings
  <2>1. \A n \in Standard : n \in Number /\ n # new /\ fds'[n] = fds[n]
    BY <1>1, <1>2, MaxFdAssumption DEF StreamsSettled, Standard, Number, Opening
  <2>2. log_fd' \in Number \ Standard /\ fds'[log_fd'] = "log"
    BY <1>1, <1>2 DEF StreamsSettled, Opening
  <2> QED
    BY <1>1, <2>1, <2>2 DEF StreamsSettled, Opening, Daemonizing, Serving, settings
<1>7. HandlersInstalled'
  BY <1>1 DEF HandlersInstalled, Daemonizing, Opening, Serving, settings, signals
<1> QED
  BY <1>3, <1>4, <1>5, <1>6, <1>7

LEMMA EpollKeeps ==
  ASSUME IInv, create_epoll, pc' = "register"
  PROVE  IInv'
<1> USE DEF IInv
<1> DEFINE new == Lowest(fds)
<1>1. /\ pc = "epoll" /\ pc' = "register" /\ ~ Full(fds)
      /\ epoll_fd_' = new /\ fds' = Opened(fds, "epoll")
      /\ UNCHANGED <<settings, log_fd, fd_dev_null, server_fd_, clients_, bound,
                     signals, left>>
  BY DEF create_epoll, Goes
<1>2. /\ fds' \in [Number -> File] /\ new \in Number
      /\ fds[new] = "none" /\ fds'[new] = "epoll"
      /\ \A n \in Number \ {new} : fds'[n] = fds[n]
  BY <1>1, OpenedIs, LowestIsFree DEF TypeOK, File
<1> HIDE DEF new
<1>3. TypeOK'
  BY <1>1, <1>2 DEF TypeOK, settings, signals, Places
<1>4. Owners'
  <2>1. \A n \in Number : fds[n] # "epoll"
    BY <1>1, MaxFdAssumption DEF Owners, NotYet, Starting, Number
  <2> QED
    BY <1>1, <1>2, <2>1 DEF Owners
<1>5. Kept' /\ NotYet'
  BY <1>1, <1>2 DEF Kept, NotYet, Starting, Up, Serving
<1>6. StreamsSettled'
  <2> SUFFICES ASSUME inherited = Standard PROVE StreamsSettled'
    BY <1>1 DEF StreamsSettled, settings
  <2>1. \A n \in Standard : n \in Number /\ n # new /\ fds'[n] = fds[n]
    BY <1>1, <1>2, MaxFdAssumption DEF StreamsSettled, Standard, Number, Opening
  <2>2. log_fd' \in Number \ Standard /\ fds'[log_fd'] = "log"
    BY <1>1, <1>2 DEF StreamsSettled, Opening
  <2> QED
    BY <1>1, <2>1, <2>2 DEF StreamsSettled, Opening, Daemonizing, Serving, settings
<1>7. HandlersInstalled'
  BY <1>1 DEF HandlersInstalled, Daemonizing, Opening, Serving, settings, signals
<1> QED
  BY <1>3, <1>4, <1>5, <1>6, <1>7

-----------------------------------------------------------------------------
(* daemonize replaces numbers that are not the server's: it has none yet.  *)
LEMMA RedirectKeeps == IInv /\ redirect => IInv'
<1> SUFFICES ASSUME IInv, redirect PROVE IInv'
  OBVIOUS
<1> USE DEF IInv
<1>1. /\ pc = "redirect" /\ pc' = "SIGTERM"
      /\ UNCHANGED <<settings, log_fd, fd_dev_null, server, signals, left>>
  BY DEF redirect, Goes
<1>2. fd_dev_null \in Number
  BY <1>1 DEF NotYet
<1>3. /\ fds' \in [Number -> File]
      /\ \A n \in Number :
           fds'[n] = (IF n = fd_dev_null THEN "none"
                      ELSE IF n \in Standard THEN fds[fd_dev_null] ELSE fds[n])
  BY <1>2 DEF redirect, Closed, Duplicated, TypeOK, File
<1>4. TypeOK'
  BY <1>1, <1>3 DEF TypeOK, settings, server, signals, Places
<1>5. Owners'
  <2>1. \A n \in Number : fds[n] \notin {"server", "epoll", "client"}
    BY <1>1, MaxFdAssumption DEF Owners, NotYet, Starting, Number
  <2> QED
    BY <1>2, <1>3, <2>1 DEF Owners
<1>6. Kept' /\ NotYet'
  BY <1>1 DEF Kept, NotYet, Starting, Up, Serving, server
<1>7. StreamsSettled'
  <2> SUFFICES ASSUME inherited = Standard PROVE StreamsSettled'
    BY <1>1 DEF StreamsSettled, settings
  <2>1. /\ fd_dev_null \in Number \ Standard /\ fds[fd_dev_null] = "null"
        /\ log_fd \in Number \ Standard /\ fds[log_fd] = "log"
    BY <1>1 DEF StreamsSettled, Daemonizing
  <2>2. \A n \in Standard : n \in Number
    BY MaxFdAssumption DEF Standard, Number
  <2>3. \A n \in Standard : fds'[n] = "null"
    BY <1>3, <2>1, <2>2
  <2>4. fds'[log_fd] = "log"
    BY <1>3, <2>1
  <2> QED
    BY <1>1, <2>1, <2>3, <2>4 DEF StreamsSettled, Opening, Daemonizing, Serving
<1>8. HandlersInstalled'
  BY <1>1 DEF HandlersInstalled, Daemonizing, Opening, Serving, settings, signals
<1> QED
  BY <1>4, <1>5, <1>6, <1>7, <1>8

(* The error paths of the start and the destructor close numbers, some of  *)
(* them free already; the server is down then, and owns what is left.      *)
LEMMA DownKeeps ==
  ASSUME IInv, NEW numbers, fds' = Closed(fds, numbers),
         clients_' \subseteq clients_,
         \A n \in Number : fds[n] = "client" /\ n \notin numbers => n \in clients_',
         pc' \in {"error", "returned", "stopped"},
         UNCHANGED <<settings, log_fd, fd_dev_null, server_fd_, epoll_fd_, bound,
                     signals, left>>
  PROVE  IInv'
<1> USE DEF IInv
<1>1. /\ fds' \in [Number -> File]
      /\ \A n \in Number :
           fds'[n] = (IF n \in numbers THEN "none" ELSE fds[n])
  BY ClosedIs DEF TypeOK
<1>2. TypeOK'
  BY <1>1 DEF TypeOK, settings, signals, Places, Ended
<1>3. Owners'
  BY <1>1 DEF Owners
<1>4. Kept' /\ NotYet'
  BY DEF Kept, NotYet, Starting, Up, Serving
<1>5. StreamsSettled' /\ HandlersInstalled'
  BY DEF StreamsSettled, HandlersInstalled, Opening, Daemonizing, Serving
<1> QED
  BY <1>2, <1>3, <1>4, <1>5

-----------------------------------------------------------------------------
(* The handlers of events change clients' numbers only.                    *)
LEMMA EventsKeep ==
  ASSUME IInv, handle_events \/ accept_new_client \/ handle_client_read
  PROVE  IInv'
<1> USE DEF IInv, Handling
<1>0. left' \in 0..MAX_EVENTS
  BY StartAssumption DEF handle_events, accept_new_client, handle_client_read, Goes, TypeOK
<1>1. /\ pc \in Handling /\ pc' \in Handling \cup {"test"}
      /\ UNCHANGED <<settings, log_fd, fd_dev_null, server_fd_, epoll_fd_, bound, signals>>
  BY DEF handle_events, accept_new_client, handle_client_read, Goes
<1>2. /\ server_fd_ \in Number /\ fds[server_fd_] = "server"
      /\ epoll_fd_ \in Number /\ fds[epoll_fd_] = "epoll"
      /\ \A c \in clients_ : c \in Number /\ fds[c] = "client"
  BY <1>1 DEF Kept, TypeOK, Up, Serving
<1> DEFINE OnlyClientsChange ==
      /\ fds' \in [Number -> File] /\ clients_' \subseteq Number
      /\ \A n \in Number :
           \/ fds'[n] = fds[n] /\ (n \in clients_' <=> n \in clients_)
           \/ fds[n] = "none" /\ fds'[n] = "client" /\ n \in clients_'
           \/ fds[n] = "client" /\ fds'[n] = "none" /\ n \notin clients_'
<1>3. OnlyClientsChange
  <2>1. CASE UNCHANGED <<fds, clients_>>
    BY <2>1 DEF TypeOK
  <2>2. CASE accept_client
    <3> DEFINE new == Lowest(fds)
    <3>1. /\ ~ Full(fds) /\ clients_' = clients_ \cup {new}
          /\ fds' = Opened(fds, "client")
      BY <2>2 DEF accept_client
    <3>2. /\ fds' \in [Number -> File] /\ new \in Number
          /\ fds[new] = "none" /\ fds'[new] = "client"
          /\ \A n \in Number \ {new} : fds'[n] = fds[n]
      BY <3>1, OpenedIs, LowestIsFree DEF TypeOK, File
    <3> HIDE DEF new
    <3> QED
      BY <3>1, <3>2 DEF TypeOK
  <2>3. ASSUME NEW c \in clients_, disconnect_client(c)
        PROVE  OnlyClientsChange
    <3>1. /\ fds' \in [Number -> File] /\ clients_' = clients_ \ {c}
          /\ \A n \in Number : fds'[n] = (IF n = c THEN "none" ELSE fds[n])
      BY <2>3 DEF disconnect_client, Closed, TypeOK, File
    <3> QED
      BY <1>2, <3>1 DEF TypeOK
  <2>4. \/ UNCHANGED <<fds, clients_>>
        \/ accept_client
        \/ \E c \in clients_ : disconnect_client(c)
    BY DEF handle_events, accept_new_client, handle_client_read
  <2> QED
    BY <2>1, <2>2, <2>3, <2>4
<1>4. TypeOK'
  BY <1>0, <1>1, <1>3 DEF TypeOK, settings, signals, Places, Serving
<1>5. Owners'
  BY <1>1, <1>3 DEF Owners
<1>6. Kept'
  BY <1>1, <1>2, <1>3 DEF Kept
<1>7. StreamsSettled'
  <2> SUFFICES ASSUME inherited = Standard PROVE StreamsSettled'
    BY <1>1 DEF StreamsSettled, settings
  <2>1. /\ \A n \in Standard :
             n \in Number /\ fds[n] = (IF daemon_enabled THEN "null" ELSE "terminal")
        /\ log_fd \in Number \ Standard /\ fds[log_fd] = "log"
    BY <1>1, MaxFdAssumption DEF StreamsSettled, Standard, Number, Serving
  <2>2. (\A n \in Standard : fds'[n] = fds[n]) /\ fds'[log_fd] = fds[log_fd]
    BY <1>3, <2>1
  <2> QED
    BY <1>1, <2>1, <2>2 DEF StreamsSettled, Opening, Daemonizing, Serving,
                            settings
<1>8. NotYet' /\ HandlersInstalled'
  BY <1>1 DEF NotYet, HandlersInstalled, Starting, Daemonizing, Opening, Serving,
              settings, signals
<1> QED
  BY <1>4, <1>5, <1>6, <1>7, <1>8

LEMMA StepKeeps == IInv /\ [Next]_vars => IInv'
<1> SUFFICES ASSUME IInv, [Next]_vars PROVE IInv'
  OBVIOUS
<1>1. CASE read_config
  BY <1>1, ReadKeeps
<1>2. CASE init_logger
  BY <1>2, LogKeeps
<1>3. CASE fork \/ install_handler \/ test \/ epoll_wait \/ wake
  BY <1>3, WalkKeeps
<1>4. CASE \E s \in Signal : signal(s)
  BY <1>4, WalkKeeps
<1>5. CASE open_dev_null
  <2>1. CASE pc' = "redirect"
    BY <1>5, <2>1, NullKeeps
  <2>2. CASE pc' # "redirect"
    <3>1. /\ pc' = "exited"
          /\ UNCHANGED <<settings, fds, fd_dev_null, log_fd, server, signals, left>>
      BY <1>5, <2>2 DEF open_dev_null, Goes
    <3> QED
      BY <3>1 DEF IInv, TypeOK, Owners, Kept, NotYet, StreamsSettled,
         HandlersInstalled, settings, server, signals, Places, Ended, Serving,
         Up, Starting, Daemonizing, Opening
  <2> QED  BY <2>1, <2>2
<1>6. CASE redirect
  BY <1>6, RedirectKeeps
<1>7. CASE create_server_socket
  BY <1>7, ServerKeeps, WalkKeeps DEF create_server_socket, Goes
<1>8. CASE create_epoll
  <2>1. CASE pc' = "register"
    BY <1>8, <2>1, EpollKeeps
  <2>2. CASE pc' # "register"
    <3>1. /\ pc' = "error" /\ fds' = Closed(fds, {server_fd_})
          /\ UNCHANGED <<settings, log_fd, fd_dev_null, server_fd_, epoll_fd_,
                         clients_, bound, signals, left>>
      BY <1>8, <2>2 DEF create_epoll, Goes
    <3>2. \A n \in Number : fds[n] = "client" => n \in clients_'
      BY <3>1 DEF IInv, Owners
    <3> QED
      BY <3>1, <3>2, DownKeeps
  <2> QED  BY <2>1, <2>2
<1>9. CASE register_server
  <2>1. CASE pc' = "test"
    BY <1>9, <2>1, WalkKeeps
  <2>2. CASE pc' # "test"
    <3>1. /\ pc' = "error" /\ fds' = Closed(fds, {server_fd_, epoll_fd_})
          /\ UNCHANGED <<settings, log_fd, fd_dev_null, server, signals, left>>
      BY <1>9, <2>2 DEF register_server, Goes
    <3>2. \A n \in Number : fds[n] = "client" => n \in clients_'
      BY <3>1 DEF IInv, Owners, server
    <3> QED
      BY <3>1, <3>2, DownKeeps DEF server
  <2> QED  BY <2>1, <2>2
<1>10. CASE handle_events \/ accept_new_client \/ handle_client_read
  BY <1>10, EventsKeep
<1>11. CASE destroy
  <2>1. /\ pc' \in {"returned", "stopped"}
        /\ fds' = Closed(fds, {server_fd_, epoll_fd_} \cup clients_) /\ clients_' = {}
        /\ UNCHANGED <<settings, log_fd, fd_dev_null, server_fd_, epoll_fd_, bound,
                       signals, left>>
    BY <1>11 DEF destroy, Goes
  <2>2. \A n \in Number : fds[n] = "client" => n \in clients_
    BY DEF IInv, Owners
  <2> QED
    BY <2>1, <2>2, DownKeeps
<1>12. CASE UNCHANGED vars
  BY <1>12 DEF vars, IInv, TypeOK, Owners, Kept, NotYet, StreamsSettled,
     HandlersInstalled, settings, server, signals
<1> QED
  BY <1>1, <1>2, <1>3, <1>4, <1>5, <1>6, <1>7, <1>8, <1>9, <1>10, <1>11, <1>12
     DEF Next, Process

-----------------------------------------------------------------------------
(* The process is always in a state of its type.                           *)
THEOREM LifecycleTypeCorrect == Spec => []TypeOK
<1>1. IInv => TypeOK
  BY DEF IInv
<1> QED
  BY <1>1, StartKeeps, StepKeeps, PTL DEF Spec

(* The descriptors a serving process holds for its listener, its epoll set *)
(* and its clients are theirs: second closes and dup2 hit no other.        *)
THEOREM DescriptorsAreOwn == Spec => []OwnDescriptors
<1>1. IInv => OwnDescriptors
  <2> SUFFICES ASSUME IInv, pc \in Up
               PROVE  /\ fds[server_fd_] = "server"
                      /\ fds[epoll_fd_] = "epoll"
                      /\ \A c \in clients_ : fds[c] = "client"
                      /\ {n \in Number : fds[n] = "client"} = clients_
    BY DEF OwnDescriptors, Up
  <2>1. /\ fds[server_fd_] = "server" /\ fds[epoll_fd_] = "epoll"
        /\ \A c \in clients_ : fds[c] = "client"
    BY DEF IInv, Kept
  <2>2. {n \in Number : fds[n] = "client"} = clients_
    BY <2>1 DEF IInv, Owners, TypeOK
  <2> QED
    BY <2>1, <2>2
<1> QED
  BY <1>1, StartKeeps, StepKeeps, PTL DEF Spec

(* Whether run fails at its start or its loop ends, none of the server's   *)
(* descriptors is open after the destructor.                               *)
THEOREM NothingIsLeaked == Spec => []NothingLeaks
<1>1. Init => NothingLeaks
  BY DEF Init, NothingLeaks
<1>2. IInv /\ NothingLeaks /\ [Next]_vars => NothingLeaks'
  <2> SUFFICES ASSUME IInv, NothingLeaks, [Next]_vars,
                      pc' \in {"returned", "stopped"}
               PROVE  \A n \in Number : fds'[n] \notin {"server", "epoll", "client"}
    BY DEF NothingLeaks
  <2>1. CASE destroy
    <3>1. fds' = Closed(fds, {server_fd_, epoll_fd_} \cup clients_)
      BY <2>1 DEF destroy
    <3> QED
      BY <3>1, ClosedIs DEF IInv, TypeOK, Owners
  <2>2. CASE UNCHANGED vars
    BY <2>2 DEF vars, NothingLeaks
  <2>3. ~ (\E s \in Signal : signal(s))
    BY DEF signal, Ended
  <2>4. ASSUME Next PROVE destroy
    BY <2>3, <2>4 DEF Next, Process, read_config, init_logger, fork, open_dev_null,
       redirect, install_handler, create_server_socket, create_epoll,
       register_server, test, epoll_wait, handle_events, accept_new_client,
       handle_client_read, wake, Goes
  <2> QED
    BY <2>1, <2>2, <2>4
<1> QED
  BY <1>1, <1>2, StartKeeps, StepKeeps, PTL DEF Spec

(* A process that starts with its standard descriptors open keeps its log  *)
(* file and has no socket among them, redirected or not.                   *)
THEOREM StreamsAreKept == Spec => []StandardStreams
<1>1. IInv => StandardStreams
  BY DEF IInv, StreamsSettled, StandardStreams
<1> QED
  BY <1>1, StartKeeps, StepKeeps, PTL DEF Spec

(* From its first socket on, no SIGTERM or SIGINT kills a daemon.          *)
THEOREM DaemonsAreNotKilled == Spec => DaemonNotKilled
<1>1. IInv /\ [Next]_vars =>
        [(daemon_enabled /\ pc \in Serving \cup {"socket", "epoll", "register"})
           => pc' # "killed"]_vars
  <2> SUFFICES ASSUME IInv, Next, daemon_enabled, pc \in Opening \cup Serving,
                      pc' = "killed"
               PROVE  FALSE
    BY DEF Opening
  <2>1. handled = Signal
    BY DEF IInv, HandlersInstalled
  <2>2. ~ (\E s \in Signal : signal(s))
    BY <2>1 DEF signal, Opening, Serving
  <2> QED
    BY <2>2 DEF Next, Process, read_config, init_logger, fork, open_dev_null,
       redirect, install_handler, create_server_socket, create_epoll,
       register_server, test, epoll_wait, handle_events, accept_new_client,
       handle_client_read, destroy, wake, Goes
<1> QED
  BY <1>1, StartKeeps, StepKeeps, PTL DEF Spec, DaemonNotKilled

-----------------------------------------------------------------------------
(* server.env.  What is before a comment, and how much of a line it is.    *)
End(line) == IF Find(line, "#") = 0 THEN Len(line) ELSE Find(line, "#") - 1

(* It is the line up to its first "#", which may be all of it.             *)
LEMMA UncommentedIs ==
  ASSUME NEW S, NEW line \in Seq(S)
  PROVE  /\ End(line) \in 0..Len(line)
         /\ Uncommented(line) = SubSeq(line, 1, End(line))
         /\ Uncommented(line) \in Seq(S) /\ Len(Uncommented(line)) = End(line)
         /\ \A i \in 1..End(line) : Uncommented(line)[i] = line[i]
<1> DEFINE hash == Find(line, "#")
<1>1. /\ hash \in 0..Len(line)
      /\ hash = 0 => \A i \in 1..Len(line) : line[i] # "#"
      /\ hash # 0 => line[hash] = "#" /\ \A i \in 1..(hash - 1) : line[i] # "#"
  BY FindIs
<1> HIDE DEF hash
<1>2. End(line) = IF hash = 0 THEN Len(line) ELSE hash - 1
  BY DEF End, hash
<1>3. End(line) \in 0..Len(line)
  BY <1>1, <1>2
<1>4. Uncommented(line) = SubSeq(line, 1, End(line))
  <2>1. CASE hash = 0
    <3>1. Uncommented(line) = line
      BY <1>1, <2>1 DEF Uncommented, Contains
    <3> QED
      BY <1>2, <2>1, <3>1, SubSeqFull
  <2>2. CASE hash # 0
    <3> DEFINE First(n) == line[n] = "#" /\ \A m \in 1..(n - 1) : line[m] # "#"
    <3>1. hash \in 1..Len(line) /\ First(hash)
      BY <1>1, <2>2
    <3>2. \A n \in 1..Len(line) : First(n) => n = hash
      <4> SUFFICES ASSUME NEW n \in 1..Len(line), First(n) PROVE n = hash
        OBVIOUS
      <4>1. ~ (n < hash) /\ ~ (hash < n)
        BY <3>1
      <4> QED
        BY <3>1, <4>1
    <3>3. Contains(line, "#")
      BY <3>1 DEF Contains
    <3>4. Uncommented(line) = SubSeq(line, 1, (CHOOSE n \in 1..Len(line) : First(n)) - 1)
      BY <3>3 DEF Uncommented
    <3> HIDE DEF First
    <3>5. (CHOOSE n \in 1..Len(line) : First(n)) = hash
      BY <3>1, <3>2
    <3> QED
      BY <1>2, <2>2, <3>4, <3>5
  <2> QED  BY <2>1, <2>2
<1>5. /\ SubSeq(line, 1, End(line)) \in Seq(S)
      /\ Len(SubSeq(line, 1, End(line))) = End(line) - 1 + 1
      /\ \A i \in 1..(End(line) - 1 + 1) : SubSeq(line, 1, End(line))[i] = line[1 + i - 1]
  <2>1. 1 \in 1..(Len(line) + 1) /\ End(line) \in (1 - 1)..Len(line)
    BY <1>3
  <2> QED
    BY <2>1, Piece
<1>6. End(line) - 1 + 1 = End(line) /\ \A i \in 1..End(line) : 1 + i - 1 = i
  BY <1>3
<1> QED
  BY <1>3, <1>4, <1>5, <1>6

(* A line that parse_line does not skip assigns the value that parse_line  *)
(* enters to the key it enters it for, and every other line assigns        *)
(* nothing.                                                                *)
LEMMA LineMeans ==
  ASSUME NEW S, NEW line \in Seq(S), NEW key
  PROVE  /\ Assigns(line, key) = IF ~ Skipped(line) /\ Key(line) = key
                                 THEN {Find(line, "=")} ELSE {}
         /\ ~ Skipped(line) => /\ TrimmedOf(Right(line, Find(line, "=")), Value(line))
                               /\ Key(line) \in Seq(S) /\ Value(line) \in Seq(S)
                               /\ Find(line, "=") \in 2..End(line)
                               /\ Right(line, Find(line, "=")) =
                                    SubSeq(line, Find(line, "=") + 1, End(line))
<1> DEFINE hash == Find(line, "#")
           equal == Find(line, "=")
<1>1. /\ hash \in 0..Len(line)
      /\ hash = 0 => \A i \in 1..Len(line) : line[i] # "#"
      /\ hash # 0 => line[hash] = "#" /\ \A i \in 1..(hash - 1) : line[i] # "#"
  BY FindIs
<1>2. /\ equal \in 0..Len(line)
      /\ equal = 0 => \A i \in 1..Len(line) : line[i] # "="
      /\ equal # 0 => line[equal] = "=" /\ \A i \in 1..(equal - 1) : line[i] # "="
  BY FindIs
<1>3. Skipped(line) <=> hash = 1 \/ equal \in {0, 1, Len(line)} \/ (hash # 0 /\ equal > hash)
  BY DEF Skipped
<1>4. /\ End(line) = IF hash = 0 THEN Len(line) ELSE hash - 1
      /\ End(line) \in 0..Len(line) /\ Len(Uncommented(line)) = End(line)
      /\ Uncommented(line) \in Seq(S)
      /\ \A i \in 1..End(line) : Uncommented(line)[i] = line[i]
  BY UncommentedIs DEF End
<1>5. Key(line) = trim(SubSeq(line, 1, equal - 1))
  BY DEF Key
<1>6. Value(line) = trim(SubSeq(line, equal + 1, End(line)))
  BY DEF Value, End
<1>7. \A n : n \in Assigns(line, key) <=>
        /\ n \in 2..Len(Uncommented(line)) /\ n # Len(line)
        /\ line[n] = "=" /\ \A m \in 1..(n - 1) : line[m] # "="
        /\ TrimmedOf(SubSeq(line, 1, n - 1), key)
  BY DEF Assigns, Left
<1> HIDE DEF hash, equal
<1>8. ~ Skipped(line) => equal \in 2..End(line) /\ equal # Len(line)
  BY <1>1, <1>2, <1>3, <1>4
<1>9. \A n \in 2..End(line) : line[n] = "=" /\ (\A m \in 1..(n - 1) : line[m] # "=")
        => n = equal
  <2> SUFFICES ASSUME NEW n \in 2..End(line), line[n] = "=",
                      \A m \in 1..(n - 1) : line[m] # "="
               PROVE  n = equal
    OBVIOUS
  <2>1. n \in 1..Len(line) /\ equal # 0
    BY <1>2, <1>4
  <2>2. ~ (n < equal) /\ ~ (equal < n)
    BY <1>2, <2>1
  <2> QED
    BY <1>2, <2>1, <2>2
<1>10. ASSUME equal \in 2..End(line), equal # Len(line) PROVE ~ Skipped(line)
  BY <1>1, <1>2, <1>3, <1>4, <1>10
<1>11. ASSUME ~ Skipped(line)
       PROVE  /\ SubSeq(line, 1, equal - 1) \in Seq(S)
              /\ TrimmedOf(SubSeq(line, 1, equal - 1), key) <=> Key(line) = key
              /\ Key(line) \in Seq(S)
  <2>1. 1 \in 1..(Len(line) + 1) /\ equal - 1 \in (1 - 1)..Len(line)
    BY <1>4, <1>8, <1>11
  <2>2. SubSeq(line, 1, equal - 1) \in Seq(S)
    BY <2>1, Piece
  <2>3. TrimmedOf(SubSeq(line, 1, equal - 1), key) <=> key = Key(line)
    BY <1>5, <2>2, TrimMeans
  <2> QED
    BY <1>5, <2>2, <2>3, TrimIs
<1>12. Assigns(line, key) = IF ~ Skipped(line) /\ Key(line) = key THEN {equal} ELSE {}
  <2>1. \A n : n \in Assigns(line, key) => n = equal /\ ~ Skipped(line)
    BY <1>4, <1>7, <1>9, <1>10
  <2>2. ~ Skipped(line) => (equal \in Assigns(line, key) <=> Key(line) = key)
    BY <1>2, <1>4, <1>7, <1>8, <1>11
  <2> QED
    BY <2>1, <2>2
<1>13. ASSUME ~ Skipped(line)
       PROVE  /\ TrimmedOf(Right(line, equal), Value(line)) /\ Value(line) \in Seq(S)
              /\ equal \in 2..End(line)
              /\ Right(line, equal) = SubSeq(line, equal + 1, End(line))
  <2> DEFINE u == Uncommented(line)
             v == SubSeq(line, equal + 1, End(line))
             r == SubSeq(u, equal + 1, Len(u))
  <2>1. equal \in 2..End(line)
    BY <1>8, <1>13
  <2>2. /\ v \in Seq(S) /\ Len(v) = End(line) - (equal + 1) + 1
        /\ \A i \in 1..(End(line) - (equal + 1) + 1) : v[i] = line[equal + 1 + i - 1]
    <3>1. equal + 1 \in 1..(Len(line) + 1) /\ End(line) \in (equal + 1 - 1)..Len(line)
      BY <1>4, <2>1
    <3> QED
      BY <1>4, <2>1, <3>1, Piece, SMTT(40)
  <2>3. /\ r \in Seq(S) /\ Len(r) = End(line) - (equal + 1) + 1
        /\ \A i \in 1..(End(line) - (equal + 1) + 1) : r[i] = u[equal + 1 + i - 1]
    <3>1. equal + 1 \in 1..(Len(u) + 1) /\ Len(u) \in (equal + 1 - 1)..Len(u)
      BY <1>4, <2>1
    <3>2. u \in Seq(S) /\ Len(u) = End(line)
      BY <1>4
    <3> HIDE DEF u
    <3> QED
      BY <3>1, <3>2, Piece
  <2>4. \A i \in 1..(End(line) - (equal + 1) + 1) : r[i] = v[i]
    <3> SUFFICES ASSUME NEW i \in 1..(End(line) - (equal + 1) + 1) PROVE r[i] = v[i]
      OBVIOUS
    <3>1. equal + 1 + i - 1 \in 1..End(line)
      BY <1>4, <2>1
    <3>2. u[equal + 1 + i - 1] = line[equal + 1 + i - 1]
      BY <1>4, <3>1
    <3> HIDE DEF u, v, r
    <3> QED
      BY <2>2, <2>3, <3>2
  <2>5. r = v
    <3> HIDE DEF v, r
    <3> QED  BY <2>2, <2>3, <2>4, SeqEqual
  <2>6. Right(line, equal) = r
    BY DEF Right, From
  <2>7. Right(line, equal) = SubSeq(line, equal + 1, End(line))
    BY <2>5, <2>6
  <2> HIDE DEF v, r
  <2>8. Value(line) = trim(v)
    BY <1>6 DEF v
  <2>9. TrimmedOf(Right(line, equal), Value(line)) /\ Value(line) \in Seq(S)
    BY <2>2, <2>5, <2>6, <2>8, TrimMeans, TrimIs
  <2> QED
    BY <2>1, <2>7, <2>9
<1> QED
  BY <1>11, <1>12, <1>13 DEF equal

(* What data_ may be: any keys, with a value each.                         *)
Tables(S) == UNION {[K -> Seq(S)] : K \in SUBSET Seq(S)}

LEMMA TablesAre ==
  ASSUME NEW S, NEW K \in SUBSET Seq(S), NEW d \in [K -> Seq(S)]
  PROVE  d \in Tables(S)
BY DEF Tables

(* A line that is skipped changes nothing, another one only its key.       *)
LEMMA ParsedIs ==
  ASSUME NEW S, NEW line \in Seq(S), NEW d \in Tables(S)
  PROVE  /\ parse_line(d, line) \in Tables(S)
         /\ \A k : k \in DOMAIN parse_line(d, line) <=>
                     \/ k \in DOMAIN d
                     \/ ~ Skipped(line) /\ k = Key(line)
         /\ \A k \in DOMAIN d \cup {Key(line)} :
              IF ~ Skipped(line) /\ k = Key(line)
              THEN parse_line(d, line)[k] = Value(line)
              ELSE parse_line(d, line)[k] = d[k]
<1>1. PICK K \in SUBSET Seq(S) : d \in [K -> Seq(S)]
  BY DEF Tables
<1>2. CASE Skipped(line)
  BY <1>2 DEF parse_line
<1>3. CASE ~ Skipped(line)
  <2> DEFINE e == Entered(d, line)
             L == K \cup {Key(line)}
  <2>1. parse_line(d, line) = e
    BY <1>3 DEF parse_line
  <2>2. e = [k \in L |-> IF k = Key(line) THEN Value(line) ELSE d[k]]
    BY <1>1 DEF Entered
  <2>3. Key(line) \in Seq(S) /\ Value(line) \in Seq(S)
    BY <1>3, LineMeans
  <2> HIDE DEF e
  <2>4. L \in SUBSET Seq(S) /\ e \in [L -> Seq(S)]
    BY <1>1, <2>2, <2>3
  <2>5. e \in Tables(S)
    BY <2>4, TablesAre
  <2> QED
    BY <1>1, <1>3, <2>1, <2>2, <2>5
<1> QED
  BY <1>2, <1>3

(* load enters one line after the other.                                   *)
Loads(file, data) ==
  data = [i \in 0..Len(file) |->
            IF i = 0 THEN <<>> ELSE parse_line(data[i - 1], file[i])]

(* The loop over the lines of the file has an outcome, line by line.       *)
LEMMA LoadIs ==
  ASSUME NEW S, NEW file \in Seq(Seq(S))
  PROVE  \E data : /\ load(file) = data[Len(file)]
                   /\ data \in [0..Len(file) -> Tables(S)]
                   /\ data[0] = <<>>
                   /\ \A i \in 1..Len(file) : data[i] = parse_line(data[i - 1], file[i])
<1>1. PICK n, T : n = Len(file) /\ T = Tables(S)
  OBVIOUS
<1>2. n \in Nat /\ \A i \in 1..n : file[i] \in Seq(S)
  BY <1>1
<1>3. <<>> \in T
  <2>1. <<>> \in [{} -> Seq(S)]
    OBVIOUS
  <2> QED
    BY <1>1, <2>1, TablesAre
<1>4. \A i \in 1..n : \A d \in T : parse_line(d, file[i]) \in T
  BY <1>1, <1>2, ParsedIs
<1>5. PICK step : step = [i \in 1..n |-> [d \in T |-> parse_line(d, file[i])]]
  OBVIOUS
<1>6. step \in Steps(n, T)
  BY <1>4, <1>5 DEF Steps
<1>7. PICK g : Solution(n, T, <<>>, step, g)
  BY <1>2, <1>3, <1>6, Recursion
<1>8. g \in [0..n -> T] /\ g[0] = <<>> /\ \A i \in 1..n : g[i] = step[i][g[i - 1]]
  BY <1>7 DEF Solution
<1>9. \A i \in 1..n : g[i] = parse_line(g[i - 1], file[i])
  <2> SUFFICES ASSUME NEW i \in 1..n PROVE g[i] = parse_line(g[i - 1], file[i])
    OBVIOUS
  <2>1. i - 1 \in 0..n
    BY <1>2
  <2>2. g[i - 1] \in T
    BY <1>8, <2>1
  <2> QED
    BY <1>5, <1>8, <2>2
<1>10. Loads(file, g)
  <2>1. \A i \in 0..n : g[i] = IF i = 0 THEN <<>> ELSE parse_line(g[i - 1], file[i])
    BY <1>2, <1>8, <1>9
  <2> QED
    BY <1>1, <1>8, <2>1 DEF Loads
<1> DEFINE data == CHOOSE a : Loads(file, a)
<1>11. load(file) = data[Len(file)]
  BY DEF load, Loads
<1>12. Loads(file, data)
  BY <1>10
<1> HIDE DEF data
<1>13. \A i \in 0..n : data[i] = IF i = 0 THEN <<>> ELSE parse_line(data[i - 1], file[i])
  BY <1>1, <1>12 DEF Loads
<1>14. \A i \in 0..n : data[i] = g[i]
  <2> DEFINE Bad == {i \in 0..n : data[i] # g[i]}
  <2>1. CASE Bad = {}
    BY <2>1
  <2>2. CASE Bad # {}
    <3>1. Bad \in SUBSET Nat
      OBVIOUS
    <3>2. PICK i \in Bad : \A m \in Bad : i <= m
      <4> HIDE DEF Bad
      <4> QED  BY <2>2, <3>1, LeastNumber
    <3>3. i \in 0..n /\ data[i] # g[i]
      OBVIOUS
    <3>4. i # 0
      BY <1>8, <1>13, <3>3
    <3>5. i - 1 \in 0..n /\ i - 1 \notin Bad /\ i \in 1..n
      <4> HIDE DEF Bad
      <4>1. i - 1 \in 0..n /\ ~ (i <= i - 1) /\ i \in 1..n
        BY <1>2, <3>3, <3>4
      <4> QED  BY <3>2, <4>1
    <3>6. data[i - 1] = g[i - 1]
      BY <3>5
    <3> QED
      BY <1>9, <1>13, <3>3, <3>4, <3>5, <3>6
  <2> QED  BY <2>1, <2>2
<1>15. data = [i \in 0..n |-> IF i = 0 THEN <<>> ELSE parse_line(data[i - 1], file[i])]
  BY <1>1, <1>12 DEF Loads
<1>16. data \in [0..n -> T]
  BY <1>8, <1>14, <1>15
<1>17. data[0] = <<>> /\ \A i \in 1..n : data[i] = parse_line(data[i - 1], file[i])
  <2>1. 0 \in 0..n /\ \A i \in 1..n : i \in 0..n /\ i # 0
    BY <1>2
  <2> QED
    BY <1>13, <2>1
<1>18. /\ load(file) = data[Len(file)] /\ data \in [0..Len(file) -> Tables(S)]
       /\ data[0] = <<>>
       /\ \A i \in 1..Len(file) : data[i] = parse_line(data[i - 1], file[i])
  BY <1>1, <1>11, <1>16, <1>17
<1> QED
  BY <1>18, Zenon

(* The value of a key is the one the last line about it gives it.          *)
THEOREM LoadMeans ==
  ASSUME NEW S, NEW file \in Seq(Seq(S)), NEW key, NEW default
  PROVE  Means(file, key, default, get(load(file), key, default))
<1> DEFINE Gives(j) == ~ Skipped(file[j]) /\ Key(file[j]) = key
<1>1. PICK data : /\ load(file) = data[Len(file)]
                  /\ data \in [0..Len(file) -> Tables(S)]
                  /\ data[0] = <<>>
                  /\ \A i \in 1..Len(file) : data[i] = parse_line(data[i - 1], file[i])
  BY LoadIs, Zenon
<1> DEFINE None(i) == (\A j \in 1..i : ~ Gives(j)) /\ key \notin DOMAIN data[i]
           Some(i, m) == /\ m \in 1..i /\ Gives(m) /\ (\A j \in (m + 1)..i : ~ Gives(j))
                         /\ key \in DOMAIN data[i] /\ data[i][key] = Value(file[m])
           Good(i) == None(i) \/ \E m \in 1..i : Some(i, m)
           Bad == {i \in 0..Len(file) : ~ Good(i)}
<1>2. Len(file) \in Nat /\ \A i \in 1..Len(file) : file[i] \in Seq(S)
  OBVIOUS
<1>3. Good(0)
  BY <1>1
<1>4. ASSUME NEW i \in 1..Len(file), Good(i - 1) PROVE Good(i)
  <2>1. i - 1 \in 0..Len(file) /\ i - 1 \in Nat
    BY <1>2
  <2>2. data[i - 1] \in Tables(S) /\ file[i] \in Seq(S)
    BY <1>1, <1>2, <2>1
  <2> DEFINE d == data[i - 1]
             line == file[i]
  <2>3. data[i] = parse_line(d, line)
    BY <1>1
  <2>4. /\ \A k : k \in DOMAIN data[i] <=>
                    \/ k \in DOMAIN d
                    \/ ~ Skipped(line) /\ k = Key(line)
        /\ \A k \in DOMAIN d \cup {Key(line)} :
             IF ~ Skipped(line) /\ k = Key(line)
             THEN data[i][k] = Value(line)
             ELSE data[i][k] = d[k]
    <3>1. d \in Tables(S) /\ line \in Seq(S)
      BY <2>2
    <3> HIDE DEF d, line
    <3> QED
      BY <2>3, <3>1, ParsedIs
  <2>5. CASE Gives(i)
    <3>1. key = Key(line) /\ ~ Skipped(line)
      BY <2>5
    <3> HIDE DEF d
    <3>2. key \in DOMAIN data[i] /\ data[i][key] = Value(file[i])
      BY <2>4, <3>1
    <3>3. i \in 1..i /\ \A j \in (i + 1)..i : ~ Gives(j)
      OBVIOUS
    <3> HIDE DEF Gives
    <3> QED
      BY <2>5, <3>2, <3>3
  <2>6. CASE ~ Gives(i)
    <3>1. ~ (~ Skipped(line) /\ key = Key(line))
      BY <2>6
    <3>2. key \in DOMAIN data[i] <=> key \in DOMAIN d
      <4> HIDE DEF d
      <4> QED  BY <2>4, <3>1
    <3>3. key \in DOMAIN d => data[i][key] = d[key]
      <4> HIDE DEF d
      <4> QED  BY <2>4, <3>1
    <3> HIDE DEF Gives
    <3>4. CASE None(i - 1)
      <4>1. \A j \in 1..i : j = i \/ j \in 1..(i - 1)
        OBVIOUS
      <4> QED
        BY <2>6, <3>2, <3>4, <4>1
    <3>5. CASE \E m \in 1..(i - 1) : Some(i - 1, m)
      <4>1. PICK m \in 1..(i - 1) : Some(i - 1, m)
        BY <3>5
      <4>2. m \in 1..i /\ \A j \in (m + 1)..i : j = i \/ j \in (m + 1)..(i - 1)
        OBVIOUS
      <4>3. Some(i, m)
        BY <2>6, <3>2, <3>3, <4>1, <4>2
      <4> QED
        BY <4>2, <4>3
    <3> QED
      BY <1>4, <3>4, <3>5
  <2> QED
    BY <2>5, <2>6
<1>5. Bad = {}
  <2> SUFFICES ASSUME Bad # {} PROVE FALSE
    OBVIOUS
  <2> HIDE DEF Good
  <2>1. Bad \in SUBSET Nat
    OBVIOUS
  <2>2. PICK i \in Bad : \A m \in Bad : i <= m
    <3> HIDE DEF Bad
    <3> QED  BY <2>1, LeastNumber
  <2>3. i \in 0..Len(file) /\ ~ Good(i)
    OBVIOUS
  <2>4. i # 0
    BY <1>3, <2>3
  <2>5. i \in 1..Len(file) /\ i - 1 \in 0..Len(file) /\ i - 1 \notin Bad
    <3> HIDE DEF Bad
    <3>1. i \in 1..Len(file) /\ i - 1 \in 0..Len(file) /\ ~ (i <= i - 1)
      BY <1>2, <2>3, <2>4
    <3> QED  BY <2>2, <3>1
  <2> QED
    BY <1>4, <2>3, <2>5
<1>6. Good(Len(file))
  <2> HIDE DEF Good
  <2> QED  BY <1>2, <1>5
<1> DEFINE n == Len(file)
           about == {i \in DOMAIN file : Assigns(file[i], key) # {}}
           value == get(load(file), key, default)
<1>7. \A j \in 1..n : j \in about <=> Gives(j)
  <2> SUFFICES ASSUME NEW j \in 1..n PROVE j \in about <=> Gives(j)
    OBVIOUS
  <2>1. PICK line : line = file[j]
    OBVIOUS
  <2>2. line \in Seq(S) /\ (j \in about <=> Assigns(line, key) # {})
    BY <1>2, <2>1
  <2>3. Assigns(line, key) # {} <=> ~ Skipped(line) /\ Key(line) = key
    <3> HIDE DEF about, value, Gives
    <3> QED  BY <2>2, LineMeans
  <2> QED
    BY <2>1, <2>2, <2>3
<1>8. about \subseteq 1..n
  OBVIOUS
<1>9. CASE None(n)
  <2>1. about = {}
    <3> HIDE DEF about, Gives
    <3> QED  BY <1>7, <1>8, <1>9
  <2>2. value = default
    BY <1>1, <1>9 DEF get
  <2> QED
    BY <2>1, <2>2 DEF Means
<1>10. ASSUME NEW m \in 1..n, Some(n, m)
       PROVE  Means(file, key, default, value)
  <2>1. m \in about /\ \A j \in about : m >= j
    <3> HIDE DEF about, Gives
    <3>1. \A j \in about : j \in 1..n /\ ~ (j \in (m + 1)..n)
      BY <1>7, <1>8, <1>10
    <3> QED
      BY <1>2, <1>7, <1>10, <3>1
  <2>2. Max(about) = m
    <3> HIDE DEF about
    <3>1. \A x \in about : (\A y \in about : x >= y) => x = m
      BY <1>2, <1>8, <2>1
    <3> QED
      BY <2>1, <3>1 DEF Max
  <2>3. value = Value(file[m])
    BY <1>1, <1>10 DEF get
  <2>4. file[m] \in Seq(S) /\ ~ Skipped(file[m]) /\ Key(file[m]) = key
    BY <1>2, <1>10
  <2>5. /\ Assigns(file[m], key) = {Find(file[m], "=")}
        /\ TrimmedOf(Right(file[m], Find(file[m], "=")), value)
    BY <2>3, <2>4, LineMeans
  <2>6. \E e \in Assigns(file[m], key) : TrimmedOf(Right(file[m], e), value)
    BY <2>5, Zenon
  <2> HIDE DEF value
  <2>7. \E e \in Assigns(file[Max(about)], key) :
           TrimmedOf(Right(file[Max(about)], e), value)
    BY <2>2, <2>6, Zenon
  <2>8. about # {}
    BY <2>1
  <2> QED
    BY <2>7, <2>8, Zenon DEF Means
<1> HIDE DEF value, Some, None
<1> QED
  BY <1>6, <1>9, <1>10 DEF value

(* What is right of an assignment's "=", up to a comment, is a piece of    *)
(* the line, and so is a piece of it.                                      *)
LEMMA RightIs ==
  ASSUME NEW S, NEW line \in Seq(S), ~ Skipped(line), NEW value,
         TrimmedOf(Right(line, Find(line, "=")), value)
  PROVE  Right(line, Find(line, "=")) \in Seq(S) /\ value \in SubSeqs(line)
<1> DEFINE m == Find(line, "=") + 1
           n == End(line)
           r == Right(line, Find(line, "="))
<1>1. /\ m \in 1..(Len(line) + 1) /\ n \in (m - 1)..Len(line) /\ Len(line) \in Nat
      /\ r = SubSeq(line, m, n)
  <2>1. Find(line, "=") \in 2..End(line) /\ r = SubSeq(line, m, n)
    BY LineMeans
  <2>2. End(line) \in 0..Len(line)
    BY UncommentedIs
  <2>3. Len(line) \in Nat
    OBVIOUS
  <2> HIDE DEF r
  <2> QED
    BY <2>1, <2>2, <2>3
<1> HIDE DEF m, n
<1>2. /\ r \in Seq(S) /\ Len(r) = n - m + 1
      /\ \A i \in 1..(n - m + 1) : r[i] = line[m + i - 1]
  BY <1>1, Piece
<1>3. PICK a, b \in 0..Len(r) : a <= b /\ value = SubSeq(r, a + 1, b)
  BY DEF TrimmedOf
<1> HIDE DEF r
<1>4. /\ value \in Seq(S) /\ Len(value) = b - a
      /\ \A i \in 1..(b - a) : value[i] = r[a + i]
  <2>1. a + 1 \in 1..(Len(r) + 1) /\ b \in (a + 1 - 1)..Len(r)
    BY <1>1, <1>2, <1>3
  <2>2. /\ SubSeq(r, a + 1, b) \in Seq(S) /\ Len(SubSeq(r, a + 1, b)) = b - (a + 1) + 1
        /\ \A i \in 1..(b - (a + 1) + 1) : SubSeq(r, a + 1, b)[i] = r[a + 1 + i - 1]
    BY <1>2, <2>1, Piece
  <2>3. b - (a + 1) + 1 = b - a /\ \A i \in 1..(b - a) : a + 1 + i - 1 = a + i
    BY <1>1, <1>2, <1>3
  <2> QED
    BY <1>3, <2>2, <2>3
<1> DEFINE p == SubSeq(line, m + a, m + b - 1)
<1>5. /\ p \in Seq(S) /\ Len(p) = b - a
      /\ \A i \in 1..(b - a) : p[i] = line[m + a + i - 1]
  <2> DEFINE from == m + a
             to == m + b - 1
  <2>1. from \in 1..(Len(line) + 1) /\ to \in (from - 1)..Len(line) /\ to - from + 1 = b - a
    BY <1>1, <1>2, <1>3
  <2>2. p = SubSeq(line, from, to)
    OBVIOUS
  <2> HIDE DEF p, from, to
  <2>3. /\ p \in Seq(S) /\ Len(p) = to - from + 1
        /\ \A i \in 1..(to - from + 1) : p[i] = line[from + i - 1]
    BY <2>1, <2>2, Piece
  <2> QED
    BY <2>1, <2>3 DEF from
<1>6. \A i \in 1..(b - a) : value[i] = p[i]
  <2> SUFFICES ASSUME NEW i \in 1..(b - a) PROVE value[i] = p[i]
    OBVIOUS
  <2>1. i \in Nat /\ a \in Nat /\ b \in Nat /\ m \in Nat /\ n \in Int /\ b <= n - m + 1
    BY <1>1, <1>2, <1>3
  <2>2. a + i \in 1..(n - m + 1) /\ m + (a + i) - 1 = m + a + i - 1
    <3>1. 1 <= i /\ i <= b - a
      BY <2>1
    <3> QED
      BY <2>1, <3>1
  <2> HIDE DEF p
  <2> QED
    BY <1>2, <1>4, <1>5, <2>2
<1>7. value = p
  <2> HIDE DEF p
  <2> QED  BY <1>4, <1>5, <1>6, SeqEqual
<1>8. value \in SubSeqs(line)
  <2> DEFINE i == m + a - 1
             j == m + b - 1
  <2>1. i \in 0..Len(line) /\ j \in 0..Len(line) /\ i + 1 = m + a
    BY <1>1, <1>2, <1>3
  <2>2. value = SubSeq(line, i + 1, j)
    BY <1>7, <2>1
  <2> HIDE DEF i, j
  <2> QED
    BY <2>1, <2>2 DEF SubSeqs
<1> QED
  BY <1>2, <1>8 DEF r

(* A file means one thing for a key, which is what get returns, and it is  *)
(* a piece of a line or the default.                                       *)
LEMMA MeantIsGot ==
  ASSUME NEW S, NEW file \in Seq(Seq(S)), NEW key, NEW default, NEW text
  PROVE  /\ Means(file, key, default, text) <=> text = get(load(file), key, default)
         /\ Means(file, key, default, text) =>
              text = default \/ \E i \in DOMAIN file : text \in SubSeqs(file[i])
<1> DEFINE about == {i \in DOMAIN file : Assigns(file[i], key) # {}}
           m == Max(about)
           e == Find(file[m], "=")
<1>1. CASE about = {}
  <2>1. \A v : Means(file, key, default, v) <=> v = default
    BY <1>1 DEF Means
  <2> QED
    BY <2>1, LoadMeans
<1>2. CASE about # {}
  <2>1. m \in about
    <3>1. Len(file) \in Nat /\ about \in SUBSET (0..Len(file))
      OBVIOUS
    <3> HIDE DEF about
    <3>2. \E n \in about : \A i \in about : n >= i
      <4>1. PICK n \in about : \A i \in about : i <= n
        BY <1>2, <3>1, GreatestNumber
      <4>2. \A i \in about : n >= i
        BY <3>1, <4>1
      <4> QED  BY <4>2
    <3> QED
      BY <3>2 DEF Max
  <2>2. m \in DOMAIN file /\ file[m] \in Seq(S) /\ Assigns(file[m], key) # {}
    <3> HIDE DEF m
    <3> QED  BY <2>1
  <2> HIDE DEF m, e
  <2>3. Assigns(file[m], key) = {e} /\ ~ Skipped(file[m])
    BY <2>2, LineMeans DEF e
  <2>4. \A v : Means(file, key, default, v) <=> TrimmedOf(Right(file[m], e), v)
    BY <1>2, <2>3, Zenon DEF Means, m
  <2>5. \A v : TrimmedOf(Right(file[m], e), v) =>
                 Right(file[m], e) \in Seq(S) /\ v \in SubSeqs(file[m])
    BY <2>2, <2>3, RightIs DEF e
  <2>6. Means(file, key, default, get(load(file), key, default))
    BY LoadMeans
  <2>7. \A v : Means(file, key, default, v) <=> v = trim(Right(file[m], e))
    BY <2>4, <2>5, <2>6, TrimMeans
  <2> QED
    BY <2>2, <2>4, <2>5, <2>6, <2>7
<1> QED
  BY <1>1, <1>2

(* LastAssignmentWins, for any server.env that is a sequence of lines.     *)
THEOREM LastAssignmentsWin == Spec => LastAssignmentWins
<1> DEFINE Lines == env \in Seq(Seq(STRING))
<1>1. Init => Lines
  BY StartAssumption DEF Init
<1>2. Lines /\ [Next]_vars => Lines'
  <2> SUFFICES ASSUME Lines, [Next]_vars PROVE Lines'
    OBVIOUS
  <2>1. CASE read_config
    BY <2>1 DEF read_config
  <2>2. CASE ~ read_config
    BY <2>2 DEF Next, Process, vars, settings, init_logger, fork, open_dev_null,
       redirect, install_handler, create_server_socket, create_epoll,
       register_server, test, epoll_wait, handle_events, accept_new_client,
       handle_client_read, destroy, wake, signal
  <2> QED
    BY <2>1, <2>2
<1>3. Lines =>
        /\ get(load(env), <<"PORT">>, <<"8080">>) \in PortTexts
        /\ \A text \in PortTexts : text = get(load(env), <<"PORT">>, <<"8080">>)
        /\ Means(env, <<"DAEMON">>, <<"false">>, <<"true">>)
             <=> get(load(env), <<"DAEMON">>, <<"false">>) = <<"true">>
  <2> SUFFICES ASSUME Lines
      PROVE  /\ get(load(env), <<"PORT">>, <<"8080">>) \in PortTexts
             /\ \A text \in PortTexts : text = get(load(env), <<"PORT">>, <<"8080">>)
             /\ Means(env, <<"DAEMON">>, <<"false">>, <<"true">>)
                  <=> get(load(env), <<"DAEMON">>, <<"false">>) = <<"true">>
    OBVIOUS
  <2>1. PICK text : text = get(load(env), <<"PORT">>, <<"8080">>)
    OBVIOUS
  <2>2. Means(env, <<"PORT">>, <<"8080">>, text)
    BY <2>1, MeantIsGot
  <2>3. text = <<"8080">> \/ \E i \in DOMAIN env : text \in SubSeqs(env[i])
    BY <2>2, MeantIsGot
  <2>4. text \in Texts
    BY <2>3, Zenon DEF Texts
  <2>5. text \in PortTexts
    BY <2>2, <2>4 DEF PortTexts
  <2>6. \A t \in PortTexts : t = text
    BY <2>1, MeantIsGot DEF PortTexts
  <2>7. Means(env, <<"DAEMON">>, <<"false">>, <<"true">>)
          <=> <<"true">> = get(load(env), <<"DAEMON">>, <<"false">>)
    BY MeantIsGot
  <2> QED
    BY <2>1, <2>5, <2>6, <2>7, Zenon
<1>4. ASSUME Lines, read_config
      PROVE  /\ pc' = "log" =>
                  /\ \E text \in PortTexts : IsNumber(text) /\ port' = Numeral[text[1]]
                  /\ daemon_enabled' <=> Means(env, <<"DAEMON">>, <<"false">>, <<"true">>)
             /\ pc' = "threw" => \A text \in PortTexts : ~ IsNumber(text)
             /\ pc = "main"
  <2>1. PICK text : text = get(load(env), <<"PORT">>, <<"8080">>)
    OBVIOUS
  <2>2. text \in PortTexts /\ \A t \in PortTexts : t = text
    BY <1>3, <1>4, <2>1, Zenon
  <2>3. /\ pc = "main" /\ pc' = (IF IsNumber(text) THEN "log" ELSE "threw")
        /\ port' = (IF IsNumber(text) THEN Numeral[text[1]] ELSE port)
        /\ daemon_enabled' = (get(load(env), <<"DAEMON">>, <<"false">>) = <<"true">>)
    BY <1>4, <2>1 DEF read_config, Goes
  <2>4. daemon_enabled' <=> Means(env, <<"DAEMON">>, <<"false">>, <<"true">>)
    BY <1>3, <1>4, <2>3, Zenon
  <2>5. pc' = "log" => IsNumber(text) /\ port' = Numeral[text[1]]
    BY <2>3
  <2>6. pc' = "threw" => ~ IsNumber(text)
    BY <2>3
  <2> QED
    BY <2>2, <2>3, <2>4, <2>5, <2>6, Zenon
<1>5. ASSUME [Next]_vars, ~ read_config
      PROVE  UNCHANGED <<port, daemon_enabled>> /\ (pc = "main" => pc' \in {"main", "killed"})
  BY <1>5 DEF Next, Process, vars, settings, init_logger, fork, open_dev_null,
     redirect, install_handler, create_server_socket, create_epoll,
     register_server, test, epoll_wait, handle_events, accept_new_client,
     handle_client_read, destroy, wake, signal, Goes
<1> DEFINE Step ==
      /\ pc = "main" /\ pc' = "log" =>
           /\ \E text \in PortTexts : IsNumber(text) /\ port' = Numeral[text[1]]
           /\ daemon_enabled' <=> Means(env, <<"DAEMON">>, <<"false">>, <<"true">>)
      /\ pc = "main" /\ pc' = "threw" => \A text \in PortTexts : ~ IsNumber(text)
      /\ pc # "main" => UNCHANGED <<port, daemon_enabled>>
<1>6. Lines /\ [Next]_vars => [Step]_vars
  <2> SUFFICES ASSUME Lines, [Next]_vars PROVE Step
    OBVIOUS
  <2>1. CASE read_config
    BY <1>4, <2>1, Zenon
  <2>2. CASE ~ read_config
    BY <1>5, <2>2
  <2> QED
    BY <2>1, <2>2
<1> HIDE DEF Lines
<1>7. Spec => [][Step]_vars
  BY <1>1, <1>2, <1>6, PTL DEF Spec
<1> QED
  BY <1>7 DEF LastAssignmentWins
=============================================================================

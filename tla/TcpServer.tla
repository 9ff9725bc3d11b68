----------------------------- MODULE TcpServer ------------------------------
(***************************************************************************)
(* penduo::TcpServer with its Acceptor and its TcpConnections, run by one  *)
(* EventLoop over the Poller, and the kernel's half of the sockets.        *)
(*                                                                         *)
(* A connection is named by its peer: ++next_connect_id_ gives every one a *)
(* name of its own.  The loop is what EventLoop promises of it: poll, the  *)
(* active channels in order, then the functors queued, none lost.  Its own *)
(* two channels are left out of the registry, and quit() of the model.     *)
(***************************************************************************)
EXTENDS Poller, FiniteSets, Functions

CONSTANTS Listener,   \* the channel of the acceptor; the others are the peers'
          MaxSend,    \* bound: the bytes a peer sends
          ReadSize,   \* what one readv() takes at most
          SizeModulus \* one more than the largest size_t

ASSUME ServerAssumption ==
  /\ Listener \in Channels
  /\ MaxSend \in Nat
  /\ ReadSize \in Nat \ {0}
  /\ SizeModulus \in Nat
  /\ ReadSize < SizeModulus

Peers == Channels \ {Listener}

VARIABLES
  reg,           \* the poller and the channels
  phase,         \* where the loop is: "poll", "dispatch" or "functors"
  active,        \* the channels of active_channels_ still to be handled
  pending,       \* the connections whose connect_destoryed() is queued
  connections,   \* TcpServer::connections_
  state,         \* TcpConnection::state_, "none" before it is constructed
  cycles,        \* the connections whose close_callback_ holds themselves
  opened,        \* the descriptors of the server's sockets
  told, got,     \* what the user's callbacks were given, per peer
  empties,       \* how often message_callback_ was called with no bytes, per peer
  misread,       \* the peers whose bytes the assertion in read_fd() has not stood
  errors,        \* the peers whose read error handle_error() has handled
  fatal,         \* has a LOG_FATAL fatal the process?
  backlog,       \* kernel: connected peers that wait for accept()
  sent,          \* kernel: bytes taken from a peer, read or not
  text,          \* kernel: how many of them come before the first byte 0
  wire           \* kernel: "off", "open", "fin", "rst" or "rstRead", per peer

server == <<reg, phase, active, pending, connections, state, cycles, opened,
            told, got, empties, misread, errors, fatal>>
kernel == <<backlog, sent, text, wire>>
vars == <<server, kernel>>

TypeOK ==
  /\ reg \in Registry
  /\ phase \in {"poll", "dispatch", "functors"}
  /\ active \in Seq(Channels)
  /\ pending \in Seq(Peers)
  /\ connections \subseteq Peers
  /\ state \in [Peers -> {"none", "Connected", "DisConnected"}]
  /\ cycles \subseteq Peers
  /\ opened \subseteq Fds
  /\ told \in [Peers -> {"none", "up", "down"}]
  /\ got \in [Peers -> 0..MaxSend]
  /\ empties \in [Peers -> 0..1]
  /\ misread \subseteq Peers
  /\ errors \subseteq Peers
  /\ fatal \in BOOLEAN
  /\ backlog \in Seq(Peers)
  /\ sent \in [Peers -> 0..MaxSend]
  /\ text \in [Peers -> 0..MaxSend]
  /\ wire \in [Peers -> {"off", "open", "fin", "rst", "rstRead"}]

\* The process has not ended: by an assertion, that of read_fd() among them, or LOG_FATAL.
Running == ~reg.failed /\ ~fatal /\ misread = {}

\* The descriptor the kernel gives a new socket: the lowest that is not open.
LowestFree == CHOOSE fd \in Fds \ opened : \A g \in Fds \ opened : fd <= g

ListenFd == CHOOSE fd \in Fds : \A g \in Fds : fd <= g

\* The server is constructed and not started.
Init ==
  /\ reg = construct(EmptyRegistry, Listener, ListenFd)
  /\ phase = "poll"
  /\ active = << >>
  /\ pending = << >>
  /\ connections = {}
  /\ state = [p \in Peers |-> "none"]
  /\ cycles = {}
  /\ opened = {ListenFd}
  /\ told = [p \in Peers |-> "none"]
  /\ got = [p \in Peers |-> 0]
  /\ empties = [p \in Peers |-> 0]
  /\ misread = {}
  /\ errors = {}
  /\ fatal = FALSE
  /\ backlog = << >>
  /\ sent = [p \in Peers |-> 0]
  /\ text = [p \in Peers |-> 0]
  /\ wire = [p \in Peers |-> "off"]

-----------------------------------------------------------------------------
(* The peers and the kernel, as long as there is a server.                 *)

\* The kernel completes a connection without the server.
Connect(p) ==
  /\ Running
  /\ reg.added[Listener]
  /\ wire[p] = "off"
  /\ wire' = [wire EXCEPT ![p] = "open"]
  /\ backlog' = Append(backlog, p)
  /\ UNCHANGED <<server, sent, text>>

\* A byte, which may be 0.
Send(p) ==
  /\ Running
  /\ wire[p] = "open"
  /\ sent[p] < MaxSend
  /\ sent' = [sent EXCEPT ![p] = @ + 1]
  /\ \/ UNCHANGED text
     \/ text[p] = sent[p] /\ text' = [text EXCEPT ![p] = @ + 1]
  /\ UNCHANGED <<server, backlog, wire>>

Close(p) ==
  /\ Running
  /\ wire[p] = "open"
  /\ wire' = [wire EXCEPT ![p] = "fin"]
  /\ UNCHANGED <<server, backlog, sent, text>>

\* The kernel may keep or drop the bytes it holds when a reset comes.
Reset(p) ==
  /\ Running
  /\ wire[p] = "open"
  /\ wire' = [wire EXCEPT ![p] = "rst"]
  /\ \E n \in {sent[p], got[p]} :
       /\ sent' = [sent EXCEPT ![p] = n]
       /\ text' = [text EXCEPT ![p] = IF @ < n THEN @ ELSE n]
  /\ UNCHANGED <<server, backlog>>

\* POLLIN: a connection to accept, bytes, an end of file or an error.
Readable ==
  (IF backlog # << >> THEN {Listener} ELSE {})
    \cup {p \in Peers : sent[p] > got[p] \/ wire[p] \in {"fin", "rst", "rstRead"}}

\* What poll() reports: a reset socket has hung up, and holds an error until it is read.
Revents(c) ==
  {"IN"} \cup IF c = Listener THEN {}
             ELSE (IF wire[c] \in {"rst", "rstRead"} THEN {"HUP"} ELSE {})
                    \cup (IF wire[c] = "rst" THEN {"ERR"} ELSE {})

\* What readv() returns, and -1 with ECONNRESET once after a reset.
ReadResult(p) ==
  LET unread == sent[p] - got[p]
  IN  IF unread > 0 THEN IF unread < ReadSize THEN unread ELSE ReadSize
      ELSE IF wire[p] \in {"fin", "rstRead"} THEN 0
      ELSE -1

\* Mutant: extra_buffer is not zeroed before readv().
StringLengthsUnset(p, n) == IF text[p] - got[p] < n THEN {text[p] - got[p]} ELSE {n, n + 1}

\* What strlen() may find in extra_buffer when readv() has put n bytes of p in it.  The
\* buffer is zeroed, so that the string ends at the first byte 0 or behind the n bytes;
\* but n bytes that fill it have no 0 behind them, and the string may end there or go on
\* into the memory that follows (n + 1 stands for every greater length).
StringLengths(p, n) ==
  IF text[p] - got[p] < n THEN {text[p] - got[p]}
  ELSE IF n < ReadSize THEN {n}
  ELSE {n, n + 1}

-----------------------------------------------------------------------------
(* Handlers of the loop.                                                   *)

\* TcpServer::start() in the loop thread, before loop() or in a functor.
start ==
  /\ Running
  /\ phase \in {"poll", "functors"}
  /\ reg' = enable_reading(reg, Listener)
  /\ UNCHANGED <<kernel, phase, active, pending, connections, state, cycles,
                 opened, told, got, empties, misread, errors, fatal>>

\* Acceptor and TcpConnection set the read callback of their channels and no other.
Callbacks == {"read"}

\* poll() returns the readable channels, or none at its timeout.  Those for which
\* handle_event() has nothing to call are passed over.
Poll ==
  /\ Running
  /\ phase = "poll"
  /\ LET handled == {c \in Readable : reg.added[c] /\ handle_event(Revents(c), Callbacks) # {}}
         ready == {reg.fd[c] : c \in handled}
     IN  /\ active' = fill_active_channels(reg, ready)
         /\ reg' = Asserting(ReportsHaveChannels(reg, ready), reg, reg)
  /\ phase' = "dispatch"
  /\ UNCHANGED <<kernel, pending, connections, state, cycles, opened,
                 told, got, empties, misread, errors, fatal>>

\* Mutant: the connection callback is not called.
NewConnectionUntold(p, fd) ==
  /\ reg' = enable_reading(construct(reg, p, fd), p)
  /\ connections' = connections \cup {p}
  /\ state' = [state EXCEPT ![p] = "Connected"]
  /\ cycles' = cycles \cup {p}
  /\ UNCHANGED told

\* connect_establish() of a connection that was just constructed, in registry r.
connect_establish(p, r) ==
  /\ state' = [state EXCEPT ![p] = "Connected"]
  /\ reg' = enable_reading(r, p)
  /\ told' = [told EXCEPT ![p] = "up"]

\* TcpServer::new_connection() on a descriptor fd: the close callback is bound to the
\* connection it is a member of.
new_connection(p, fd) ==
  /\ connections' = connections \cup {p}
  /\ cycles' = cycles \cup {p}
  /\ connect_establish(p, construct(reg, p, fd))

\* Acceptor::handle_read().  When no descriptor is left accept() fails with
\* EMFILE, fcntl(-1) makes errno EBADF, and that is fatal.
AcceptorHandleRead ==
  /\ Running
  /\ phase = "dispatch"
  /\ active # << >>
  /\ Head(active) = Listener
  /\ active' = Tail(active)
  /\ IF Fds \subseteq opened
       THEN /\ fatal' = TRUE
            /\ UNCHANGED <<reg, connections, state, cycles, told, opened, backlog>>
       ELSE /\ opened' = opened \cup {LowestFree}
            /\ backlog' = Tail(backlog)
            /\ new_connection(Head(backlog), LowestFree)
            /\ UNCHANGED fatal
  /\ UNCHANGED <<phase, pending, got, empties, misread, errors, sent, text, wire>>

\* Mutant: the connection stays in the map of the server.
CloseUnerased(p) ==
  /\ reg' = disable_all(reg, p)
  /\ pending' = Append(pending, p)
  /\ UNCHANGED connections

\* Mutant: connect_destoryed() is queued twice.
CloseTwice(p) ==
  /\ reg' = disable_all(reg, p)
  /\ connections' = connections \ {p}
  /\ pending' = pending \o <<p, p>>

\* TcpConnection::handle_close() with TcpServer::remove_connection().
handle_close(p) ==
  /\ reg' = Asserting(state[p] = "Connected" /\ p \in connections, reg,
              disable_all(reg, p))
  /\ connections' = connections \ {p}
  /\ pending' = Append(pending, p)

\* size_t n = read_fd(...): an error, -1, becomes the largest size.
AsSize(n) == n % SizeModulus

\* Mutant: a read that does not fill the buffer is taken for the last one.
EndOfFileOrShort(n) == n < ReadSize

\* n == 0
EndOfFile(n) == n = 0

\* Mutant: the buffer grows by what readv() returned, whatever it was.
GrowsAlways(p, n) == got[p] + n

\* Buffer::read_fd() appends a string as long as the bytes read, none when readv() failed.
Grows(p, n) == IF n < 0 THEN got[p] ELSE got[p] + n

\* What handle_read() does with n, the result of read_fd().  An error is, as a size, more
\* than 0 bytes: the message callback is called, with none, and handle_error() never is.
HandleResult(p, n) ==
  LET size == AsSize(n)
  IN  /\ got' = [got EXCEPT ![p] = Grows(p, n)]
      /\ wire' = [wire EXCEPT ![p] = IF n < 0 /\ @ = "rst" THEN "rstRead" ELSE @]
      /\ empties' = [empties EXCEPT ![p] = IF size > 0 /\ n <= 0 THEN @ + 1 ELSE @]
      /\ IF EndOfFile(size)
           THEN handle_close(p)
           ELSE UNCHANGED <<reg, connections, pending>>
      /\ errors' = IF ~EndOfFile(size) /\ ~(size > 0) THEN errors \cup {p} ELSE errors

\* TcpConnection::handle_read().  read_fd() asserts that the bytes it has read are a
\* string of their length.
ConnectionHandleRead(p) ==
  /\ Running
  /\ phase = "dispatch"
  /\ active # << >>
  /\ Head(active) = p
  /\ active' = Tail(active)
  /\ LET n == ReadResult(p)
     IN  \/ /\ n < 0 \/ n \in StringLengths(p, n)
            /\ HandleResult(p, n)
            /\ UNCHANGED misread
         \/ /\ n >= 0
            /\ \E length \in StringLengths(p, n) : length # n
            /\ misread' = misread \cup {p}
            /\ UNCHANGED <<reg, pending, connections, got, empties, errors, wire>>
  /\ UNCHANGED <<phase, state, cycles, opened, told, fatal, backlog, sent, text>>

DispatchDone ==
  /\ Running
  /\ phase = "dispatch"
  /\ active = << >>
  /\ phase' = "functors"
  /\ UNCHANGED <<kernel, reg, active, pending, connections, state, cycles,
                 opened, told, got, empties, misread, errors, fatal>>

\* What connect_destoryed() does to the channel.
TakeFromLoop(p) == remove(disable_all(reg, p), p)

\* TcpConnection::connect_destoryed(), run by do_pending_functors().  The functor
\* held the last reference but for the one in close_callback_; the destructor, if
\* it ran, would close the socket.
ConnectDestoryed ==
  /\ Running
  /\ phase = "functors"
  /\ pending # << >>
  /\ pending' = Tail(pending)
  /\ LET p == Head(pending)
         unreferenced == p \notin cycles \cup connections
     IN  /\ reg' = Asserting(state[p] = "Connected", reg,
                     IF unreferenced THEN destruct(TakeFromLoop(p), p) ELSE TakeFromLoop(p))
         /\ state' = [state EXCEPT ![p] = "DisConnected"]
         /\ told' = [told EXCEPT ![p] = "down"]
         /\ opened' = IF unreferenced THEN opened \ {reg.fd[p]} ELSE opened
  /\ UNCHANGED <<kernel, phase, active, connections, cycles, got, empties, misread, errors,
                 fatal>>

FunctorsDone ==
  /\ Running
  /\ phase = "functors"
  /\ pending = << >>
  /\ phase' = "poll"
  /\ UNCHANGED <<kernel, reg, active, pending, connections, state, cycles,
                 opened, told, got, empties, misread, errors, fatal>>

Loop ==
  \/ Poll
  \/ AcceptorHandleRead
  \/ \E p \in Peers : ConnectionHandleRead(p)
  \/ DispatchDone
  \/ ConnectDestoryed
  \/ FunctorsDone

Next == Loop \/ start \/ \E p \in Peers : Connect(p) \/ Send(p) \/ Close(p) \/ Reset(p)

Spec == Init /\ [][Next]_vars

\* The loop thread runs on: poll() returns at the latest at its timeout.
FairSpec == Spec /\ WF_vars(Loop)

-----------------------------------------------------------------------------
(* Properties.                                                             *)

\* As long as there are descriptors no assertion of Poller, Channel, TcpConnection or
\* TcpServer fails and nothing is fatal: a connection closes once, however the events of
\* the others are interleaved with its own.  Only bytes end the process, by the
\* assertion of Buffer.cpp:29: a byte 0, or so many that a read fills extra_buffer.
OnlyBytesAbort ==
  /\ ~reg.failed /\ ~fatal
  /\ \A p \in misread : text[p] < sent[p] \/ sent[p] - got[p] >= ReadSize

\* Between two iterations the four records of who is connected agree: the map of
\* the server, the state of the connection, the poller, and what the user was told.
TablesAgree ==
  phase = "poll" =>
    \A p \in Peers :
      /\ p \in connections <=> state[p] = "Connected"
      /\ p \in connections <=> reg.added[p] /\ reg.events[p] = "read"
      /\ p \in connections <=> told[p] = "up"

\* The callbacks of a connection come as ServerPromise says: up, the bytes, at most one
\* message that is empty, and down once, after the last byte the kernel has.
Promise == INSTANCE ServerPromise
             WITH open <- [p \in Peers |-> wire[p] \in {"off", "open"}]

\* The user sees of every connection what ServerPromise allows and no more.
ImplementsPromise == Promise!Spec

\* A peer that has connected is accepted, though each iteration accepts one, unless the
\* bytes of another end the process before.
BacklogIsAccepted == \A p \in Peers : wire[p] # "off" ~> told[p] # "none" \/ misread # {}

\* What a peer sends is read to the last byte, though an iteration reads once, unless
\* bytes end the process before (OnlyBytesAbort says which).
AllIsDelivered == \A p \in Peers : sent[p] > got[p] ~> sent[p] = got[p] \/ misread # {}

\* A peer that closes or resets is reported down, unless bytes end the process before: a
\* read error alone closes nothing, and it is the end of file after it that does.
CloseIsReported ==
  \A p \in Peers :
    wire[p] \in {"fin", "rst", "rstRead"} ~> told[p] = "down" \/ misread # {}

\* SocketsOps.cpp:78 calls EMFILE an expected error of accept(), to be survived.
ExpectedErrorsAreSurvived == ~fatal

=============================================================================

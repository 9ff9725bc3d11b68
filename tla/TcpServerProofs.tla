-------------------------- MODULE TcpServerProofs ---------------------------
(***************************************************************************)
(* Proofs about TcpServer: no assertion fails, the records of who is       *)
(* connected agree, and the user sees what ServerPromise allows, for any   *)
(* number of peers and of descriptors.                                     *)
(***************************************************************************)
EXTENDS TcpServer, PollerProofs

\* The channels whose socket the server has.
Accepted == {Listener} \cup {p \in Peers : state[p] # "none"}

\* The peers that wait for accept(), and those that were closed and wait for
\* connect_destoryed().
Waiting == {p \in Peers : wire[p] # "off" /\ state[p] = "none"}
Closing == {p \in Peers : state[p] = "Connected" /\ p \notin connections}

\* Every socket has a descriptor of its own, and a channel in the loop has a socket.
SocketsKept ==
  /\ opened = {reg.fd[c] : c \in Accepted}
  /\ \A c, d \in Accepted : reg.fd[c] = reg.fd[d] => c = d
  /\ \A c \in Channels : reg.added[c] => c \in Accepted
  /\ ~reg.added[Listener] => reg.index[Listener] = -1

\* The queues hold whom they should, once; an iteration reports only channels that
\* will still be open, and handles them before it runs what they queue.
QueuesKept ==
  /\ Enumerates(backlog, Waiting)
  /\ Enumerates(pending, Closing)
  /\ Enumerates(active, Range(active))
  /\ Range(active) \subseteq connections \cup {Listener}
  /\ Range(active) \subseteq Readable
  /\ phase # "dispatch" => active = << >>
  /\ phase = "poll" => pending = << >>

ToldOf(s) == IF s = "none" THEN "none" ELSE IF s = "Connected" THEN "up" ELSE "down"

\* What the server, the poller, the user and the kernel have of a peer.
PeerKept(p) ==
  /\ told[p] = ToldOf(state[p])
  /\ p \in connections => state[p] = "Connected"
  /\ reg.added[p] <=> state[p] = "Connected"
  /\ reg.events[p] = "read" <=> p \in connections
  /\ wire[p] = "off" => state[p] = "none"
  /\ state[p] # "none" => p \in cycles
  /\ got[p] <= text[p] /\ text[p] <= sent[p]
  /\ empties[p] = IF wire[p] = "rstRead" THEN 1 ELSE 0
  /\ p \in misread => text[p] < sent[p] \/ sent[p] - got[p] >= ReadSize
  /\ p \in Closing => wire[p] \in {"fin", "rstRead"} /\ got[p] = sent[p]

IInv ==
  /\ TypeOK
  /\ Consistent(reg)
  /\ SocketsKept
  /\ QueuesKept
  /\ \A p \in Peers : PeerKept(p)

-----------------------------------------------------------------------------
(* Facts the steps share.                                                  *)

\* The kernel gives a new socket a descriptor that is not open.
LEMMA FreeDescriptor == ~(Fds \subseteq opened) => LowestFree \in Fds \ opened
<1> SUFFICES ASSUME ~(Fds \subseteq opened) PROVE LowestFree \in Fds \ opened
  OBVIOUS
<1>1. \E fd \in Fds \ opened : \A g \in Fds \ opened : fd <= g
  BY NatLeast, PollerAssumption
<1> QED
  BY <1>1 DEF LowestFree

\* The descriptor of the listener, the lowest there is, exists.
LEMMA ListenDescriptor == ListenFd \in Fds
<1>1. \E fd \in Fds : \A g \in Fds : fd <= g
  BY NatLeast, PollerAssumption
<1> QED
  BY <1>1 DEF ListenFd

\* What the proofs of the steps use of the invariant.
LEMMA Fields ==
  ASSUME IInv
  PROVE  /\ reg.failed = FALSE
         /\ reg.fd \in [Channels -> Fds]
         /\ reg.events \in [Channels -> Events]
         /\ reg.index \in [Channels -> Nat \cup {-1}]
         /\ reg.added \in [Channels -> BOOLEAN]
         /\ \A c \in Channels : reg.added[c] \/ reg.events[c] = "none"
         /\ Listener \in Channels /\ Listener \notin Peers /\ Peers \subseteq Channels
  BY RegistryFields, ServerAssumption DEF IInv, TypeOK, Consistent, Peers

-----------------------------------------------------------------------------
(* The invariant.                                                          *)

\* The server that was constructed and not started.
LEMMA InitIInv == Init => IInv
<1> SUFFICES ASSUME Init PROVE IInv
  OBVIOUS
<1>1. /\ Listener \in Channels /\ Listener \notin Peers /\ MaxSend \in Nat
      /\ ListenFd \in Fds
  BY ServerAssumption, ListenDescriptor DEF Peers
<1>2. Constructed(EmptyRegistry, reg, Listener, ListenFd)
  BY <1>1, EmptyConsistent, ConstructNew DEF Init
<1>3. /\ Consistent(reg) /\ reg \in Registry
      /\ \A c \in Channels : reg.added[c] = FALSE
      /\ \A c \in Channels : reg.events[c] = "none"
      /\ reg.index[Listener] = -1 /\ reg.fd[Listener] = ListenFd
  <2>1. Consistent(reg) /\ reg \in Registry
    BY <1>2 DEF Constructed, Consistent
  <2>2. \A c \in Channels : reg.added[c] = FALSE
    BY <1>2, EmptyConsistent DEF Constructed
  <2>3. \A c \in Channels : reg.events[c] = "none"
    BY <2>1, <2>2 DEF Consistent
  <2>4. reg.index[Listener] = -1 /\ reg.fd[Listener] = ListenFd
    <3>1. /\ EmptyRegistry.index \in [Channels -> Nat \cup {-1}]
          /\ EmptyRegistry.fd \in [Channels -> Fds]
      BY EmptyConsistent, RegistryFields DEF Consistent
    <3> QED
      BY <1>1, <1>2, <3>1 DEF Constructed
  <2> QED
    BY <2>1, <2>2, <2>3, <2>4
<1>4. TypeOK
  <2>1. /\ active = << >> /\ pending = << >> /\ backlog = << >>
        /\ opened = {ListenFd} /\ connections = {} /\ cycles = {} /\ errors = {}
        /\ misread = {}
        /\ phase = "poll" /\ fatal = FALSE
    BY DEF Init
  <2>2. /\ state \in [Peers -> {"none", "Connected", "DisConnected"}]
        /\ told \in [Peers -> {"none", "up", "down"}]
        /\ got \in [Peers -> 0..MaxSend] /\ sent \in [Peers -> 0..MaxSend]
        /\ text \in [Peers -> 0..MaxSend] /\ empties \in [Peers -> 0..1]
        /\ wire \in [Peers -> {"off", "open", "fin", "rst", "rstRead"}]
    BY <1>1 DEF Init
  <2>3. active \in Seq(Channels) /\ pending \in Seq(Peers) /\ backlog \in Seq(Peers)
    BY <2>1, EmptySeq
  <2> QED
    BY <1>1, <1>3, <2>1, <2>2, <2>3 DEF TypeOK
<1>5. Accepted = {Listener} /\ Waiting = {} /\ Closing = {}
  BY DEF Init, Accepted, Waiting, Closing
<1>6. SocketsKept
  BY <1>3, <1>5 DEF Init, SocketsKept
<1>7. QueuesKept
  <2>1. Enumerates(<< >>, {}) /\ Range(<< >>) = {}
    BY DEF Enumerates, Range
  <2> QED
    BY <1>5, <2>1 DEF Init, QueuesKept
<1>8. ASSUME NEW p \in Peers PROVE PeerKept(p)
  BY <1>1, <1>3, <1>5 DEF Init, PeerKept, ToldOf, Peers
<1> QED
  BY <1>3, <1>4, <1>6, <1>7, <1>8 DEF IInv

\* A step of a peer leaves the server as it is.
LEMMA ConnectKeeps ==
  ASSUME IInv, NEW p \in Peers, Connect(p)
  PROVE  IInv'
<1>1. /\ wire[p] = "off" /\ wire' = [wire EXCEPT ![p] = "open"]
      /\ backlog' = Append(backlog, p)
      /\ UNCHANGED <<reg, phase, active, pending, connections, state, cycles, opened,
                     told, got, empties, misread, errors, fatal, sent, text>>
      /\ misread = {}
  BY DEF Connect, server, Running
<1>2. TypeOK /\ PeerKept(p) /\ SocketsKept /\ QueuesKept
  BY DEF IInv
<1>3. /\ wire'[p] = "open"
      /\ wire' \in [Peers -> {"off", "open", "fin", "rst", "rstRead"}]
      /\ \A q \in Peers \ {p} : wire'[q] = wire[q]
  BY <1>1, <1>2 DEF TypeOK
<1>4. p \notin Waiting /\ Waiting' = Waiting \cup {p} /\ state[p] = "none"
  BY <1>1, <1>2, <1>3 DEF Waiting, PeerKept
<1>5. backlog' \in Seq(Peers) /\ Enumerates(backlog', Waiting')
  <2>1. backlog \in Seq(Peers) /\ Enumerates(backlog, Waiting) /\ Waiting \in SUBSET Peers
    BY <1>2 DEF TypeOK, QueuesKept, Waiting
  <2> QED
    BY <1>1, <1>4, <2>1, AppendEnumerates
<1>6. TypeOK'
  BY <1>1, <1>2, <1>3, <1>5 DEF TypeOK
<1>7. Consistent(reg') /\ SocketsKept'
  BY <1>1, <1>2 DEF IInv, SocketsKept, Accepted
<1>8. QueuesKept'
  <2>1. Closing' = Closing
    BY <1>1 DEF Closing
  <2>2. backlog' # << >>
    <3>1. backlog \in Seq(Peers) /\ backlog' = Append(backlog, p)
      BY <1>1, <1>2 DEF TypeOK
    <3>2. Append(backlog, p) # << >>
      BY <3>1, AppendProperties
    <3> QED
      BY <3>1, <3>2
  <2>3. Readable \subseteq Readable'
    BY <1>1, <1>3, <2>2 DEF Readable
  <2> QED
    BY <1>1, <1>2, <1>5, <2>1, <2>3 DEF QueuesKept
<1>9. ASSUME NEW q \in Peers PROVE PeerKept(q)'
  <2>1. PeerKept(q)
    BY DEF IInv
  <2> QED
    BY <1>1, <1>3, <1>4, <2>1 DEF PeerKept, Closing
<1> QED
  BY <1>6, <1>7, <1>8, <1>9 DEF IInv

\* A peer that sends, closes or resets changes what is to be read and nothing else.
LEMMA PeerKeeps ==
  ASSUME IInv, NEW p \in Peers, Send(p) \/ Close(p) \/ Reset(p)
  PROVE  IInv'
<1>1. /\ wire[p] = "open"
      /\ UNCHANGED <<reg, phase, active, pending, connections, state, cycles, opened,
                     told, got, empties, misread, errors, fatal, backlog>>
      /\ misread = {}
      /\ \E w \in {"open", "fin", "rst"} : wire' = [wire EXCEPT ![p] = w]
      /\ \E n \in got[p]..MaxSend :
           /\ sent' = [sent EXCEPT ![p] = n]
           /\ \E k \in got[p]..n : text' = [text EXCEPT ![p] = k]
      /\ sent'[p] >= sent[p] \/ wire'[p] = "rst"
  <2>1. TypeOK /\ PeerKept(p)
    BY DEF IInv
  <2>2. /\ got[p] \in Nat /\ sent[p] \in Nat /\ got[p] <= sent[p]
        /\ sent[p] <= MaxSend /\ got[p] <= MaxSend /\ MaxSend \in Nat
        /\ text[p] \in Nat /\ got[p] <= text[p] /\ text[p] <= sent[p]
    BY <2>1, ServerAssumption DEF TypeOK, PeerKept
  <2>6. misread = {}
    BY DEF Send, Close, Reset, Running
  <2>3. CASE Send(p)
    <3>1. wire[p] = "open" /\ UNCHANGED <<server, backlog, wire>>
      BY <2>3 DEF Send
    <3>2. wire' = [wire EXCEPT ![p] = "open"]
      BY <2>1, <3>1 DEF TypeOK
    <3>3. sent[p] + 1 \in got[p]..MaxSend /\ sent' = [sent EXCEPT ![p] = sent[p] + 1]
      BY <2>2, <2>3 DEF Send
    <3>4. \E k \in got[p]..(sent[p] + 1) : text' = [text EXCEPT ![p] = k]
      <4>1. CASE UNCHANGED text
        <5>1. text' = [text EXCEPT ![p] = text[p]] /\ text[p] \in got[p]..(sent[p] + 1)
          BY <2>1, <2>2, <4>1 DEF TypeOK
        <5> QED
          BY <5>1
      <4>2. CASE text[p] = sent[p] /\ text' = [text EXCEPT ![p] = text[p] + 1]
        <5>1. text[p] + 1 \in got[p]..(sent[p] + 1)
          BY <2>2, <4>2
        <5> QED
          BY <4>2, <5>1
      <4> QED
        BY <2>3, <4>1, <4>2 DEF Send
    <3>5. sent'[p] >= sent[p]
      BY <2>1, <2>2, <3>3 DEF TypeOK
    <3> QED
      BY <2>6, <3>1, <3>2, <3>3, <3>4, <3>5 DEF server
  <2>4. CASE Close(p)
    <3>1. wire[p] = "open" /\ UNCHANGED <<server, backlog, sent, text>>
      BY <2>4 DEF Close
    <3>2. wire' = [wire EXCEPT ![p] = "fin"]
      BY <2>4 DEF Close
    <3>3. sent[p] \in got[p]..MaxSend /\ sent' = [sent EXCEPT ![p] = sent[p]]
      BY <2>1, <2>2, <3>1 DEF TypeOK
    <3>4. text[p] \in got[p]..sent[p] /\ text' = [text EXCEPT ![p] = text[p]]
      BY <2>1, <2>2, <3>1 DEF TypeOK
    <3>5. sent'[p] >= sent[p]
      BY <2>2, <3>1
    <3> QED
      BY <2>6, <3>1, <3>2, <3>3, <3>4, <3>5 DEF server
  <2>5. CASE Reset(p)
    <3>1. wire[p] = "open" /\ UNCHANGED <<server, backlog>> /\ wire' = [wire EXCEPT ![p] = "rst"]
      BY <2>5 DEF Reset
    <3>2. PICK n \in {sent[p], got[p]} :
            /\ sent' = [sent EXCEPT ![p] = n]
            /\ text' = [text EXCEPT ![p] = IF @ < n THEN @ ELSE n]
      BY <2>5 DEF Reset
    <3>3. n \in got[p]..MaxSend
      BY <2>2
    <3>4. \E k \in got[p]..n : text' = [text EXCEPT ![p] = k]
      <4> DEFINE k == IF text[p] < n THEN text[p] ELSE n
      <4>1. k \in got[p]..n
        BY <2>2
      <4>2. text' = [text EXCEPT ![p] = k]
        BY <3>2
      <4> HIDE DEF k
      <4> QED
        BY <4>1, <4>2
    <3>5. wire'[p] = "rst"
      BY <2>1, <3>1 DEF TypeOK
    <3> QED
      BY <2>6, <3>1, <3>2, <3>3, <3>4, <3>5 DEF server
  <2> QED
    BY <2>3, <2>4, <2>5
<1>2. TypeOK /\ PeerKept(p) /\ SocketsKept /\ QueuesKept
  BY DEF IInv
<1>3. /\ wire'[p] # "off"
      /\ wire' \in [Peers -> {"off", "open", "fin", "rst", "rstRead"}]
      /\ \A q \in Peers \ {p} : wire'[q] = wire[q]
  BY <1>1, <1>2 DEF TypeOK
<1>4. /\ sent' \in [Peers -> 0..MaxSend]
      /\ got[p] <= sent'[p]
      /\ \A q \in Peers \ {p} : sent'[q] = sent[q]
      /\ text' \in [Peers -> 0..MaxSend]
      /\ got[p] <= text'[p] /\ text'[p] <= sent'[p]
      /\ \A q \in Peers \ {p} : text'[q] = text[q]
      /\ sent'[p] >= sent[p] \/ wire'[p] = "rst"
  <2>1. got[p] \in Nat /\ MaxSend \in Nat
    BY <1>2, ServerAssumption DEF TypeOK
  <2>2. PICK n \in got[p]..MaxSend :
          /\ sent' = [sent EXCEPT ![p] = n]
          /\ \E k \in got[p]..n : text' = [text EXCEPT ![p] = k]
    BY <1>1
  <2>3. PICK k \in got[p]..n : text' = [text EXCEPT ![p] = k]
    BY <2>2
  <2>4. n \in 0..MaxSend /\ k \in 0..MaxSend /\ got[p] <= n /\ got[p] <= k /\ k <= n
    BY <2>1, <2>2, <2>3
  <2> QED
    BY <1>1, <1>2, <2>2, <2>3, <2>4 DEF TypeOK
<1>5. p \notin Closing /\ Closing' = Closing /\ Waiting' = Waiting
  BY <1>1, <1>2, <1>3 DEF PeerKept, Closing, Waiting
<1>6. TypeOK'
  BY <1>1, <1>2, <1>3, <1>4 DEF TypeOK
<1>7. Consistent(reg') /\ SocketsKept'
  BY <1>1, <1>2 DEF IInv, SocketsKept, Accepted
<1>8. QueuesKept'
  <2>1. ASSUME NEW c \in Readable PROVE c \in Readable'
    <3>1. CASE c = p
      <4>1. got'[p] = got[p] /\ got[p] \in Nat /\ sent[p] \in Nat /\ sent'[p] \in Nat
        BY <1>1, <1>2, <1>4 DEF TypeOK
      <4>2. sent[p] > got[p]
        BY <1>1, <3>1, Fields DEF Readable
      <4> QED
        BY <1>4, <3>1, <4>1, <4>2 DEF Readable
    <3>2. CASE c # p
      BY <1>1, <1>3, <1>4, <3>2 DEF Readable
    <3> QED
      BY <3>1, <3>2
  <2> QED
    BY <1>1, <1>2, <1>5, <2>1 DEF QueuesKept
<1>10. wire'[p] # "rstRead"
  BY <1>1, <1>2 DEF TypeOK
<1>9. ASSUME NEW q \in Peers PROVE PeerKept(q)'
  <2>1. PeerKept(q)
    BY DEF IInv
  <2>2. empties'[q] = empties[q] /\ q \notin misread'
    BY <1>1
  <2> QED
    BY <1>1, <1>3, <1>4, <1>5, <1>10, <2>1, <2>2 DEF PeerKept
<1> QED
  BY <1>6, <1>7, <1>8, <1>9 DEF IInv

\* start() enables the listener, or writes its entry again.
LEMMA StartKeeps ==
  ASSUME IInv, start
  PROVE  IInv'
<1>1. /\ reg' = enable_reading(reg, Listener)
      /\ UNCHANGED <<backlog, sent, text, wire, phase, active, pending, connections, state,
                     cycles, opened, told, got, empties, misread, errors, fatal>>
  BY DEF start, kernel
<1>2. TypeOK /\ Consistent(reg) /\ SocketsKept /\ QueuesKept
  BY DEF IInv
<1>3. /\ Consistent(reg') /\ reg'.fd = reg.fd
      /\ reg'.events = [reg.events EXCEPT ![Listener] = "read"]
      /\ reg'.added = [reg.added EXCEPT ![Listener] = TRUE]
  <2>1. CASE reg.added[Listener]
    <3>1. "read" \in Events /\ reg' = Update([reg EXCEPT !.events[Listener] = "read"], Listener)
      BY <1>1 DEF Events, enable_reading
    <3>2. Updated(reg, reg', Listener, "read")
      BY <1>2, <2>1, <3>1, Fields, UpdateAdded
    <3>3. reg.added = [reg.added EXCEPT ![Listener] = TRUE]
      BY <2>1, Fields
    <3> QED
      BY <3>2, <3>3 DEF Updated
  <2>2. CASE ~reg.added[Listener]
    <3>1. /\ reg.index[Listener] = -1
          /\ \A d \in Channels \ {Listener} : reg.added[d] => reg.fd[d] # reg.fd[Listener]
      BY <1>2, <2>2 DEF SocketsKept, Accepted
    <3>2. Enabled(reg, reg', Listener)
      BY <1>1, <1>2, <2>2, <3>1, Fields, EnableNew
    <3> QED
      BY <3>2 DEF Enabled
  <2> QED
    BY <2>1, <2>2
<1>4. /\ reg'.added[Listener] = TRUE
      /\ \A c \in Channels \ {Listener} :
           reg'.added[c] = reg.added[c] /\ reg'.events[c] = reg.events[c]
  BY <1>3, Fields
<1>5. TypeOK'
  <2>1. reg' \in Registry
    BY <1>3 DEF Consistent
  <2> QED
    BY <1>1, <1>2, <2>1 DEF TypeOK
<1>6. SocketsKept'
  <2>1. Accepted' = Accepted /\ Listener \in Accepted
    BY <1>1 DEF Accepted
  <2> QED
    BY <1>1, <1>2, <1>3, <1>4, <2>1 DEF SocketsKept
<1>7. QueuesKept'
  <2>1. Closing' = Closing /\ Waiting' = Waiting /\ Readable' = Readable
    BY <1>1 DEF Closing, Waiting, Readable
  <2> QED
    BY <1>1, <1>2, <2>1 DEF QueuesKept
<1>8. ASSUME NEW q \in Peers PROVE PeerKept(q)'
  <2>1. PeerKept(q) /\ q \in Channels \ {Listener}
    BY DEF IInv, Peers
  <2> QED
    BY <1>1, <1>4, <2>1 DEF PeerKept, Closing
<1> QED
  BY <1>3, <1>5, <1>6, <1>7, <1>8 DEF IInv

\* The loop goes on to its next part when a queue is empty.
LEMMA PhaseKeeps ==
  ASSUME IInv, DispatchDone \/ FunctorsDone \/ UNCHANGED vars
  PROVE  IInv'
<1>1. /\ UNCHANGED <<reg, active, pending, connections, state, cycles, opened, told, got,
                     empties, misread, errors, fatal, backlog, sent, text, wire>>
      /\ \/ phase' = "functors" /\ active = << >>
         \/ phase' = "poll" /\ pending = << >> /\ active = << >>
         \/ phase' = phase
  <2>1. phase = "functors" => active = << >>
    BY DEF IInv, QueuesKept
  <2> QED
    BY <2>1 DEF DispatchDone, FunctorsDone, vars, server, kernel
<1>2. TypeOK /\ SocketsKept /\ QueuesKept
  BY DEF IInv
<1>3. TypeOK'
  BY <1>1, <1>2 DEF TypeOK
<1>4. Consistent(reg') /\ SocketsKept'
  BY <1>1, <1>2 DEF IInv, SocketsKept, Accepted
<1>5. QueuesKept'
  <2>1. Closing' = Closing /\ Waiting' = Waiting /\ Readable' = Readable
    BY <1>1 DEF Closing, Waiting, Readable
  <2> QED
    BY <1>1, <1>2, <2>1 DEF QueuesKept
<1>6. ASSUME NEW q \in Peers PROVE PeerKept(q)'
  <2>1. PeerKept(q)
    BY DEF IInv
  <2> QED
    BY <1>1, <2>1 DEF PeerKept, Closing
<1> QED
  BY <1>3, <1>4, <1>5, <1>6 DEF IInv

\* poll() reports connections, and the listener only when a peer waits: two channels
\* in the loop have not the same descriptor.
LEMMA PollKeeps ==
  ASSUME IInv, Poll
  PROVE  IInv'
<1> DEFINE handled == {c \in Readable : reg.added[c] /\ handle_event(Revents(c), Callbacks) # {}}
           ready == {reg.fd[c] : c \in handled}
           E == {c \in Channels : reg.added[c] /\ reg.events[c] = "read" /\ reg.fd[c] \in ready}
<1>1. /\ active' = fill_active_channels(reg, ready)
      /\ phase = "poll" /\ phase' = "dispatch"
      /\ UNCHANGED <<reg, pending, connections, state, cycles, opened, told, got,
                     empties, misread, errors, fatal, backlog, sent, text, wire>>
  <2>1. ReportsHaveChannels(reg, ready)
    BY FillAsserts DEF IInv
  <2> QED
    BY <2>1 DEF Poll, kernel, Asserting
<1>2. TypeOK /\ Consistent(reg) /\ SocketsKept /\ QueuesKept
  BY DEF IInv
<1>3. handled \subseteq Readable /\ \A c \in handled : reg.added[c]
  OBVIOUS
<1> HIDE DEF handled
<1>4. active' \in Seq(Channels) /\ Enumerates(active', E)
  <2> HIDE DEF ready
  <2> QED
    BY <1>1, <1>2, FillActive
<1>5. Range(active') = E
  <2> HIDE DEF E
  <2> QED
    BY <1>4, EnumerationCounts
<1>6. E \subseteq connections \cup {Listener}
  <2> SUFFICES ASSUME NEW c \in E, c # Listener PROVE c \in connections
    OBVIOUS
  <2>1. c \in Peers /\ reg.events[c] = "read"
    BY DEF Peers
  <2> QED
    BY <2>1 DEF IInv, PeerKept
<1>7. ASSUME NEW e \in E PROVE e \in Readable
  <2>1. PICK c \in handled : reg.fd[c] = reg.fd[e]
    BY <1>7
  <2>2. reg.added[c] /\ c \in Readable /\ c \in Channels
    BY <1>3, Fields DEF Readable
  <2>3. c \in Accepted /\ e \in Accepted
    BY <1>2, <1>7, <2>2 DEF SocketsKept
  <2>4. c = e
    BY <1>2, <2>1, <2>3 DEF SocketsKept
  <2> QED
    BY <2>2, <2>4
<1> HIDE DEF E
<1>8. TypeOK'
  BY <1>1, <1>2, <1>4 DEF TypeOK
<1>9. SocketsKept'
  BY <1>1, <1>2 DEF SocketsKept, Accepted
<1>10. QueuesKept'
  <2>1. Closing' = Closing /\ Waiting' = Waiting /\ Readable' = Readable
    BY <1>1 DEF Closing, Waiting, Readable
  <2>2. /\ Enumerates(active', Range(active'))
        /\ Range(active') \subseteq connections' \cup {Listener}
        /\ Range(active') \subseteq Readable'
    BY <1>1, <1>4, <1>5, <1>6, <1>7, <2>1
  <2> QED
    BY <1>1, <1>2, <2>1, <2>2 DEF QueuesKept
<1>11. ASSUME NEW q \in Peers PROVE PeerKept(q)'
  <2>1. PeerKept(q)
    BY DEF IInv
  <2> QED
    BY <1>1, <2>1 DEF PeerKept, Closing
<1> QED
  BY <1>1, <1>2, <1>8, <1>9, <1>10, <1>11 DEF IInv

\* What is left of the active channels when the first is handled.
LEMMA ActiveTail ==
  ASSUME IInv, active # << >>
  PROVE  /\ Head(active) \in Channels /\ Head(active) \in Range(active)
         /\ Tail(active) \in Seq(Channels)
         /\ Enumerates(Tail(active), Range(Tail(active)))
         /\ Range(Tail(active)) = Range(active) \ {Head(active)}
         /\ Head(active) # Listener => Head(active) \in connections
         /\ Head(active) \in Readable
         /\ Head(active) = Listener => backlog # << >>
<1>1. active \in Seq(Channels) /\ Enumerates(active, Range(active))
  BY DEF IInv, TypeOK, QueuesKept
<1>2. /\ Range(active) \subseteq connections \cup {Listener}
      /\ Range(active) \subseteq Readable
  BY DEF IInv, QueuesKept
<1>3. Listener \in Readable => backlog # << >>
  BY Fields DEF Readable
<1> QED
  BY <1>1, <1>2, <1>3, TailUnique

\* accept() fails for want of a descriptor.
LEMMA FatalKeeps ==
  ASSUME IInv, AcceptorHandleRead, Fds \subseteq opened
  PROVE  IInv'
<1>1. /\ active # << >> /\ active' = Tail(active)
      /\ phase = "dispatch" /\ fatal' = TRUE
      /\ UNCHANGED <<reg, phase, pending, connections, state, cycles, opened, told, got,
                     empties, misread, errors, backlog, sent, text, wire>>
  BY DEF AcceptorHandleRead
<1>2. TypeOK /\ Consistent(reg) /\ SocketsKept /\ QueuesKept
  BY DEF IInv
<1>3. TypeOK'
  <2>1. active' \in Seq(Channels)
    BY <1>1, ActiveTail
  <2> QED
    BY <1>1, <1>2, <2>1 DEF TypeOK
<1>4. SocketsKept'
  BY <1>1, <1>2 DEF SocketsKept, Accepted
<1>5. QueuesKept'
  <2>1. Closing' = Closing /\ Waiting' = Waiting /\ Readable' = Readable
    BY <1>1 DEF Closing, Waiting, Readable
  <2>2. /\ Enumerates(active', Range(active'))
        /\ Range(active') \subseteq Range(active)
    BY <1>1, ActiveTail
  <2> QED
    BY <1>1, <1>2, <2>1, <2>2 DEF QueuesKept
<1>6. ASSUME NEW q \in Peers PROVE PeerKept(q)'
  <2>1. PeerKept(q)
    BY DEF IInv
  <2> QED
    BY <1>1, <2>1 DEF PeerKept, Closing
<1> QED
  BY <1>1, <1>2, <1>3, <1>4, <1>5, <1>6 DEF IInv

\* new_connection() on a free descriptor: the channel is constructed and enabled.
LEMMA NewChannel ==
  ASSUME IInv, NEW p \in Peers, state[p] = "none", NEW fd \in Fds \ opened,
         reg' = enable_reading(construct(reg, p, fd), p)
  PROVE  /\ Consistent(reg')
         /\ reg'.fd[p] = fd /\ reg'.added[p] = TRUE /\ reg'.events[p] = "read"
         /\ \A c \in Channels \ {p} :
              /\ reg'.fd[c] = reg.fd[c] /\ reg'.added[c] = reg.added[c]
              /\ reg'.events[c] = reg.events[c] /\ reg'.index[c] = reg.index[c]
<1> DEFINE r == construct(reg, p, fd)
<1>1. Consistent(reg) /\ SocketsKept /\ PeerKept(p)
  BY DEF IInv
<1>2. p \in Channels /\ ~reg.added[p]
  BY <1>1, Fields DEF PeerKept
<1>3. Constructed(reg, r, p, fd)
  BY <1>1, <1>2, ConstructNew
<1> HIDE DEF r
<1>4. /\ Consistent(r) /\ r.index[p] = -1 /\ r.fd[p] = fd /\ ~r.added[p]
      /\ r.added = reg.added
      /\ \A c \in Channels \ {p} : /\ r.fd[c] = reg.fd[c] /\ r.index[c] = reg.index[c]
                                   /\ r.events[c] = reg.events[c]
  BY <1>2, <1>3, Fields DEF Constructed
<1>5. \A c \in Channels \ {p} : r.added[c] => r.fd[c] # r.fd[p]
  <2> SUFFICES ASSUME NEW c \in Channels \ {p}, reg.added[c] PROVE reg.fd[c] \in opened
    BY <1>4
  <2> QED
    BY <1>1 DEF SocketsKept
<1>6. Enabled(r, reg', p)
  BY <1>2, <1>4, <1>5, EnableNew DEF r
<1>7. r.added \in [Channels -> BOOLEAN] /\ r.events \in [Channels -> Events]
  BY <1>4, RegistryFields DEF Consistent
<1> QED
  BY <1>2, <1>4, <1>6, <1>7 DEF Enabled

\* A connection that is accepted leaves the backlog, and is open for the server, the
\* poller and the user in the same step.
LEMMA AcceptKeeps ==
  ASSUME IInv, AcceptorHandleRead, ~(Fds \subseteq opened)
  PROVE  IInv'
<1> DEFINE p == Head(backlog)
           fd == LowestFree
<1>1. /\ active # << >> /\ Head(active) = Listener /\ active' = Tail(active)
      /\ phase = "dispatch" /\ backlog' = Tail(backlog)
      /\ opened' = opened \cup {fd}
      /\ connections' = connections \cup {p} /\ cycles' = cycles \cup {p}
      /\ state' = [state EXCEPT ![p] = "Connected"]
      /\ told' = [told EXCEPT ![p] = "up"]
      /\ reg' = enable_reading(construct(reg, p, fd), p)
      /\ UNCHANGED <<phase, pending, got, empties, misread, errors, fatal, sent, text, wire>>
  BY DEF AcceptorHandleRead, new_connection, connect_establish
<1>2. TypeOK /\ Consistent(reg) /\ SocketsKept /\ QueuesKept
  BY DEF IInv
<1>3. fd \in Fds \ opened
  BY FreeDescriptor
<1>4. /\ p \in Waiting /\ p \in Peers
      /\ backlog' \in Seq(Peers) /\ Enumerates(backlog', Waiting \ {p})
  <2>1. backlog # << >>
    BY <1>1, ActiveTail
  <2> QED
    BY <1>1, <1>2, <2>1, TailEnumerates DEF TypeOK, QueuesKept
<1> HIDE DEF p, fd
<1>5. /\ state[p] = "none" /\ wire[p] # "off" /\ PeerKept(p)
      /\ p \notin connections /\ p \in Channels /\ p # Listener
  BY <1>4, Fields DEF Waiting, IInv, PeerKept
<1>6. /\ Consistent(reg')
      /\ reg'.fd[p] = fd /\ reg'.added[p] = TRUE /\ reg'.events[p] = "read"
      /\ \A c \in Channels \ {p} :
           /\ reg'.fd[c] = reg.fd[c] /\ reg'.added[c] = reg.added[c]
           /\ reg'.events[c] = reg.events[c] /\ reg'.index[c] = reg.index[c]
  BY <1>1, <1>3, <1>4, <1>5, NewChannel
<1>7. /\ state' \in [Peers -> {"none", "Connected", "DisConnected"}]
      /\ told' \in [Peers -> {"none", "up", "down"}]
      /\ state'[p] = "Connected" /\ told'[p] = "up"
      /\ \A q \in Peers \ {p} : state'[q] = state[q] /\ told'[q] = told[q]
  BY <1>1, <1>2, <1>4 DEF TypeOK
<1>8. Waiting' = Waiting \ {p} /\ Closing' = Closing /\ Accepted' = Accepted \cup {p}
  BY <1>1, <1>4, <1>5, <1>7 DEF Waiting, Closing, Accepted
<1>9. TypeOK'
  <2>1. reg' \in Registry
    BY <1>6 DEF Consistent
  <2>2. active' \in Seq(Channels)
    BY <1>1, ActiveTail
  <2> QED
    BY <1>1, <1>2, <1>3, <1>4, <1>7, <2>1, <2>2 DEF TypeOK
<1>10. SocketsKept'
  <2>1. p \notin Accepted /\ Accepted \subseteq Channels
    BY <1>5, Fields DEF Accepted
  <2>2. \A c \in Accepted : reg'.fd[c] = reg.fd[c] /\ reg'.fd[c] \in opened
    BY <1>2, <1>6, <2>1 DEF SocketsKept
  <2>3. opened' = {reg'.fd[c] : c \in Accepted'}
    BY <1>1, <1>2, <1>6, <1>8, <2>2 DEF SocketsKept
  <2>4. \A c, d \in Accepted' : reg'.fd[c] = reg'.fd[d] => c = d
    BY <1>2, <1>3, <1>6, <1>8, <2>2 DEF SocketsKept
  <2>5. \A c \in Channels : reg'.added[c] => c \in Accepted'
    BY <1>2, <1>6, <1>8 DEF SocketsKept
  <2>6. ~reg'.added[Listener] => reg'.index[Listener] = -1
    BY <1>2, <1>5, <1>6, Fields DEF SocketsKept
  <2> QED
    BY <2>3, <2>4, <2>5, <2>6 DEF SocketsKept
<1>11. QueuesKept'
  <2>1. /\ Enumerates(active', Range(active'))
        /\ Range(active') \subseteq connections'
    BY <1>1, <1>2, ActiveTail DEF QueuesKept
  <2>2. Range(active') \subseteq Readable'
    <3>1. Range(active') \subseteq Readable \ {Listener}
      BY <1>1, <1>2, ActiveTail DEF QueuesKept
    <3> QED
      BY <1>1, <3>1 DEF Readable
  <2> QED
    BY <1>1, <1>2, <1>4, <1>5, <1>8, <2>1, <2>2, Fields DEF QueuesKept, TypeOK
<1>12. ASSUME NEW q \in Peers PROVE PeerKept(q)'
  <2>1. PeerKept(q) /\ q \in Channels
    BY Fields DEF IInv
  <2>2. CASE q = p
    BY <1>1, <1>5, <1>6, <1>7, <1>8, <2>1, <2>2 DEF PeerKept, ToldOf, Closing
  <2>3. CASE q # p
    BY <1>1, <1>6, <1>7, <1>8, <2>1, <2>3 DEF PeerKept
  <2> QED
    BY <2>2, <2>3
<1> QED
  BY <1>6, <1>9, <1>10, <1>11, <1>12 DEF IInv

\* What a read may return, and what handle_read() takes it for: only an empty read of
\* a connection that was closed and is read to its end is the end of file, and only one
\* that was reset gives an error.
LEMMA ReadOutcome ==
  ASSUME IInv, NEW p \in Peers, p \in Readable, NEW n, n = ReadResult(p)
  PROVE  /\ n \in Int /\ AsSize(n) \in Nat
         /\ \/ n \in 1..ReadSize /\ n <= sent[p] - got[p] /\ Grows(p, n) = got[p] + n
            \/ /\ n = 0 /\ wire[p] \in {"fin", "rstRead"} /\ got[p] = sent[p]
               /\ Grows(p, n) = got[p]
            \/ n = -1 /\ wire[p] = "rst" /\ got[p] = sent[p] /\ Grows(p, n) = got[p]
         /\ EndOfFile(AsSize(n)) <=> n = 0
         /\ AsSize(n) > 0 <=> n # 0
<1>1. got[p] \in Nat /\ sent[p] \in Nat /\ got[p] <= sent[p]
  <2>1. text[p] \in Nat /\ got[p] \in Nat /\ sent[p] \in Nat
    BY DEF IInv, TypeOK
  <2> QED
    BY <2>1 DEF IInv, PeerKept
<1>2. ReadSize \in Nat \ {0} /\ SizeModulus \in Nat /\ ReadSize < SizeModulus
  BY ServerAssumption
<1>3. \/ n \in 1..ReadSize /\ n <= sent[p] - got[p]
      \/ n = 0 /\ wire[p] \in {"fin", "rstRead"} /\ got[p] = sent[p]
      \/ n = -1 /\ wire[p] = "rst" /\ got[p] = sent[p]
  <2>1. sent[p] > got[p] \/ wire[p] \in {"fin", "rst", "rstRead"}
    BY Fields DEF Readable
  <2> QED
    BY <1>1, <1>2, <2>1 DEF ReadResult
<1>4. AsSize(n) \in Nat /\ (n >= 0 => AsSize(n) = n) /\ (n = -1 => AsSize(n) # 0)
  BY <1>2, <1>3 DEF AsSize
<1> QED
  BY <1>1, <1>2, <1>3, <1>4 DEF Grows, EndOfFile

\* The assertion of read_fd() holds only when all that was read is text, and fails only
\* for a byte 0 or when the read fills the buffer.
LEMMA TextOutcome ==
  ASSUME IInv, NEW p \in Peers, NEW n \in Nat, n <= sent[p] - got[p]
  PROVE  /\ n \in StringLengths(p, n) => got[p] + n <= text[p]
         /\ (\E length \in StringLengths(p, n) : length # n)
              => text[p] < sent[p] \/ sent[p] - got[p] >= ReadSize
<1>1. /\ got[p] \in Nat /\ sent[p] \in Nat /\ text[p] \in Nat
      /\ got[p] <= text[p] /\ text[p] <= sent[p] /\ ReadSize \in Nat
  BY ServerAssumption DEF IInv, TypeOK, PeerKept
<1>2. CASE text[p] - got[p] < n
  <2>1. StringLengths(p, n) = {text[p] - got[p]}
    BY <1>2 DEF StringLengths
  <2> QED
    BY <1>1, <1>2, <2>1
<1>3. CASE ~(text[p] - got[p] < n) /\ n < ReadSize
  <2>1. StringLengths(p, n) = {n}
    BY <1>3 DEF StringLengths
  <2> QED
    BY <1>1, <1>3, <2>1
<1>4. CASE ~(text[p] - got[p] < n) /\ ~(n < ReadSize)
  BY <1>1, <1>4
<1> QED
  BY <1>2, <1>3, <1>4

\* The assertion of read_fd() fails: the process ends with everything as it was.
LEMMA MisreadKeeps ==
  ASSUME IInv, NEW p \in Peers, ConnectionHandleRead(p), misread' # misread
  PROVE  IInv'
<1> DEFINE n == ReadResult(p)
<1>1. /\ active # << >> /\ Head(active) = p /\ active' = Tail(active)
      /\ phase = "dispatch" /\ misread = {} /\ misread' = {p}
      /\ n >= 0 /\ \E length \in StringLengths(p, n) : length # n
      /\ UNCHANGED <<reg, phase, pending, connections, state, cycles, opened, told, got,
                     empties, errors, fatal, backlog, sent, text, wire>>
  BY DEF ConnectionHandleRead, Running
<1>2. TypeOK /\ Consistent(reg) /\ SocketsKept /\ QueuesKept
  BY DEF IInv
<1>3. text[p] < sent[p] \/ sent[p] - got[p] >= ReadSize
  <2>1. n \in Nat /\ n <= sent[p] - got[p]
    <3>1. p \in Readable /\ got[p] \in Nat /\ sent[p] \in Nat
      BY <1>1, <1>2, ActiveTail DEF TypeOK
    <3>2. \/ n \in 1..ReadSize /\ n <= sent[p] - got[p]
          \/ n = 0 /\ got[p] = sent[p]
          \/ n = -1
      BY <3>1, ReadOutcome
    <3> HIDE DEF n
    <3> QED
      BY <1>1, <3>1, <3>2, ServerAssumption
  <2> HIDE DEF n
  <2> QED
    BY <1>1, <2>1, TextOutcome
<1> HIDE DEF n
<1>4. TypeOK'
  <2>1. active' \in Seq(Channels)
    BY <1>1, ActiveTail
  <2> QED
    BY <1>1, <1>2, <2>1 DEF TypeOK
<1>5. SocketsKept'
  BY <1>1, <1>2 DEF SocketsKept, Accepted
<1>6. QueuesKept'
  <2>1. Closing' = Closing /\ Waiting' = Waiting /\ Readable' = Readable
    BY <1>1 DEF Closing, Waiting, Readable
  <2>2. /\ Enumerates(active', Range(active'))
        /\ Range(active') \subseteq Range(active)
    BY <1>1, ActiveTail
  <2> QED
    BY <1>1, <1>2, <2>1, <2>2 DEF QueuesKept
<1>7. ASSUME NEW q \in Peers PROVE PeerKept(q)'
  <2>1. PeerKept(q)
    BY DEF IInv
  <2> QED
    BY <1>1, <1>3, <2>1 DEF PeerKept, Closing
<1> QED
  BY <1>1, <1>2, <1>4, <1>5, <1>6, <1>7 DEF IInv

\* A read takes bytes; an end of file takes the connection out of the map, out of what
\* the poller watches, and puts it in the queue, once.
LEMMA ReadKeeps ==
  ASSUME IInv, NEW p \in Peers, ConnectionHandleRead(p), misread' = misread
  PROVE  IInv'
<1> DEFINE n == ReadResult(p)
<1>1. /\ active # << >> /\ Head(active) = p /\ active' = Tail(active)
      /\ phase = "dispatch" /\ misread = {} /\ misread' = {}
      /\ n < 0 \/ n \in StringLengths(p, n)
      /\ HandleResult(p, n)
      /\ UNCHANGED <<phase, state, cycles, opened, told, fatal, backlog, sent, text>>
  BY DEF ConnectionHandleRead, Running
<1>20. /\ got' = [got EXCEPT ![p] = Grows(p, n)]
      /\ wire' = [wire EXCEPT ![p] = IF n < 0 /\ @ = "rst" THEN "rstRead" ELSE @]
      /\ empties' = [empties EXCEPT ![p] = IF AsSize(n) > 0 /\ n <= 0 THEN @ + 1 ELSE @]
      /\ IF EndOfFile(AsSize(n)) THEN handle_close(p)
                                 ELSE UNCHANGED <<reg, connections, pending>>
  BY <1>1 DEF HandleResult
<1>26. errors' = errors \/ errors' = errors \cup {p}
  BY <1>1 DEF HandleResult
<1>2. TypeOK /\ Consistent(reg) /\ SocketsKept /\ QueuesKept /\ PeerKept(p)
  BY DEF IInv
<1>21. p \in Readable
  BY <1>1, ActiveTail
<1>22. /\ n \in Int /\ AsSize(n) \in Nat
       /\ \/ n \in 1..ReadSize /\ n <= sent[p] - got[p] /\ Grows(p, n) = got[p] + n
          \/ /\ n = 0 /\ wire[p] \in {"fin", "rstRead"} /\ got[p] = sent[p]
             /\ Grows(p, n) = got[p]
          \/ n = -1 /\ wire[p] = "rst" /\ got[p] = sent[p] /\ Grows(p, n) = got[p]
       /\ EndOfFile(AsSize(n)) <=> n = 0
       /\ AsSize(n) > 0 <=> n # 0
  BY <1>21, ReadOutcome
<1> HIDE DEF n
<1>23. /\ got[p] \in Nat /\ sent[p] \in Nat /\ text[p] \in Nat /\ ReadSize \in Nat
       /\ got[p] <= text[p] /\ text[p] <= sent[p]
  BY <1>2, ServerAssumption DEF TypeOK, PeerKept
<1>3. /\ Grows(p, n) \in Nat /\ Grows(p, n) <= text[p] /\ Grows(p, n) <= sent[p]
      /\ EndOfFile(AsSize(n)) <=> n = 0
      /\ n = 0 => /\ wire[p] \in {"fin", "rstRead"} /\ got[p] = sent[p]
                  /\ Grows(p, n) = got[p]
      /\ n \in Int
  <2>1. CASE n \in 1..ReadSize
    <3>1. n \in Nat /\ n <= sent[p] - got[p] /\ n \in StringLengths(p, n)
      BY <1>1, <1>22, <1>23, <2>1
    <3>2. got[p] + n <= text[p]
      BY <3>1, TextOutcome
    <3> QED
      BY <1>22, <1>23, <2>1, <3>1, <3>2
  <2>2. CASE n \notin 1..ReadSize
    BY <1>22, <1>23, <2>2
  <2> QED
    BY <2>1, <2>2
<1>4. p \in connections /\ state[p] = "Connected" /\ p \in Channels /\ p # Listener
  BY <1>1, <1>2, ActiveTail, Fields DEF PeerKept
<1>5. /\ wire' \in [Peers -> {"off", "open", "fin", "rst", "rstRead"}]
      /\ wire[p] # "off" /\ wire'[p] # "off"
      /\ n = 0 => wire'[p] = wire[p]
      /\ \A q \in Peers \ {p} : wire'[q] = wire[q]
  BY <1>20, <1>2, <1>4 DEF TypeOK, PeerKept
<1>24. /\ empties' \in [Peers -> 0..1]
       /\ empties'[p] = IF wire'[p] = "rstRead" THEN 1 ELSE 0
       /\ \A q \in Peers \ {p} : empties'[q] = empties[q]
  <2>1. empties[p] = IF wire[p] = "rstRead" THEN 1 ELSE 0
    BY <1>2 DEF PeerKept
  <2>2. CASE n = -1
    <3>1. wire[p] = "rst" /\ AsSize(n) > 0 /\ n <= 0 /\ n < 0
      BY <1>22, <1>23, <2>2
    <3>2. wire'[p] = "rstRead"
      BY <1>20, <1>2, <3>1 DEF TypeOK
    <3>3. empties' = [empties EXCEPT ![p] = 1]
      BY <1>20, <2>1, <3>1
    <3> QED
      BY <1>2, <3>2, <3>3 DEF TypeOK
  <2>3. CASE n # -1
    <3>1. ~(n < 0) /\ ~(AsSize(n) > 0 /\ n <= 0)
      BY <1>22, <1>23, <2>3
    <3>2. wire'[p] = wire[p] /\ empties' = empties
      BY <1>20, <1>2, <3>1 DEF TypeOK
    <3> QED
      BY <1>2, <2>1, <3>2 DEF TypeOK
  <2> QED
    BY <2>2, <2>3
<1>6. /\ got' \in [Peers -> 0..MaxSend]
      /\ got'[p] = Grows(p, n)
      /\ \A q \in Peers \ {p} : got'[q] = got[q]
  <2>1. got[p] \in Nat /\ sent[p] \in Nat /\ sent[p] <= MaxSend /\ MaxSend \in Nat
    BY <1>2, ServerAssumption DEF TypeOK
  <2>2. Grows(p, n) \in 0..MaxSend
    BY <1>3, <2>1
  <2> QED
    BY <1>20, <1>2, <2>2 DEF TypeOK
<1>7. Waiting' = Waiting /\ Accepted' = Accepted
  BY <1>1, <1>4, <1>5 DEF Waiting, Accepted
<1>8. /\ active' \in Seq(Channels)
      /\ Enumerates(active', Range(active'))
      /\ Range(active') = Range(active) \ {p}
  BY <1>1, ActiveTail
<1>25. Range(active') \subseteq Readable'
  <2>1. ASSUME NEW c \in Readable, c # p PROVE c \in Readable'
    BY <1>1, <1>5, <1>6, <2>1 DEF Readable
  <2> QED
    BY <1>2, <1>8, <2>1 DEF QueuesKept
<1>9. ASSUME /\ Consistent(reg') /\ reg'.fd = reg.fd /\ reg'.added = reg.added
             /\ reg'.index = reg.index
             /\ pending' \in Seq(Peers) /\ Enumerates(pending', Closing')
             /\ connections' = connections \/ connections' = connections \ {p}
             /\ \A q \in Peers \ {p} : reg'.events[q] = reg.events[q]
             /\ PeerKept(p)'
      PROVE  IInv'
  <2>1. TypeOK'
    <3>1. reg' \in Registry
      BY <1>9 DEF Consistent
    <3>2. connections' \subseteq Peers
      BY <1>2, <1>9 DEF TypeOK
    <3>3. errors' \subseteq Peers /\ misread' \subseteq Peers
      <4>1. errors \subseteq Peers
        BY <1>2 DEF TypeOK
      <4>2. errors' \subseteq Peers
        BY <1>26, <4>1
      <4>3. misread' \subseteq Peers
        BY <1>1
      <4> QED
        BY <4>2, <4>3
    <3> QED
      BY <1>1, <1>2, <1>5, <1>6, <1>8, <1>9, <1>24, <3>1, <3>2, <3>3 DEF TypeOK
  <2>2. SocketsKept'
    BY <1>1, <1>2, <1>7, <1>9 DEF SocketsKept
  <2>3. QueuesKept'
    BY <1>1, <1>2, <1>7, <1>8, <1>9, <1>25 DEF QueuesKept
  <2>4. ASSUME NEW q \in Peers, q # p PROVE PeerKept(q)'
    <3>1. PeerKept(q)
      BY DEF IInv
    <3>2. q \in Closing' <=> q \in Closing
      BY <1>1, <1>9, <2>4 DEF Closing
    <3> QED
      BY <1>1, <1>5, <1>6, <1>9, <1>24, <2>4, <3>1, <3>2 DEF PeerKept
  <2> QED
    BY <1>9, <2>1, <2>2, <2>3, <2>4 DEF IInv
<1>10. CASE n = 0
  <2>1. /\ reg' = disable_all(reg, p)
        /\ connections' = connections \ {p}
        /\ pending' = Append(pending, p)
    BY <1>20, <1>2, <1>3, <1>4, <1>10 DEF handle_close, Asserting
  <2>2. Updated(reg, reg', p, "none")
    <3>1. "none" \in Events /\ reg' = Update([reg EXCEPT !.events[p] = "none"], p)
      BY <2>1 DEF Events, disable_all
    <3>2. reg.added[p]
      BY <1>2, <1>4 DEF PeerKept
    <3> QED
      BY <1>2, <1>4, <3>1, <3>2, UpdateAdded
  <2>3. /\ reg'.events[p] = "none"
        /\ \A q \in Peers \ {p} : reg'.events[q] = reg.events[q]
    BY <1>4, <2>2, Fields DEF Updated
  <2>4. Closing' = Closing \cup {p} /\ p \notin Closing
    BY <1>1, <1>4, <2>1 DEF Closing
  <2>5. pending' \in Seq(Peers) /\ Enumerates(pending', Closing')
    <3>1. pending \in Seq(Peers) /\ Enumerates(pending, Closing) /\ Closing \in SUBSET Peers
      BY <1>2 DEF TypeOK, QueuesKept, Closing
    <3> QED
      BY <2>1, <2>4, <3>1, AppendEnumerates
  <2>6. PeerKept(p)'
    BY <1>1, <1>2, <1>3, <1>4, <1>5, <1>6, <1>10, <1>24, <2>1, <2>2, <2>3 DEF PeerKept, Updated
  <2> QED
    BY <1>9, <2>1, <2>2, <2>3, <2>5, <2>6 DEF Updated
<1>11. CASE n # 0
  <2>1. UNCHANGED <<reg, connections, pending>>
    BY <1>20, <1>3, <1>11
  <2>2. Closing' = Closing /\ p \notin Closing
    BY <1>1, <1>4, <2>1 DEF Closing
  <2>3. PeerKept(p)'
    BY <1>1, <1>2, <1>3, <1>5, <1>6, <1>24, <2>1, <2>2 DEF PeerKept
  <2> QED
    BY <1>2, <1>9, <2>1, <2>2, <2>3 DEF TypeOK, QueuesKept
<1> QED
  BY <1>10, <1>11

\* connect_destoryed() is for the connection that waits longest to be closed.
LEMMA DestroyKeeps ==
  ASSUME IInv, ConnectDestoryed
  PROVE  IInv'
<1> DEFINE p == Head(pending)
           r == disable_all(reg, p)
<1>1. TypeOK /\ Consistent(reg) /\ SocketsKept /\ QueuesKept
  BY DEF IInv
<1>2. phase = "functors" /\ pending # << >> /\ pending' = Tail(pending)
  BY DEF ConnectDestoryed
<1>3. /\ p \in Closing /\ p \in Peers
      /\ pending' \in Seq(Peers) /\ Enumerates(pending', Closing \ {p})
  BY <1>1, <1>2, TailEnumerates DEF TypeOK, QueuesKept
<1>4. /\ state[p] = "Connected" /\ p \notin connections /\ PeerKept(p)
      /\ p \in cycles /\ p \in Channels /\ p # Listener /\ reg.added[p]
  BY <1>3, Fields DEF Closing, IInv, PeerKept
<1>5. /\ reg' = remove(r, p)
      /\ state' = [state EXCEPT ![p] = "DisConnected"]
      /\ told' = [told EXCEPT ![p] = "down"]
      /\ UNCHANGED <<opened, backlog, sent, text, wire, phase, active, connections, cycles, got,
                     empties, misread, errors, fatal>>
  BY <1>4 DEF ConnectDestoryed, TakeFromLoop, Asserting, kernel
<1> HIDE DEF p
<1>6. Updated(reg, r, p, "none")
  <2>1. "none" \in Events /\ r = Update([reg EXCEPT !.events[p] = "none"], p)
    BY DEF Events, disable_all
  <2> HIDE DEF r
  <2> QED
    BY <1>1, <1>4, <2>1, UpdateAdded
<1> HIDE DEF r
<1>7. /\ Consistent(r) /\ r.added[p] /\ r.events[p] = "none"
  BY <1>4, <1>6, Fields DEF Updated
<1>8. Removed(r, reg', p)
  BY <1>4, <1>5, <1>7, RemoveAdded
<1>9. /\ Consistent(reg') /\ reg'.fd = reg.fd
      /\ reg'.added[p] = FALSE /\ reg'.events[p] = "none"
      /\ \A c \in Channels \ {p} :
           reg'.added[c] = reg.added[c] /\ reg'.events[c] = reg.events[c]
      /\ \A c \in Channels \ {p} : ~reg.added[c] => reg'.index[c] = reg.index[c]
  BY <1>4, <1>6, <1>8, Fields DEF Updated, Removed
<1>10. /\ state' \in [Peers -> {"none", "Connected", "DisConnected"}]
       /\ told' \in [Peers -> {"none", "up", "down"}]
       /\ state'[p] = "DisConnected" /\ told'[p] = "down"
       /\ \A q \in Peers \ {p} : state'[q] = state[q] /\ told'[q] = told[q]
  BY <1>1, <1>3, <1>5 DEF TypeOK
<1>16. Readable' = Readable
  BY <1>5 DEF Readable
<1>11. Waiting' = Waiting /\ Closing' = Closing \ {p} /\ Accepted' = Accepted
  BY <1>3, <1>4, <1>5, <1>10 DEF Waiting, Closing, Accepted
<1>12. TypeOK'
  <2>1. reg' \in Registry
    BY <1>9 DEF Consistent
  <2> QED
    BY <1>1, <1>3, <1>5, <1>10, <2>1 DEF TypeOK
<1>13. SocketsKept'
  BY <1>1, <1>4, <1>5, <1>9, <1>11, Fields DEF SocketsKept
<1>14. QueuesKept'
  BY <1>1, <1>2, <1>3, <1>5, <1>11, <1>16 DEF QueuesKept
<1>15. ASSUME NEW q \in Peers PROVE PeerKept(q)'
  <2>1. PeerKept(q) /\ q \in Channels
    BY Fields DEF IInv
  <2>2. CASE q = p
    BY <1>4, <1>5, <1>9, <1>10, <1>11, <2>1, <2>2 DEF PeerKept, ToldOf
  <2>3. CASE q # p
    BY <1>5, <1>9, <1>10, <1>11, <2>1, <2>3 DEF PeerKept
  <2> QED
    BY <2>2, <2>3
<1> QED
  BY <1>9, <1>12, <1>13, <1>14, <1>15 DEF IInv

\* Every step, of the loop or of a peer, keeps the invariant.
LEMMA StepIInv == IInv /\ [Next]_vars => IInv'
<1> SUFFICES ASSUME IInv, [Next]_vars PROVE IInv'
  OBVIOUS
<1>1. CASE AcceptorHandleRead
  BY <1>1, FatalKeeps, AcceptKeeps
<1>2. CASE \E p \in Peers : ConnectionHandleRead(p)
  BY <1>2, ReadKeeps, MisreadKeeps
<1>3. CASE \E p \in Peers : Connect(p) \/ Send(p) \/ Close(p) \/ Reset(p)
  BY <1>3, ConnectKeeps, PeerKeeps
<1>4. CASE Poll \/ start \/ ConnectDestoryed
  BY <1>4, PollKeeps, StartKeeps, DestroyKeeps
<1>5. CASE DispatchDone \/ FunctorsDone \/ UNCHANGED vars
  BY <1>5, PhaseKeeps
<1> QED
  BY <1>1, <1>2, <1>3, <1>4, <1>5 DEF Next, Loop

\* The records of who is connected and the queues of the loop agree in every state.
THEOREM Invariance == Spec => []IInv
  BY InitIInv, StepIInv, PTL DEF Spec

\* Every record of the server, the loop and the kernel keeps to its type.
THEOREM TypeCorrect == Spec => []TypeOK
<1>1. IInv => TypeOK
  BY DEF IInv
<1> QED
  BY Invariance, <1>1, PTL

\* Between two iterations the map of the server, the state of each connection, the
\* poller and what the user was told name the same connections: whatever was closed
\* in the iteration has been destroyed in it.
THEOREM RecordsAgree == Spec => []TablesAgree
<1>1. ASSUME IInv PROVE TablesAgree
  <2> SUFFICES ASSUME phase = "poll", NEW p \in Peers
               PROVE  /\ p \in connections <=> state[p] = "Connected"
                      /\ p \in connections <=> reg.added[p] /\ reg.events[p] = "read"
                      /\ p \in connections <=> told[p] = "up"
    BY DEF TablesAgree
  <2>1. p \notin Closing
    <3>1. pending = << >> /\ Enumerates(pending, Closing)
      BY <1>1 DEF IInv, QueuesKept
    <3> QED
      BY <3>1, EmptyEnumerates
  <2>2. PeerKept(p)
    BY <1>1 DEF IInv
  <2> QED
    BY <2>1, <2>2 DEF PeerKept, Closing, ToldOf
<1> QED
  BY Invariance, <1>1, PTL

-----------------------------------------------------------------------------
(* No assertion fails and nothing is fatal.                                *)

\* There is a descriptor for the listener and for each peer: the server closes none.
DescriptorsLast ==
  /\ IsFiniteSet(Channels)
  /\ \E f \in [Channels -> Fds] : \A c, d \in Channels : f[c] = f[d] => c = d

\* accept() has a descriptor left for the peer that waits for it.
LEMMA AcceptSucceeds ==
  ASSUME DescriptorsLast, IInv, AcceptorHandleRead
  PROVE  ~(Fds \subseteq opened)
<1> SUFFICES ASSUME Fds \subseteq opened PROVE FALSE
  OBVIOUS
<1>1. SocketsKept /\ QueuesKept /\ TypeOK
  BY DEF IInv
<1>2. PICK p \in Peers : p \notin Accepted
  <2>1. backlog # << >> /\ backlog \in Seq(Peers) /\ Enumerates(backlog, Waiting)
    BY <1>1, ActiveTail DEF AcceptorHandleRead, QueuesKept, TypeOK
  <2>2. Head(backlog) \in Waiting
    BY <2>1, TailEnumerates
  <2> QED
    BY <2>2, Fields DEF Waiting, Accepted
<1>3. /\ Accepted \subseteq Channels /\ p \in Channels
      /\ IsFiniteSet(Channels) /\ IsFiniteSet(Accepted)
      /\ Cardinality(Accepted) < Cardinality(Channels)
  <2>1. Accepted \subseteq Channels /\ p \in Channels
    BY Fields DEF Accepted
  <2>2. IsFiniteSet(Channels)
    BY DEF DescriptorsLast
  <2>3. /\ IsFiniteSet(Accepted)
        /\ Cardinality(Accepted) <= Cardinality(Channels)
        /\ Cardinality(Channels) = Cardinality(Accepted) => Channels = Accepted
    BY <2>1, <2>2, FS_Subset
  <2>4. Cardinality(Accepted) \in Nat /\ Cardinality(Channels) \in Nat
    BY <2>2, <2>3, FS_CardinalityType
  <2> QED
    BY <1>2, <2>1, <2>2, <2>3, <2>4
<1>4. IsFiniteSet(opened) /\ Cardinality(opened) <= Cardinality(Accepted)
  <2> DEFINE f == [c \in Accepted |-> reg.fd[c]]
  <2>1. f \in Surjection(Accepted, opened)
    <3>1. f \in [Accepted -> opened]
      BY <1>1 DEF SocketsKept
    <3>2. \A o \in opened : \E c \in Accepted : f[c] = o
      BY <1>1 DEF SocketsKept
    <3> HIDE DEF f
    <3> QED
      BY <3>1, <3>2, Fun_IsSurj
  <2> HIDE DEF f
  <2> QED
    BY <1>3, <2>1, FS_Surjection
<1>5. PICK f \in [Channels -> Fds] : \A c, d \in Channels : f[c] = f[d] => c = d
  BY DEF DescriptorsLast
<1>6. f \in [Channels -> opened]
  BY <1>5
<1>7. Cardinality(opened) < Cardinality(Channels)
  <2>1. /\ Cardinality(opened) \in Nat /\ Cardinality(Accepted) \in Nat
        /\ Cardinality(Channels) \in Nat
    BY <1>3, <1>4, FS_CardinalityType
  <2> QED
    BY <1>3, <1>4, <2>1
<1>8. \E c, d \in Channels : c # d /\ f[c] = f[d]
  BY <1>3, <1>4, <1>6, <1>7, FS_PigeonHole
<1> QED
  BY <1>5, <1>8

\* As long as there are descriptors no assertion of Poller, Channel, TcpConnection and
\* TcpServer fails and accept() does not: a connection closes once, whatever the
\* others do in the same iteration.  The assertion of read_fd() fails for a byte 0 or for
\* a read that fills the buffer, and for nothing else.
THEOREM NothingElseIsFatal ==
  ASSUME DescriptorsLast
  PROVE  Spec => []OnlyBytesAbort
<1>1. Init => ~fatal
  BY DEF Init
<1>2. IInv /\ ~fatal /\ [Next]_vars => ~fatal'
  <2> SUFFICES ASSUME IInv, ~fatal, [Next]_vars PROVE ~fatal'
    OBVIOUS
  <2>1. CASE AcceptorHandleRead
    <3>1. ~(Fds \subseteq opened)
      BY <2>1, AcceptSucceeds
    <3> QED
      BY <2>1, <3>1 DEF AcceptorHandleRead
  <2>2. CASE ~AcceptorHandleRead
    <3>1. fatal' = fatal
      BY <2>2 DEF Next, Loop, Poll, start, ConnectionHandleRead, DispatchDone, ConnectDestoryed,
                  FunctorsDone, Connect, Send, Close, Reset, vars, server, kernel
    <3> QED
      BY <3>1
  <2> QED
    BY <2>1, <2>2
<1>3. IInv /\ ~fatal => OnlyBytesAbort
  BY Fields DEF OnlyBytesAbort, IInv, PeerKept, TypeOK
<1> QED
  BY <1>1, <1>2, <1>3, Invariance, PTL DEF Spec

-----------------------------------------------------------------------------
(* The server implements ServerPromise.                                    *)

\* A step of the kernel is one of the peer it is about, or of no concern to the user.
LEMMA PeerStep ==
  ASSUME IInv, NEW p \in Peers, Connect(p) \/ Send(p) \/ Close(p) \/ Reset(p)
  PROVE  [Promise!Next]_(Promise!vars)
<1> DEFINE open == [q \in Peers |-> wire[q] \in {"off", "open"}]
<1>1. TypeOK /\ PeerKept(p)
  BY DEF IInv
<1>2. UNCHANGED <<told, got, empties>>
  BY DEF Connect, Send, Close, Reset, server
<1>3. \/ UNCHANGED <<sent, open>>
      \/ Promise!Peer(p)
  <2>1. CASE Connect(p)
    <3>1. UNCHANGED sent /\ wire[p] = "off" /\ wire' = [wire EXCEPT ![p] = "open"]
      BY <2>1 DEF Connect
    <3>2. \A q \in Peers : wire'[q] \in {"off", "open"} <=> wire[q] \in {"off", "open"}
      BY <1>1, <3>1 DEF TypeOK
    <3>3. open' = open
      BY <3>2
    <3> QED
      BY <3>1, <3>3
  <2>2. CASE Send(p) \/ Close(p) \/ Reset(p)
    <3>1. wire[p] = "open" /\ open[p]
      BY <2>2 DEF Send, Close, Reset
    <3>2. PICK w \in {"open", "fin", "rst"} : wire' = [wire EXCEPT ![p] = w]
      <4>1. wire = [wire EXCEPT ![p] = "open"]
        BY <1>1, <3>1 DEF TypeOK
      <4> QED
        BY <2>2, <4>1 DEF Send, Close, Reset
    <3>3. \E o \in BOOLEAN : open' = [open EXCEPT ![p] = o]
      <4>1. \A q \in Peers : wire'[q] = IF q = p THEN w ELSE wire[q]
        BY <1>1, <3>2 DEF TypeOK
      <4> DEFINE o == w \in {"off", "open"}
      <4>2. open' = [open EXCEPT ![p] = o]
        BY <4>1
      <4>3. o \in BOOLEAN
        OBVIOUS
      <4> HIDE DEF o, open
      <4> QED
        BY <4>2, <4>3, Zenon
    <3>4. got[p] \in Nat /\ sent[p] \in Nat
      BY <1>1 DEF TypeOK
    <3>5. PICK n \in {got[p]} \cup (sent[p]..(sent[p] + 1)) : sent' = [sent EXCEPT ![p] = n]
      <4>1. sent = [sent EXCEPT ![p] = sent[p]]
        BY <1>1 DEF TypeOK
      <4>2. sent[p] \in sent[p]..(sent[p] + 1) /\ sent[p] + 1 \in sent[p]..(sent[p] + 1)
        BY <3>4
      <4> QED
        BY <2>2, <4>1, <4>2 DEF Send, Close, Reset
    <3>6. sent'[p] < sent[p] => ~open'[p]
      <4>1. CASE Send(p) \/ Close(p)
        BY <1>1, <3>4, <4>1 DEF Send, Close, TypeOK
      <4>2. CASE Reset(p)
        BY <1>1, <4>2 DEF Reset, TypeOK
      <4> QED
        BY <2>2, <4>1, <4>2
    <3> HIDE DEF open
    <3>7. Promise!Peer(p)
      BY <1>2, <3>1, <3>3, <3>5, <3>6 DEF Promise!Peer, open
    <3> QED
      BY <3>7
  <2> QED
    BY <2>1, <2>2
<1> QED
  BY <1>2, <1>3 DEF Promise!Next, Promise!vars

\* A read gives the user the bytes it takes, a read error one message with none, and the
\* end of file or a failed assertion nothing.
LEMMA ReadStep ==
  ASSUME IInv, NEW p \in Peers, ConnectionHandleRead(p)
  PROVE  [Promise!Next]_(Promise!vars)
<1> DEFINE open == [q \in Peers |-> wire[q] \in {"off", "open"}]
           n == ReadResult(p)
<1>1. TypeOK /\ PeerKept(p) /\ QueuesKept
  BY DEF IInv
<1>2. /\ active # << >> /\ Head(active) = p /\ UNCHANGED <<told, sent>>
      /\ \/ UNCHANGED <<got, empties, wire>>
         \/ HandleResult(p, n)
  BY DEF ConnectionHandleRead
<1>3. CASE UNCHANGED <<got, empties, wire>>
  BY <1>2, <1>3 DEF Promise!vars
<1>4. ASSUME HandleResult(p, n) PROVE [Promise!Next]_(Promise!vars)
  <2>1. /\ got' = [got EXCEPT ![p] = Grows(p, n)]
        /\ wire' = [wire EXCEPT ![p] = IF n < 0 /\ @ = "rst" THEN "rstRead" ELSE @]
        /\ empties' = [empties EXCEPT ![p] = IF AsSize(n) > 0 /\ n <= 0 THEN @ + 1 ELSE @]
    BY <1>4 DEF HandleResult
  <2>2. /\ n \in Int /\ AsSize(n) \in Nat
        /\ \/ n \in 1..ReadSize /\ n <= sent[p] - got[p] /\ Grows(p, n) = got[p] + n
           \/ /\ n = 0 /\ wire[p] \in {"fin", "rstRead"} /\ got[p] = sent[p]
              /\ Grows(p, n) = got[p]
           \/ n = -1 /\ wire[p] = "rst" /\ got[p] = sent[p] /\ Grows(p, n) = got[p]
        /\ AsSize(n) > 0 <=> n # 0
    BY <1>2, ActiveTail, ReadOutcome
  <2> HIDE DEF n
  <2>3. told[p] = "up"
    <3>1. p \in connections
      BY <1>2, ActiveTail, Fields
    <3> QED
      BY <1>1, <3>1 DEF PeerKept, ToldOf
  <2>4. open' = open
    BY <1>1, <2>1 DEF TypeOK
  <2>5. /\ got[p] \in Nat /\ sent[p] \in Nat /\ got = [got EXCEPT ![p] = got[p]]
        /\ ReadSize \in Nat /\ empties = [empties EXCEPT ![p] = empties[p]]
    BY <1>1, ServerAssumption DEF TypeOK
  <2>6. CASE n = -1
    <3>1. /\ wire[p] = "rst" /\ got[p] = sent[p] /\ Grows(p, n) = got[p]
          /\ AsSize(n) > 0 /\ n <= 0
      BY <2>2, <2>5, <2>6
    <3>2. empties[p] = 0 /\ ~open[p]
      BY <1>1, <3>1 DEF PeerKept
    <3>3. got' = got /\ empties' = [empties EXCEPT ![p] = 1]
      BY <2>1, <2>5, <3>1, <3>2
    <3> HIDE DEF open
    <3>4. Promise!EmptyMessage(p)
      BY <1>2, <2>3, <2>4, <3>1, <3>2, <3>3 DEF Promise!EmptyMessage, open
    <3> QED
      BY <3>4 DEF Promise!Next
  <2>7. CASE n = 0
    <3>1. got' = got /\ empties' = empties
      BY <2>1, <2>2, <2>5, <2>7
    <3> HIDE DEF open
    <3> QED
      BY <1>2, <2>4, <3>1 DEF Promise!vars, open
  <2>8. CASE n \in 1..ReadSize
    <3>1. Grows(p, n) \in (got[p] + 1)..sent[p] /\ ~(n <= 0)
      BY <2>2, <2>5, <2>8
    <3>2. empties' = empties
      BY <2>1, <2>5, <3>1
    <3> HIDE DEF open
    <3>3. Promise!Message(p)
      BY <1>2, <2>1, <2>3, <2>4, <3>1, <3>2 DEF Promise!Message, open
    <3> QED
      BY <3>3 DEF Promise!Next
  <2> QED
    BY <2>2, <2>6, <2>7, <2>8
<1> QED
  BY <1>2, <1>3, <1>4

\* The user hears of a connection first when it is accepted.
LEMMA AcceptStep ==
  ASSUME IInv, AcceptorHandleRead
  PROVE  [Promise!Next]_(Promise!vars)
<1> DEFINE p == Head(backlog)
           open == [q \in Peers |-> wire[q] \in {"off", "open"}]
<1>1. UNCHANGED <<got, empties, sent, open>>
  BY DEF AcceptorHandleRead
<1>2. CASE Fds \subseteq opened
  <2>1. UNCHANGED told
    BY <1>2 DEF AcceptorHandleRead
  <2> QED
    BY <1>1, <2>1 DEF Promise!vars
<1>3. CASE ~(Fds \subseteq opened)
  <2>1. p \in Waiting
    <3>1. backlog # << >> /\ backlog \in Seq(Peers) /\ Enumerates(backlog, Waiting)
      BY ActiveTail DEF AcceptorHandleRead, IInv, QueuesKept, TypeOK
    <3> QED
      BY <3>1, TailEnumerates
  <2>2. told' = [told EXCEPT ![p] = "up"]
    BY <1>3 DEF AcceptorHandleRead, new_connection, connect_establish
  <2>3. p \in Peers /\ told[p] = "none"
    BY <2>1 DEF Waiting, IInv, PeerKept, ToldOf
  <2> HIDE DEF p, open
  <2>4. Promise!Up(p)
    BY <1>1, <2>2, <2>3 DEF Promise!Up, open
  <2> QED
    BY <2>3, <2>4 DEF Promise!Next
<1> QED
  BY <1>2, <1>3

\* And last when it is destroyed: its peer has closed or reset it by then, and no
\* byte is left.
LEMMA DestroyStep ==
  ASSUME IInv, ConnectDestoryed
  PROVE  [Promise!Next]_(Promise!vars)
<1> DEFINE p == Head(pending)
           open == [q \in Peers |-> wire[q] \in {"off", "open"}]
<1>1. UNCHANGED <<got, empties, sent, open>> /\ told' = [told EXCEPT ![p] = "down"]
  BY DEF ConnectDestoryed, kernel
<1>2. p \in Closing
  <2>1. pending # << >> /\ pending \in Seq(Peers) /\ Enumerates(pending, Closing)
    BY DEF ConnectDestoryed, IInv, QueuesKept, TypeOK
  <2> QED
    BY <2>1, TailEnumerates
<1>3. /\ p \in Peers /\ told[p] = "up" /\ got[p] = sent[p]
      /\ wire[p] \in {"fin", "rstRead"}
  BY <1>2 DEF Closing, IInv, PeerKept, ToldOf
<1>4. ~open[p]
  BY <1>3
<1> HIDE DEF p, open
<1>5. Promise!Down(p)
  BY <1>1, <1>3, <1>4 DEF Promise!Down, open
<1> QED
  BY <1>3, <1>5 DEF Promise!Next

\* Of every connection the user sees up, the bytes sent, at most one message that is
\* empty, and down once, after the last byte: the loop, the poller, the queue of
\* functors and the order of the events change nothing of it.  When bytes end the process
\* the user has seen none of the read that did.
THEOREM ServesAsPromised == Spec => ImplementsPromise
<1>1. Init => Promise!Init
  <2> SUFFICES ASSUME Init PROVE Promise!Init
    OBVIOUS
  <2>1. [p \in Peers |-> wire[p] \in {"off", "open"}] = [p \in Peers |-> TRUE]
    BY DEF Init
  <2> QED
    BY <2>1 DEF Init, Promise!Init
<1>2. IInv /\ [Next]_vars => [Promise!Next]_(Promise!vars)
  <2> SUFFICES ASSUME IInv, [Next]_vars PROVE [Promise!Next]_(Promise!vars)
    OBVIOUS
  <2>1. CASE \E p \in Peers : Connect(p) \/ Send(p) \/ Close(p) \/ Reset(p)
    BY <2>1, PeerStep
  <2>2. CASE \E p \in Peers : ConnectionHandleRead(p)
    BY <2>2, ReadStep
  <2>3. CASE AcceptorHandleRead \/ ConnectDestoryed
    BY <2>3, AcceptStep, DestroyStep
  <2>4. CASE start \/ Poll \/ DispatchDone \/ FunctorsDone \/ UNCHANGED vars
    <3>1. UNCHANGED <<told, got, empties, sent, wire>>
      BY <2>4 DEF start, Poll, DispatchDone, FunctorsDone, vars, server, kernel
    <3> QED
      BY <3>1 DEF Promise!vars
  <2> QED
    BY <2>1, <2>2, <2>3, <2>4 DEF Next, Loop
<1> QED
  BY <1>1, <1>2, Invariance, PTL DEF Spec, ImplementsPromise, Promise!Spec

=============================================================================

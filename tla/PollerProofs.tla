---------------------------- MODULE PollerProofs ----------------------------
(***************************************************************************)
(* Lemmas about the operators of Poller, for any module that keeps a       *)
(* registry: what makes the two tables of the poller and the fields of the *)
(* channels consistent, and that each call keeps them so.  And what is     *)
(* proved with them of PollerClient: for any number of channels and any    *)
(* order of calls no assertion fails.                                      *)
(***************************************************************************)
EXTENDS PollerClient, CommonLemmas


\* Every channel in the loop has its own entry, and every entry and every key of
\* the map has its channel.
Consistent(r) ==
  /\ r \in Registry
  /\ r.failed = FALSE
  /\ \A c \in Channels :
       r.added[c] => Knows(r, c) /\ HasEntry(r, c) /\ Entry(r, c) = Interest(r, c)
  /\ \A c \in Channels : r.added[c] \/ r.events[c] = "none"
  /\ \A i \in 1..Len(r.pollfds) :
       \E c \in Channels : r.added[c] /\ r.index[c] = i - 1
  /\ \A f \in Fds :
       r.channels[f] # NoChannel
         => r.added[r.channels[f]] /\ r.fd[r.channels[f]] = f

-----------------------------------------------------------------------------
(* The fields of a registry.                                               *)

PollFds == [fd : Fds \cup {-f - 1 : f \in Fds}, events : Events]

LEMMA RegistryFields ==
  ASSUME NEW r \in Registry
  PROVE  /\ r.pollfds \in Seq(PollFds)
         /\ Len(r.pollfds) \in Nat
         /\ r.channels \in [Fds -> Channels \cup {NoChannel}]
         /\ r.alive \in SUBSET Channels
         /\ r.fd \in [Channels -> Fds]
         /\ r.events \in [Channels -> Events]
         /\ r.index \in [Channels -> Nat \cup {-1}]
         /\ r.added \in [Channels -> BOOLEAN]
         /\ r.failed \in BOOLEAN
  BY LenProperties DEF Registry, PollFds

\* added_to_loop_ keeps to its type.
LEMMA SetAdded ==
  ASSUME NEW r \in Registry, NEW c \in Channels, NEW b \in BOOLEAN
  PROVE  [r EXCEPT !.added[c] = b] \in Registry
  BY DEF Registry

\* A removal leaves a registry.
LEMMA SetMoved ==
  ASSUME NEW r \in Registry, NEW p \in Seq(PollFds), NEW c \in Channels, NEW i \in Nat
  PROVE  [r EXCEPT !.pollfds = p, !.index[c] = i] \in Registry
  BY DEF Registry, PollFds

\* Fields of a consistent registry and of a channel that is added.
LEMMA ConsistentFields ==
  ASSUME NEW r, Consistent(r), NEW c \in Channels
  PROVE  /\ r \in Registry
         /\ r.fd[c] \in Fds /\ r.fd[c] \in Nat
         /\ r.added[c] \in BOOLEAN
         /\ r.added[c] => /\ r.index[c] \in Nat
                          /\ r.index[c] < Len(r.pollfds)
                          /\ r.channels[r.fd[c]] = c
                          /\ r.pollfds[r.index[c] + 1] = Interest(r, c)
<1>1. r \in Registry
  BY DEF Consistent
<1>2. r.fd[c] \in Fds /\ r.added[c] \in BOOLEAN /\ Len(r.pollfds) \in Nat
  <2>1. /\ r.fd \in [Channels -> Fds]
        /\ r.added \in [Channels -> BOOLEAN]
        /\ Len(r.pollfds) \in Nat
    BY <1>1, RegistryFields
  <2> QED
    BY <2>1
<1>3. r.fd[c] \in Nat
  BY <1>2, PollerAssumption
<1> QED
  BY <1>1, <1>2, <1>3 DEF Consistent, Knows, HasEntry, Entry

\* Two channels that are added have neither their entry nor their descriptor in
\* common.
LEMMA OneEntryEach ==
  ASSUME NEW r, Consistent(r), NEW c \in Channels, NEW d \in Channels,
         r.added[c], r.added[d], r.index[c] = r.index[d] \/ r.fd[c] = r.fd[d]
  PROVE  c = d
<1>1. ASSUME r.index[c] = r.index[d] PROVE r.fd[c] = r.fd[d]
  <2>1. Interest(r, c).fd = Interest(r, d).fd
    BY <1>1, ConsistentFields
  <2>2. r.fd[c] \in Nat /\ r.fd[d] \in Nat
    BY ConsistentFields
  <2> QED
    BY <2>1, <2>2 DEF Interest, PollFd, Complement
<1> QED
  BY <1>1, ConsistentFields

-----------------------------------------------------------------------------
(* The calls on a consistent registry.                                     *)

\* q is r with an entry of its own for c.
Enabled(r, q, c) ==
  /\ Consistent(q)
  /\ q.alive = r.alive /\ q.fd = r.fd
  /\ q.events = [r.events EXCEPT ![c] = "read"]
  /\ q.added = [r.added EXCEPT ![c] = TRUE]
  /\ \A d \in Channels \ {c} :
       q.index[d] = r.index[d] /\ (r.added[d] => Entry(q, d) = Entry(r, d))

\* q is r with the interest ev in the entry of c.
Updated(r, q, c, ev) ==
  /\ Consistent(q)
  /\ q.alive = r.alive /\ q.fd = r.fd
  /\ q.events = [r.events EXCEPT ![c] = ev]
  /\ q.added = r.added
  /\ q.index = r.index
  /\ \A d \in Channels :
       r.added[d] /\ q.events[d] = r.events[d] => Entry(q, d) = Entry(r, d)

\* q is r without an entry for c.
Removed(r, q, c) ==
  /\ Consistent(q)
  /\ q.alive = r.alive
  /\ q.fd = r.fd
  /\ q.added = [r.added EXCEPT ![c] = FALSE]
  /\ q.events = r.events
  /\ \A d \in Channels : ~r.added[d] => q.index[d] = r.index[d]
  /\ \A d \in Channels \ {c} : r.added[d] => Entry(q, d) = Entry(r, d)

\* q is r with c constructed on fd.
Constructed(r, q, c, fd) ==
  /\ Consistent(q)
  /\ q.alive = r.alive \cup {c}
  /\ q.fd = [r.fd EXCEPT ![c] = fd]
  /\ q.events = [r.events EXCEPT ![c] = "none"]
  /\ q.added = r.added
  /\ q.index = [r.index EXCEPT ![c] = -1]
  /\ \A d \in Channels : r.added[d] => Entry(q, d) = Entry(r, d)

\* q is r without c.
Destructed(r, q, c) ==
  /\ Consistent(q)
  /\ q.alive = r.alive \ {c}
  /\ q.fd = r.fd /\ q.events = r.events
  /\ q.added = r.added
  /\ q.index = r.index
  /\ \A d \in Channels : Entry(q, d) = Entry(r, d)

\* No channel is in the loop when the program starts.
LEMMA EmptyConsistent ==
  /\ Consistent(EmptyRegistry)
  /\ \A c \in Channels : /\ EmptyRegistry.added[c] = FALSE
                         /\ EmptyRegistry.events[c] = "none"
                         /\ EmptyRegistry.index[c] = -1
<1> DEFINE r == EmptyRegistry
<1>1. /\ r.pollfds = << >> /\ r.failed = FALSE
      /\ r.channels = [f \in Fds |-> NoChannel]
      /\ r.events = [c \in Channels |-> "none"]
      /\ r.index = [c \in Channels |-> -1]
      /\ r.added = [c \in Channels |-> FALSE]
  BY DEF EmptyRegistry
<1>2. (CHOOSE f \in Fds : TRUE) \in Fds
  BY PollerAssumption
<1>3. r \in Registry
  BY <1>2 DEF EmptyRegistry, Registry, Events
<1> HIDE DEF r
<1>4. Consistent(r)
  BY <1>1, <1>3, EmptySeq DEF Consistent
<1> QED
  BY <1>1, <1>4 DEF r

\* enable_reading() of a channel that has never been added makes an entry for it.
LEMMA EnableNew ==
  ASSUME NEW r, Consistent(r), NEW c \in Channels,
         ~r.added[c], r.index[c] = -1,
         \A d \in Channels \ {c} : r.added[d] => r.fd[d] # r.fd[c],
         NEW q, q = enable_reading(r, c)
  PROVE  Enabled(r, q, c)
<1> DEFINE r1 == [r EXCEPT !.events[c] = "read"]
           r2 == update_channel(r1, c)
           e == PollFd(r.fd[c], "read")
           n == Len(r.pollfds)
           P == Append(r.pollfds, e)
<1>1. r \in Registry /\ "read" \in Events
  BY DEF Consistent, Events
<1>2. /\ r1 \in Registry
      /\ r1.pollfds = r.pollfds /\ r1.channels = r.channels
      /\ r1.alive = r.alive /\ r1.fd = r.fd /\ r1.index = r.index
      /\ r1.added = r.added /\ r1.failed = r.failed
      /\ r1.events = [r.events EXCEPT ![c] = "read"]
  BY <1>1 DEF Registry
<1>3. r.channels[r.fd[c]] = NoChannel
  <2> SUFFICES ASSUME r.channels[r.fd[c]] # NoChannel PROVE FALSE
    OBVIOUS
  <2> DEFINE d == r.channels[r.fd[c]]
  <2>1. r.fd[c] \in Fds
    BY ConsistentFields
  <2>2. d \in Channels
    BY <1>1, <2>1, RegistryFields
  <2>3. r.added[d] /\ r.fd[d] = r.fd[c]
    BY <2>1 DEF Consistent
  <2> QED
    BY <2>2, <2>3
<1>4. /\ r.pollfds \in Seq(PollFds)
      /\ n \in Nat
      /\ P \in Seq(PollFds)
      /\ Len(P) = n + 1
      /\ \A i \in 1..n : P[i] = r.pollfds[i]
      /\ P[n + 1] = e
  <2>1. e \in PollFds
    BY <1>1, ConsistentFields DEF PollFd, PollFds
  <2>2. r.pollfds \in Seq(PollFds) /\ n \in Nat
    BY <1>1, RegistryFields
  <2> HIDE DEF e
  <2> QED
    BY <2>1, <2>2, AppendProperties
<1>5. r2 = [r1 EXCEPT !.pollfds = P, !.index[c] = n, !.channels[r.fd[c]] = c]
  <2>1. r1.events[c] = "read"
    BY <1>1, <1>2, RegistryFields
  <2>2. r2 = AddChannel(r1, c)
    BY <1>2 DEF update_channel
  <2> HIDE DEF r1, r2
  <2> QED
    BY <1>2, <1>3, <2>1, <2>2 DEF AddChannel, Asserting
<1>6. q = [r2 EXCEPT !.added[c] = TRUE]
  BY DEF enable_reading, Update
<1> HIDE DEF r1, r2, P, e, n
<1>7. /\ r2 \in Registry
      /\ r2.pollfds = P
      /\ r2.alive = r.alive /\ r2.fd = r.fd /\ r2.added = r.added
      /\ r2.events = r1.events /\ r2.failed = r.failed
      /\ r2.index = [r.index EXCEPT ![c] = n]
      /\ r2.channels = [r.channels EXCEPT ![r.fd[c]] = c]
  <2>1. r.fd[c] \in Fds
    BY ConsistentFields
  <2> QED
    BY <1>2, <1>4, <1>5, <2>1 DEF Registry, PollFds
<1>8. /\ q \in Registry
      /\ q.pollfds = P
      /\ q.alive = r.alive /\ q.fd = r.fd
      /\ q.added = [r.added EXCEPT ![c] = TRUE]
      /\ q.events = [r.events EXCEPT ![c] = "read"]
      /\ q.failed = FALSE
      /\ q.index = [r.index EXCEPT ![c] = n]
      /\ q.channels = [r.channels EXCEPT ![r.fd[c]] = c]
  <2>1. r.failed = FALSE
    BY DEF Consistent
  <2>2. q \in Registry
    <3>1. [r2 EXCEPT !.added[c] = TRUE] \in Registry
      BY <1>7, SetAdded
    <3> QED
      BY <1>6, <3>1
  <2>3. q.added = [r.added EXCEPT ![c] = TRUE]
    BY <1>6, <1>7 DEF Registry
  <2>4. q.pollfds = P /\ q.alive = r.alive /\ q.fd = r.fd /\ q.failed = FALSE
    BY <1>6, <1>7, <2>1 DEF Registry
  <2>5. /\ q.events = [r.events EXCEPT ![c] = "read"]
        /\ q.index = [r.index EXCEPT ![c] = n]
        /\ q.channels = [r.channels EXCEPT ![r.fd[c]] = c]
    BY <1>2, <1>6, <1>7 DEF Registry
  <2> QED
    BY <2>2, <2>3, <2>4, <2>5
<1>9. ASSUME NEW d \in Channels \ {c}
      PROVE  /\ q.added[d] = r.added[d] /\ q.events[d] = r.events[d]
             /\ q.index[d] = r.index[d] /\ q.fd[d] = r.fd[d]
             /\ Interest(q, d) = Interest(r, d)
             /\ r.added[d] => /\ q.pollfds[q.index[d] + 1] = Interest(r, d)
                              /\ Entry(q, d) = Entry(r, d)
                              /\ q.channels[r.fd[d]] = d
  <2>1. /\ q.added[d] = r.added[d] /\ q.events[d] = r.events[d]
        /\ q.index[d] = r.index[d] /\ q.fd[d] = r.fd[d]
    BY <1>1, <1>8, RegistryFields
  <2>2. ASSUME r.added[d]
        PROVE  /\ q.pollfds[q.index[d] + 1] = Interest(r, d)
               /\ Entry(q, d) = Entry(r, d)
               /\ q.channels[r.fd[d]] = d
    <3>1. /\ r.index[d] + 1 \in 1..n
          /\ r.pollfds[r.index[d] + 1] = Interest(r, d)
          /\ r.channels[r.fd[d]] = d
          /\ r.fd[d] # r.fd[c]
      BY <1>4, <2>2, ConsistentFields DEF n
    <3>2. q.channels[r.fd[d]] = d
      BY <1>1, <1>8, <3>1, RegistryFields, ConsistentFields
    <3> QED
      BY <1>4, <1>8, <2>1, <3>1, <3>2 DEF Entry
  <2> QED
    BY <2>1, <2>2 DEF Interest
<1>10. /\ q.added[c] = TRUE /\ q.events[c] = "read"
       /\ q.index[c] = n /\ q.fd[c] = r.fd[c]
       /\ q.channels[r.fd[c]] = c
       /\ q.pollfds[q.index[c] + 1] = Interest(q, c)
  <2>1. /\ q.added[c] = TRUE /\ q.events[c] = "read"
        /\ q.index[c] = n /\ q.fd[c] = r.fd[c]
        /\ q.channels[r.fd[c]] = c
    BY <1>1, <1>8, RegistryFields, ConsistentFields
  <2> QED
    BY <1>4, <1>8, <2>1 DEF Interest, e
<1>11. Consistent(q)
  <2>1. \A d \in Channels :
          q.added[d] => Knows(q, d) /\ HasEntry(q, d) /\ Entry(q, d) = Interest(q, d)
    <3> SUFFICES ASSUME NEW d \in Channels, q.added[d]
                 PROVE  Knows(q, d) /\ HasEntry(q, d) /\ Entry(q, d) = Interest(q, d)
      OBVIOUS
    <3>1. Len(q.pollfds) = n + 1
      BY <1>4, <1>8
    <3>2. CASE d = c
      BY <1>4, <1>10, <3>1, <3>2 DEF Knows, HasEntry, Entry
    <3>3. CASE d # c
      BY <1>4, <1>9, <3>1, <3>3, ConsistentFields DEF Knows, HasEntry, Entry, n
    <3> QED
      BY <3>2, <3>3
  <2>2. \A d \in Channels : q.added[d] \/ q.events[d] = "none"
    <3> SUFFICES ASSUME NEW d \in Channels PROVE q.added[d] \/ q.events[d] = "none"
      OBVIOUS
    <3>1. r.added[d] \/ r.events[d] = "none"
      BY DEF Consistent
    <3>2. CASE d = c
      BY <1>10, <3>2
    <3>3. CASE d # c
      BY <1>9, <3>1, <3>3
    <3> QED
      BY <3>2, <3>3
  <2>3. ASSUME NEW i \in 1..Len(q.pollfds)
        PROVE  \E d \in Channels : q.added[d] /\ q.index[d] = i - 1
    <3>1. CASE i = n + 1
      BY <1>4, <1>10, <3>1
    <3>2. CASE i # n + 1
      <4>1. i \in 1..n
        BY <1>4, <1>8, <3>2
      <4>2. PICK d \in Channels : r.added[d] /\ r.index[d] = i - 1
        BY <4>1 DEF Consistent, n
      <4> QED
        BY <1>9, <4>2
    <3> QED
      BY <3>1, <3>2
  <2>4. ASSUME NEW f \in Fds, q.channels[f] # NoChannel
        PROVE  q.added[q.channels[f]] /\ q.fd[q.channels[f]] = f
    <3>1. CASE f = r.fd[c]
      BY <1>10, <3>1
    <3>2. CASE f # r.fd[c]
      <4>1. q.channels[f] = r.channels[f] /\ r.channels[f] \in Channels
        BY <1>1, <1>8, <2>4, <3>2, RegistryFields
      <4>2. r.added[r.channels[f]] /\ r.fd[r.channels[f]] = f
        BY <2>4, <4>1 DEF Consistent
      <4> QED
        BY <1>9, <3>2, <4>1, <4>2
    <3> QED
      BY <3>1, <3>2
  <2> QED
    BY <1>8, <2>1, <2>2, <2>3, <2>4 DEF Consistent
<1> QED
  BY <1>8, <1>9, <1>11 DEF Enabled

\* A call for a channel in the loop, to enable reading or to disable all, rewrites
\* the entry of that channel alone.
LEMMA UpdateAdded ==
  ASSUME NEW r, Consistent(r), NEW c \in Channels, r.added[c], NEW ev \in Events,
         NEW q, q = Update([r EXCEPT !.events[c] = ev], c)
  PROVE  Updated(r, q, c, ev)
<1> DEFINE r1 == [r EXCEPT !.events[c] = ev]
           r2 == update_channel(r1, c)
           e == Interest(r1, c)
           n == Len(r.pollfds)
           k == r.index[c] + 1
           P == [r.pollfds EXCEPT ![k] = e]
<1>1. r \in Registry
  BY DEF Consistent
<1>2. /\ r1 \in Registry
      /\ r1.pollfds = r.pollfds /\ r1.channels = r.channels
      /\ r1.alive = r.alive /\ r1.fd = r.fd /\ r1.index = r.index
      /\ r1.added = r.added /\ r1.failed = r.failed
      /\ r1.events = [r.events EXCEPT ![c] = ev]
  BY <1>1 DEF Registry
<1>3. /\ r.fd[c] \in Fds
      /\ n \in Nat
      /\ r.index[c] \in Nat
      /\ k \in 1..n
      /\ r.channels[r.fd[c]] = c
      /\ r.pollfds[k] = Interest(r, c)
      /\ r.pollfds \in Seq(PollFds)
  BY <1>1, ConsistentFields, RegistryFields
<1>4. /\ P \in Seq(PollFds)
      /\ Len(P) = n
      /\ \A i \in 1..n : P[i] = IF i = k THEN e ELSE r.pollfds[i]
  <2>1. e \in PollFds
    <3>1. r1.events[c] \in Events /\ r1.fd[c] \in Fds
      BY <1>1, <1>2, RegistryFields
    <3> HIDE DEF r1
    <3> QED
      BY <3>1 DEF Interest, PollFd, PollFds, Complement
  <2> HIDE DEF e, k, n
  <2> QED
    BY <1>3, <2>1, ExceptSeq DEF n
<1>5. r2 = [r1 EXCEPT !.pollfds = P]
  <2>1. r2 = ModifyChannel(r1, c)
    BY <1>2, <1>3 DEF update_channel
  <2>2. Entry(r1, c).fd \in {r1.fd[c], Complement(r1.fd[c])}
    <3>1. Entry(r1, c) = Interest(r, c)
      BY <1>2, <1>3 DEF Entry
    <3>2. Interest(r, c).fd \in {r.fd[c], Complement(r.fd[c])}
      BY DEF Interest, PollFd
    <3> QED
      BY <1>2, <3>1, <3>2
  <2>3. Knows(r1, c) /\ HasEntry(r1, c)
    BY <1>2, <1>3 DEF Knows, HasEntry
  <2>4. ModifyChannel(r1, c) = [r1 EXCEPT !.pollfds[r1.index[c] + 1] = e]
    BY <2>2, <2>3 DEF ModifyChannel, Asserting
  <2> HIDE DEF r1, r2, e
  <2> QED
    BY <1>2, <2>1, <2>4 DEF Registry
<1>6. q = [r2 EXCEPT !.added[c] = TRUE]
  BY DEF Update
<1> HIDE DEF r1, r2, P, e, n, k
<1>7. /\ r2 \in Registry
      /\ r2.pollfds = P
      /\ r2.alive = r.alive /\ r2.fd = r.fd /\ r2.added = r.added
      /\ r2.events = r1.events /\ r2.failed = r.failed
      /\ r2.index = r.index
      /\ r2.channels = r.channels
  BY <1>2, <1>4, <1>5 DEF Registry, PollFds
<1>8. /\ q \in Registry
      /\ q.pollfds = P
      /\ q.alive = r.alive /\ q.fd = r.fd
      /\ q.added = r.added
      /\ q.events = [r.events EXCEPT ![c] = ev]
      /\ q.failed = FALSE
      /\ q.index = r.index
      /\ q.channels = r.channels
  <2>1. r.failed = FALSE
    BY DEF Consistent
  <2>2. q \in Registry
    <3>1. [r2 EXCEPT !.added[c] = TRUE] \in Registry
      BY <1>7, SetAdded
    <3> QED
      BY <1>6, <3>1
  <2>3. q.added = r.added
    <3>1. q.added = [r.added EXCEPT ![c] = TRUE]
      BY <1>6, <1>7 DEF Registry
    <3>2. r.added \in [Channels -> BOOLEAN] /\ r.added[c] = TRUE
      BY <1>1, RegistryFields
    <3> QED
      BY <3>1, <3>2
  <2>4. q.pollfds = P /\ q.alive = r.alive /\ q.fd = r.fd /\ q.failed = FALSE
    BY <1>6, <1>7, <2>1 DEF Registry
  <2>5. q.events = [r.events EXCEPT ![c] = ev] /\ q.index = r.index /\ q.channels = r.channels
    BY <1>2, <1>6, <1>7 DEF Registry
  <2> QED
    BY <2>2, <2>3, <2>4, <2>5
<1>9. ASSUME NEW d \in Channels \ {c}
      PROVE  /\ q.events[d] = r.events[d]
             /\ r.added[d] => Entry(q, d) = Interest(q, d) /\ Entry(q, d) = Entry(r, d)
  <2>1. q.events[d] = r.events[d]
    BY <1>1, <1>8, RegistryFields
  <2>2. ASSUME r.added[d]
        PROVE  Entry(q, d) = Interest(q, d) /\ Entry(q, d) = Entry(r, d)
    <3>1. /\ r.index[d] # r.index[c]
          /\ r.index[d] + 1 \in 1..n
          /\ r.index[c] \in Nat
          /\ r.index[d] \in Nat
      BY <1>3, <2>2, OneEntryEach, ConsistentFields DEF n
    <3>2. r.index[d] + 1 # k
      BY <3>1 DEF k
    <3>3. Entry(q, d) = Entry(r, d) /\ Entry(r, d) = Interest(r, d)
      BY <1>4, <1>8, <2>2, <3>1, <3>2 DEF Entry, Consistent
    <3> QED
      BY <1>8, <2>1, <3>3 DEF Interest
  <2> QED
    BY <2>1, <2>2
<1>10. q.events[c] = ev /\ Entry(q, c) = Interest(q, c)
  <2>1. q.events[c] = ev /\ r1.events[c] = ev
    BY <1>1, <1>2, <1>8, RegistryFields
  <2>2. Entry(q, c) = e
    BY <1>3, <1>4, <1>8 DEF Entry, k
  <2> QED
    BY <1>2, <1>8, <2>1, <2>2 DEF e, Interest
<1>11. Consistent(q)
  <2>1. ASSUME NEW d \in Channels, q.added[d]
        PROVE  Knows(q, d) /\ HasEntry(q, d) /\ Entry(q, d) = Interest(q, d)
    <3>1. Len(q.pollfds) = Len(r.pollfds) /\ r.added[d]
      BY <1>4, <1>8, <2>1 DEF n
    <3>2. Knows(q, d) /\ HasEntry(q, d)
      BY <1>8, <3>1 DEF Knows, HasEntry, Consistent
    <3> QED
      BY <1>9, <1>10, <3>1, <3>2
  <2>2. ASSUME NEW d \in Channels PROVE q.added[d] \/ q.events[d] = "none"
    <3>1. r.added[d] \/ r.events[d] = "none"
      BY DEF Consistent
    <3> QED
      BY <1>8, <1>9, <3>1
  <2>3. ASSUME NEW i \in 1..Len(q.pollfds)
        PROVE  \E d \in Channels : q.added[d] /\ q.index[d] = i - 1
    <3>1. Len(q.pollfds) = Len(r.pollfds)
      BY <1>4, <1>8 DEF n
    <3> QED
      BY <1>8, <3>1 DEF Consistent
  <2>4. ASSUME NEW f \in Fds, q.channels[f] # NoChannel
        PROVE  q.added[q.channels[f]] /\ q.fd[q.channels[f]] = f
    BY <1>8, <2>4 DEF Consistent
  <2> QED
    BY <1>8, <2>1, <2>2, <2>3, <2>4 DEF Consistent
<1>12. ASSUME NEW d \in Channels, r.added[d], q.events[d] = r.events[d]
       PROVE  Entry(q, d) = Entry(r, d)
  <2>1. CASE d # c
    BY <1>9, <1>12, <2>1
  <2>2. CASE d = c
    <3>1. Entry(r, c) = Interest(r, c)
      BY DEF Consistent
    <3>2. Interest(q, c) = Interest(r, c)
      BY <1>8, <1>12, <2>2 DEF Interest
    <3> QED
      BY <1>10, <2>2, <3>1, <3>2
  <2> QED
    BY <2>1, <2>2
<1> QED
  BY <1>8, <1>11, <1>12 DEF Updated

\* remove() takes a disabled channel out of both tables; the channel whose entry
\* was last is told where its entry is now, and no other entry changes.
LEMMA RemoveAdded ==
  ASSUME NEW r, Consistent(r), NEW c \in Channels, r.added[c],
         r.events[c] = "none",
         NEW q, q = remove(r, c)
  PROVE  Removed(r, q, c)
<1> DEFINE r1 == [r EXCEPT !.added[c] = FALSE]
           r2 == [r1 EXCEPT !.channels[r.fd[c]] = NoChannel]
           n == Len(r.pollfds)
           i == r.index[c]
           S == [j \in 1..(n - 1) |-> IF j = i + 1 THEN r.pollfds[n] ELSE r.pollfds[j]]
<1>1. r \in Registry
  BY DEF Consistent
<1>2. /\ r1 \in Registry
      /\ r1.pollfds = r.pollfds /\ r1.channels = r.channels
      /\ r1.alive = r.alive /\ r1.fd = r.fd /\ r1.index = r.index
      /\ r1.events = r.events /\ r1.failed = r.failed
      /\ r1.added = [r.added EXCEPT ![c] = FALSE]
  <2>1. r1 \in Registry
    BY <1>1, SetAdded
  <2> QED
    BY <1>1, <2>1 DEF Registry
<1>3. /\ r.fd[c] \in Fds
      /\ n \in Nat
      /\ i \in Nat /\ i + 1 \in 1..n
      /\ r.channels[r.fd[c]] = c
      /\ r.pollfds[i + 1] = Interest(r, c)
      /\ r.pollfds \in Seq(PollFds)
      /\ r.failed = FALSE
  <2>1. r.failed = FALSE
    BY DEF Consistent
  <2> QED
    BY <1>1, <2>1, ConsistentFields, RegistryFields
<1> HIDE DEF r1
<1>4. /\ r2 \in Registry
      /\ r2.pollfds = r.pollfds /\ r2.alive = r.alive /\ r2.fd = r.fd
      /\ r2.index = r.index /\ r2.events = r.events /\ r2.failed = r.failed
      /\ r2.added = [r.added EXCEPT ![c] = FALSE]
      /\ r2.channels = [r.channels EXCEPT ![r.fd[c]] = NoChannel]
  BY <1>2, <1>3 DEF Registry
<1> HIDE DEF r2
<1>5. /\ S \in Seq(PollFds)
      /\ Len(S) = n - 1
      /\ \A j \in 1..(n - 1) : S[j] = IF j = i + 1 THEN r.pollfds[n] ELSE r.pollfds[j]
  <2>1. n - 1 \in Nat
    BY <1>3
  <2>2. \A j \in 1..n : r.pollfds[j] \in PollFds
    BY <1>3, ElementOfSeq
  <2>3. S \in [1..(n - 1) -> PollFds]
    BY <1>3, <2>1, <2>2
  <2> QED
    BY <2>1, <2>3
<1>6. q = DropEntry(r2, i)
  <2>1. q = remove_channel(r1, c)
    BY DEF remove, Asserting, r1
  <2>2. /\ Knows(r1, c) /\ HasEntry(r1, c) /\ r1.events[c] = "none"
        /\ Entry(r1, c) = Interest(r1, c)
    BY <1>2, <1>3 DEF Knows, HasEntry, Entry, Interest
  <2> QED
    BY <1>2, <2>1, <2>2 DEF remove_channel, Asserting, r2
<1> HIDE DEF S, n, i
<1>7. /\ q \in Registry
      /\ q.pollfds = S
      /\ q.channels = r2.channels
      /\ q.alive = r.alive /\ q.fd = r.fd /\ q.events = r.events
      /\ q.added = r2.added /\ q.failed = FALSE
      /\ \A d \in Channels : ~r.added[d] \/ d = c => q.index[d] = r.index[d]
      /\ \A d \in Channels \ {c} :
           r.added[d] => q.index[d] = IF r.index[d] = n - 1 THEN i ELSE r.index[d]
  <2>1. CASE i = n - 1
    <3>1. q = [r2 EXCEPT !.pollfds = S]
      BY <1>4, <1>6, <2>1 DEF DropEntry, S, n
    <3>2. ASSUME NEW d \in Channels \ {c}, r.added[d] PROVE r.index[d] # n - 1
      BY <2>1, <3>2, OneEntryEach DEF i
    <3> QED
      BY <1>3, <1>4, <1>5, <3>1, <3>2 DEF Registry, PollFds
  <2>2. CASE i # n - 1
    <3>1. n \in 1..n
      BY <1>3
    <3>2. PICK m \in Channels : r.added[m] /\ r.index[m] = n - 1
      BY <3>1 DEF Consistent, n
    <3>3. m # c
      BY <2>2, <3>2 DEF i
    <3>4. LastFd(r2) = r.fd[m]
      <4>1. r.pollfds[n].fd = Interest(r, m).fd /\ r.fd[m] \in Nat
        <5>1. r.pollfds[r.index[m] + 1] = Interest(r, m) /\ r.fd[m] \in Nat
          BY <3>2, ConsistentFields
        <5>2. r.index[m] + 1 = n
          BY <1>3, <3>2
        <5> QED
          BY <5>1, <5>2
      <4>2. Interest(r, m).fd \in {r.fd[m], Complement(r.fd[m])}
        BY DEF Interest, PollFd
      <4> QED
        BY <1>4, <4>1, <4>2 DEF LastFd, Complement, n
    <3>5. r2.channels[r.fd[m]] = m
      <4>1. r.fd[m] # r.fd[c] /\ r.fd[m] \in Fds /\ r.channels[r.fd[m]] = m
        BY <3>2, <3>3, OneEntryEach, ConsistentFields
      <4> QED
        BY <1>1, <1>4, <4>1, RegistryFields
    <3>6. q = [r2 EXCEPT !.pollfds = S, !.index[m] = i]
      <4>1. r2.channels[LastFd(r2)] = m /\ m # NoChannel
        BY <3>4, <3>5, PollerAssumption
      <4>2. S = [j \in 1..(Len(r2.pollfds) - 1) |->
                   IF j = i + 1 THEN r2.pollfds[Len(r2.pollfds)] ELSE r2.pollfds[j]]
        BY <1>4 DEF S, n
      <4>3. i # Len(r2.pollfds) - 1
        BY <1>4, <2>2 DEF n
      <4> QED
        BY <1>6, <4>1, <4>2, <4>3 DEF DropEntry, Asserting
    <3>7. /\ q \in Registry
          /\ q.pollfds = S
          /\ q.channels = r2.channels
          /\ q.alive = r.alive /\ q.fd = r.fd /\ q.events = r.events
          /\ q.added = r2.added /\ q.failed = FALSE
          /\ q.index = [r.index EXCEPT ![m] = i]
      <4>1. q \in Registry
        <5>1. [r2 EXCEPT !.pollfds = S, !.index[m] = i] \in Registry
          BY <1>3, <1>4, <1>5, SetMoved
        <5> QED
          BY <3>6, <5>1
      <4>2. q.index = [r.index EXCEPT ![m] = i]
        BY <1>4, <3>6 DEF Registry
      <4>3. q.pollfds = S /\ q.channels = r2.channels /\ q.alive = r.alive /\ q.fd = r.fd
        BY <1>4, <3>6 DEF Registry
      <4>4. q.events = r.events /\ q.added = r2.added /\ q.failed = FALSE
        BY <1>3, <1>4, <3>6 DEF Registry
      <4> QED
        BY <4>1, <4>2, <4>3, <4>4
    <3>8. ASSUME NEW d \in Channels, d # m
          PROVE  q.index[d] = r.index[d] /\ (r.added[d] => r.index[d] # n - 1)
      BY <1>1, <3>2, <3>7, <3>8, OneEntryEach, RegistryFields
    <3>9. q.index[m] = i
      BY <1>1, <3>7, RegistryFields
    <3> QED
      BY <3>2, <3>3, <3>7, <3>8, <3>9
  <2> QED
    BY <2>1, <2>2
<1>8. ASSUME NEW d \in Channels \ {c}
      PROVE  /\ q.added[d] = r.added[d]
             /\ r.added[d] => /\ Knows(q, d) /\ HasEntry(q, d)
                              /\ Entry(q, d) = Interest(q, d)
                              /\ Entry(q, d) = Entry(r, d)
  <2>1. q.added[d] = r.added[d]
    BY <1>1, <1>4, <1>7, RegistryFields
  <2>2. ASSUME r.added[d]
        PROVE  /\ Knows(q, d) /\ HasEntry(q, d)
               /\ Entry(q, d) = Interest(q, d)
               /\ Entry(q, d) = Entry(r, d)
    <3>1. /\ r.index[d] \in Nat /\ r.index[d] < n
          /\ r.pollfds[r.index[d] + 1] = Interest(r, d)
          /\ r.channels[r.fd[d]] = d /\ r.fd[d] \in Fds
      BY <2>2, ConsistentFields DEF n
    <3>2. r.index[d] # i /\ r.fd[d] # r.fd[c]
      BY <2>2, OneEntryEach DEF i
    <3>3. Knows(q, d)
      BY <1>1, <1>4, <1>7, <3>1, <3>2, RegistryFields DEF Knows
    <3>4. /\ q.index[d] \in 0..(n - 2)
          /\ S[q.index[d] + 1] = r.pollfds[r.index[d] + 1]
      <4>1. CASE r.index[d] = n - 1
        <5>1. q.index[d] = i /\ i + 1 \in 1..(n - 1)
          BY <1>3, <1>7, <2>2, <3>1, <3>2, <4>1
        <5> QED
          BY <1>3, <1>5, <4>1, <5>1
      <4>2. CASE r.index[d] # n - 1
        <5>1. q.index[d] = r.index[d] /\ r.index[d] + 1 \in 1..(n - 1)
          BY <1>3, <1>7, <2>2, <3>1, <4>2
        <5> QED
          BY <1>3, <1>5, <3>1, <3>2, <5>1
      <4> QED
        BY <4>1, <4>2
    <3>5. HasEntry(q, d) /\ Entry(q, d) = Entry(r, d)
      BY <1>3, <1>5, <1>7, <3>4 DEF HasEntry, Entry
    <3>6. Entry(r, d) = Interest(q, d)
      BY <1>7, <3>1 DEF Entry, Interest
    <3> QED
      BY <3>3, <3>5, <3>6
  <2> QED
    BY <2>1, <2>2
<1>9. q.added[c] = FALSE
  BY <1>1, <1>4, <1>7, RegistryFields
<1>10. Consistent(q)
  <2>1. ASSUME NEW d \in Channels, q.added[d]
        PROVE  Knows(q, d) /\ HasEntry(q, d) /\ Entry(q, d) = Interest(q, d)
    BY <1>8, <1>9, <2>1
  <2>2. ASSUME NEW d \in Channels PROVE q.added[d] \/ q.events[d] = "none"
    <3>1. r.added[d] \/ r.events[d] = "none"
      BY DEF Consistent
    <3> QED
      BY <1>7, <1>8, <3>1
  <2>3. ASSUME NEW j \in 1..Len(q.pollfds)
        PROVE  \E d \in Channels : q.added[d] /\ q.index[d] = j - 1
    <3>1. j \in 1..(n - 1) /\ n \in Nat
      BY <1>3, <1>5, <1>7
    <3>2. CASE j = i + 1
      <4>1. PICK d \in Channels : r.added[d] /\ r.index[d] = n - 1
        <5>1. n \in 1..n
          BY <1>3, <3>1
        <5> QED
          BY <5>1 DEF Consistent, n
      <4>2. d # c
        BY <1>3, <3>1, <3>2, <4>1 DEF i
      <4>3. q.index[d] = i
        BY <1>7, <4>1, <4>2
      <4> QED
        BY <1>3, <1>8, <3>2, <4>1, <4>2, <4>3
    <3>3. CASE j # i + 1
      <4>1. PICK d \in Channels : r.added[d] /\ r.index[d] = j - 1
        <5>1. j \in 1..n
          BY <3>1
        <5> QED
          BY <5>1 DEF Consistent, n
      <4>2. d # c /\ r.index[d] # n - 1
        BY <1>3, <3>1, <3>3, <4>1 DEF i
      <4>3. q.index[d] = j - 1
        BY <1>7, <4>1, <4>2
      <4> QED
        BY <1>8, <4>1, <4>2, <4>3
    <3> QED
      BY <3>2, <3>3
  <2>4. ASSUME NEW f \in Fds, q.channels[f] # NoChannel
        PROVE  q.added[q.channels[f]] /\ q.fd[q.channels[f]] = f
    <3>1. f # r.fd[c] /\ q.channels[f] = r.channels[f] /\ r.channels[f] \in Channels
      BY <1>1, <1>4, <1>7, <2>4, RegistryFields
    <3>2. r.added[r.channels[f]] /\ r.fd[r.channels[f]] = f
      BY <2>4, <3>1 DEF Consistent
    <3> QED
      BY <1>7, <1>8, <3>1, <3>2
  <2> QED
    BY <1>7, <2>1, <2>2, <2>3, <2>4 DEF Consistent
<1> QED
  BY <1>4, <1>7, <1>8, <1>10 DEF Removed

\* A constructor and a destructor touch no entry.
LEMMA ConstructNew ==
  ASSUME NEW r, Consistent(r), NEW c \in Channels, ~r.added[c], NEW fd \in Fds,
         NEW q, q = construct(r, c, fd)
  PROVE  Constructed(r, q, c, fd)
<1> DEFINE r1 == [r EXCEPT !.alive = r.alive \cup {c}, !.fd[c] = fd,
                           !.events[c] = "none", !.index[c] = -1]
<1>1. r \in Registry /\ r.failed = FALSE
  BY DEF Consistent
<1>2. /\ r1 \in Registry
      /\ r1.pollfds = r.pollfds /\ r1.channels = r.channels
      /\ r1.alive = r.alive \cup {c} /\ r1.fd = [r.fd EXCEPT ![c] = fd]
      /\ r1.index = [r.index EXCEPT ![c] = -1]
      /\ r1.events = [r.events EXCEPT ![c] = "none"]
      /\ r1.failed = r.failed /\ r1.added = r.added
  <2>1. r1 \in Registry
    BY <1>1 DEF Registry, Events
  <2> QED
    BY <1>1, <2>1 DEF Registry
<1>3. q = [r1 EXCEPT !.added[c] = FALSE]
  BY <1>1 DEF construct, Registry
<1> HIDE DEF r1
<1>4. /\ q \in Registry
      /\ q.pollfds = r.pollfds /\ q.channels = r.channels
      /\ q.alive = r.alive \cup {c} /\ q.fd = [r.fd EXCEPT ![c] = fd]
      /\ q.index = [r.index EXCEPT ![c] = -1]
      /\ q.events = [r.events EXCEPT ![c] = "none"]
      /\ q.failed = FALSE /\ q.added = r.added
  <2>1. q \in Registry
    <3>1. [r1 EXCEPT !.added[c] = FALSE] \in Registry
      BY <1>2, SetAdded
    <3> QED
      BY <1>3, <3>1
  <2>2. q.added = r.added
    <3>1. q.added = [r.added EXCEPT ![c] = FALSE]
      BY <1>2, <1>3 DEF Registry
    <3>2. r.added \in [Channels -> BOOLEAN] /\ r.added[c] = FALSE
      BY <1>1, RegistryFields
    <3> QED
      BY <3>1, <3>2
  <2>3. /\ q.pollfds = r.pollfds /\ q.channels = r.channels
        /\ q.alive = r.alive \cup {c} /\ q.fd = [r.fd EXCEPT ![c] = fd]
        /\ q.failed = FALSE
    BY <1>1, <1>2, <1>3 DEF Registry
  <2>4. /\ q.index = [r.index EXCEPT ![c] = -1]
        /\ q.events = [r.events EXCEPT ![c] = "none"]
    BY <1>2, <1>3 DEF Registry
  <2> QED
    BY <2>1, <2>2, <2>3, <2>4
<1>5. ASSUME NEW d \in Channels, r.added[d]
      PROVE  /\ q.fd[d] = r.fd[d] /\ q.index[d] = r.index[d]
             /\ q.events[d] = r.events[d] /\ d # c
  BY <1>1, <1>4, <1>5, RegistryFields
<1>6. q.events[c] = "none"
  BY <1>1, <1>4, RegistryFields
<1>7. Consistent(q)
  <2>1. ASSUME NEW d \in Channels, q.added[d]
        PROVE  Knows(q, d) /\ HasEntry(q, d) /\ Entry(q, d) = Interest(q, d)
    <3>1. /\ r.added[d] /\ Knows(r, d) /\ HasEntry(r, d)
          /\ Entry(r, d) = Interest(r, d)
      BY <1>4, <2>1 DEF Consistent
    <3> QED
      BY <1>4, <1>5, <3>1 DEF Knows, HasEntry, Entry, Interest
  <2>2. ASSUME NEW d \in Channels PROVE q.added[d] \/ q.events[d] = "none"
    <3>1. r.added[d] \/ r.events[d] = "none"
      BY DEF Consistent
    <3>2. q.events[d] = r.events[d] \/ d = c
      BY <1>1, <1>4, RegistryFields
    <3> QED
      BY <1>4, <1>6, <3>1, <3>2
  <2>3. ASSUME NEW j \in 1..Len(q.pollfds)
        PROVE  \E d \in Channels : q.added[d] /\ q.index[d] = j - 1
    <3>1. PICK d \in Channels : r.added[d] /\ r.index[d] = j - 1
      BY <1>4 DEF Consistent
    <3> QED
      BY <1>4, <1>5, <3>1
  <2>4. ASSUME NEW f \in Fds, q.channels[f] # NoChannel
        PROVE  q.added[q.channels[f]] /\ q.fd[q.channels[f]] = f
    <3>1. r.channels[f] \in Channels
      BY <1>1, <1>4, <2>4, RegistryFields
    <3>2. r.added[r.channels[f]] /\ r.fd[r.channels[f]] = f
      BY <1>4, <2>4 DEF Consistent
    <3> QED
      BY <1>4, <1>5, <3>1, <3>2
  <2> QED
    BY <1>4, <2>1, <2>2, <2>3, <2>4 DEF Consistent
<1> QED
  BY <1>4, <1>5, <1>7 DEF Entry, Constructed

\* The same of a destructor.
LEMMA DestructRemoved ==
  ASSUME NEW r, Consistent(r), NEW c \in Channels, ~r.added[c],
         r.events[c] = "none",
         NEW q, q = destruct(r, c)
  PROVE  Destructed(r, q, c)
<1>1. r \in Registry
  BY DEF Consistent
<1>2. q = [r EXCEPT !.alive = r.alive \ {c}]
  BY DEF destruct, Asserting
<1>3. /\ q \in Registry
      /\ q.pollfds = r.pollfds /\ q.channels = r.channels
      /\ q.alive = r.alive \ {c} /\ q.fd = r.fd /\ q.index = r.index
      /\ q.events = r.events /\ q.failed = r.failed /\ q.added = r.added
  BY <1>1, <1>2 DEF Registry
<1>4. Consistent(q)
  BY <1>3 DEF Consistent, Knows, HasEntry, Entry, Interest
<1> QED
  BY <1>3, <1>4 DEF Entry, Destructed

-----------------------------------------------------------------------------
(* What poll() reports.                                                    *)

\* The assertions of fill_active_channels() hold, whatever poll() reports.
LEMMA FillAsserts ==
  ASSUME NEW r, Consistent(r), NEW ready
  PROVE  ReportsHaveChannels(r, ready)
<1> SUFFICES ASSUME NEW n \in ReportedEntries(r, ready)
             PROVE  /\ r.channels[r.pollfds[n].fd] # NoChannel
                    /\ r.fd[r.channels[r.pollfds[n].fd]] = r.pollfds[n].fd
  BY DEF ReportsHaveChannels
<1>1. n \in 1..Len(r.pollfds) /\ r.pollfds[n].events = "read"
  BY DEF ReportedEntries
<1>2. PICK c \in Channels : r.added[c] /\ r.index[c] = n - 1
  BY <1>1 DEF Consistent
<1>3. r.pollfds[n] = Interest(r, c) /\ r.channels[r.fd[c]] = c
  <2>1. r.index[c] + 1 = n
    BY <1>1, <1>2
  <2> QED
    BY <1>2, <2>1, ConsistentFields
<1>4. r.pollfds[n].fd = r.fd[c]
  BY <1>1, <1>3 DEF Interest, PollFd
<1>5. c # NoChannel
  BY PollerAssumption
<1> QED
  BY <1>3, <1>4, <1>5

\* What is in front of entry n when fill_active_channels() has come to it.
Reported(r, ready, n) ==
  {c \in Channels : /\ r.added[c] /\ r.events[c] = "read" /\ r.fd[c] \in ready
                    /\ r.index[c] < n}

\* poll() reports the channels that read and are ready, each once: every entry leads to
\* the channel that owns it.
LEMMA FillActive ==
  ASSUME NEW r, Consistent(r), NEW ready,
         NEW a, a = fill_active_channels(r, ready)
  PROVE  /\ a \in Seq(Channels)
         /\ Enumerates(a, {c \in Channels :
                             r.added[c] /\ r.events[c] = "read" /\ r.fd[c] \in ready})
<1> DEFINE Hot(n) == n \in ReportedEntries(r, ready)
           N == Len(r.pollfds)
           chan(n) == r.channels[r.pollfds[n].fd]
           Fills(f) == f = [n \in 0..N |-> IF n = 0 THEN << >>
                                           ELSE IF Hot(n) THEN Append(f[n - 1], chan(n))
                                           ELSE f[n - 1]]
           filled == CHOOSE f : Fills(f)
<1>1. N \in Nat /\ r \in Registry
  BY RegistryFields DEF Consistent
<1>2. ASSUME NEW n \in 1..N, Hot(n)
      PROVE  /\ chan(n) \in Channels
             /\ r.added[chan(n)] /\ r.events[chan(n)] = "read" /\ r.fd[chan(n)] \in ready
             /\ r.index[chan(n)] = n - 1
  <2>1. PICK c \in Channels : r.added[c] /\ r.index[c] = n - 1
    BY DEF Consistent
  <2>2. r.pollfds[n] = Interest(r, c) /\ r.channels[r.fd[c]] = c
    <3>1. r.index[c] + 1 = n
      BY <2>1
    <3> QED
      BY <2>1, <3>1, ConsistentFields
  <2>3. r.events[c] = "read" /\ r.pollfds[n].fd = r.fd[c]
    BY <1>2, <2>2 DEF Interest, PollFd, ReportedEntries
  <2> QED
    BY <1>2, <2>1, <2>2, <2>3 DEF ReportedEntries
<1>3. ASSUME NEW c \in Channels, r.added[c], r.events[c] = "read", r.fd[c] \in ready
      PROVE  /\ r.index[c] + 1 \in 1..N /\ r.index[c] \in Nat
             /\ Hot(r.index[c] + 1)
  <2>1. r.pollfds[r.index[c] + 1] = Interest(r, c) /\ r.index[c] \in Nat /\ r.index[c] < N
    BY <1>3, ConsistentFields
  <2> QED
    BY <1>1, <1>3, <2>1 DEF Interest, PollFd, ReportedEntries
<1> HIDE DEF Hot, chan, N
<1>4. Fills(filled)
  <2> DEFINE step == [n \in Nat |-> [s \in Seq(Channels) |->
                        IF n \in 1..N /\ Hot(n) THEN Append(s, chan(n)) ELSE s]]
  <2>1. step \in [Nat -> [Seq(Channels) -> Seq(Channels)]]
    BY <1>2
  <2>2. << >> \in Seq(Channels)
    OBVIOUS
  <2>3. PICK f \in [0..N -> Seq(Channels)] :
          f[0] = << >> /\ \A n \in 1..N : f[n] = step[n][f[n - 1]]
    <3> DEFINE X == Seq(Channels)
               base == << >>
    <3>1. base \in X /\ step \in [Nat -> [X -> X]] /\ N \in Nat
      BY <1>1, <2>1, <2>2
    <3> HIDE DEF step, X, base
    <3>2. Iterable(X, base, step, N)
      BY <3>1, IterationExists
    <3> QED
      BY <3>2 DEF X, base, Iterable
  <2>4. \A n \in 0..N : n # 0 => f[n - 1] \in Seq(Channels) /\ n \in 1..N /\ n \in Nat
    BY <1>1
  <2>5. Fills(f)
    BY <2>3, <2>4
  <2> QED
    BY <2>5
<1>5. a = filled[N]
  BY DEF fill_active_channels, Hot, chan, N
<1> HIDE DEF filled
<1> DEFINE Good(n) == filled[n] \in Seq(Channels) /\ Enumerates(filled[n], Reported(r, ready, n))
           S == {n \in Nat : n \in 0..N => Good(n)}
<1>6. 0 \in S
  <2>1. filled[0] = << >>
    BY <1>1, <1>4
  <2>2. Reported(r, ready, 0) = {}
    BY <1>3 DEF Reported
  <2>3. << >> \in Seq(Channels) /\ Enumerates(<< >>, {})
    BY DEF Enumerates
  <2> HIDE DEF Fills
  <2> QED
    BY <2>1, <2>2, <2>3
<1>7. ASSUME NEW n \in Nat, n \in S PROVE n + 1 \in S
  <2> SUFFICES ASSUME n + 1 \in 0..N PROVE Good(n + 1)
    OBVIOUS
  <2>1. n + 1 \in 1..N /\ n \in 0..N /\ Good(n)
    BY <1>1, <1>7
  <2>2. filled[n + 1] = IF Hot(n + 1) THEN Append(filled[n], chan(n + 1)) ELSE filled[n]
    <3>1. n + 1 \in 0..N /\ n + 1 # 0 /\ (n + 1) - 1 = n
      BY <2>1
    <3>2. \A m \in 0..N : m # 0 =>
            filled[m] = IF Hot(m) THEN Append(filled[m - 1], chan(m)) ELSE filled[m - 1]
      BY <1>4, Zenon
    <3>3. filled[n + 1] = IF Hot(n + 1) THEN Append(filled[(n + 1) - 1], chan(n + 1))
                          ELSE filled[(n + 1) - 1]
      BY <3>1, <3>2, Zenon
    <3> QED
      BY <3>1, <3>3, Zenon
  <2>3. CASE Hot(n + 1)
    <3>1. Reported(r, ready, n + 1) = Reported(r, ready, n) \cup {chan(n + 1)}
      <4>1. ASSUME NEW c \in Reported(r, ready, n + 1), c \notin Reported(r, ready, n)
            PROVE  c = chan(n + 1)
        <5>1. r.index[c] = n /\ r.added[c] /\ c \in Channels
          BY <1>3, <4>1 DEF Reported
        <5>2. r.index[chan(n + 1)] = n /\ r.added[chan(n + 1)] /\ chan(n + 1) \in Channels
          BY <1>2, <2>1, <2>3
        <5> QED
          BY <5>1, <5>2, OneEntryEach
      <4>2. chan(n + 1) \in Reported(r, ready, n + 1)
        BY <1>2, <2>1, <2>3 DEF Reported
      <4>3. Reported(r, ready, n) \subseteq Reported(r, ready, n + 1)
        BY <1>3 DEF Reported
      <4> QED
        BY <4>1, <4>2, <4>3
    <3>2. chan(n + 1) \in Channels \ Reported(r, ready, n)
      BY <1>2, <2>1, <2>3 DEF Reported
    <3>3. Reported(r, ready, n) \in SUBSET Channels
      BY DEF Reported
    <3> QED
      BY <2>1, <2>2, <2>3, <3>1, <3>2, <3>3, AppendEnumerates
  <2>4. CASE ~Hot(n + 1)
    <3>1. ASSUME NEW c \in Reported(r, ready, n + 1) PROVE c \in Reported(r, ready, n)
      <4>1. r.index[c] # n /\ r.index[c] \in Nat
        BY <1>3, <2>4 DEF Reported
      <4> QED
        BY <4>1 DEF Reported
    <3>2. Reported(r, ready, n) \subseteq Reported(r, ready, n + 1)
      BY <1>3 DEF Reported
    <3>3. Reported(r, ready, n + 1) = Reported(r, ready, n)
      BY <3>1, <3>2
    <3> QED
      BY <2>1, <2>2, <2>4, <3>3
  <2> QED
    BY <2>3, <2>4
<1>8. Good(N)
  <2> HIDE DEF Good
  <2>1. N \in S
    <3> HIDE DEF S
    <3> QED
      BY <1>1, <1>6, <1>7, NatInduct
  <2> QED
    BY <1>1, <2>1
<1>9. Reported(r, ready, N)
        = {c \in Channels : r.added[c] /\ r.events[c] = "read" /\ r.fd[c] \in ready}
  BY <1>1, <1>3 DEF Reported
<1> QED
  BY <1>5, <1>8, <1>9

-----------------------------------------------------------------------------
(* PollerClient.                                                           *)


\* A channel that was not added since it was constructed has no index.
ClientInv ==
  /\ ClientTypeOK
  /\ Consistent(tables)
  /\ \A c \in Channels : tables.added[c] => c \in tables.alive \ removed
  /\ \A c \in tables.alive \ removed : ~tables.added[c] => tables.index[c] = -1

-----------------------------------------------------------------------------
(* The invariant, and what follows from it.                                *)

\* What a step leaves of the entries of the channels it does not change.
EntriesKept ==
  \A c \in Channels :
    tables.added[c] /\ tables'.added[c] /\ tables'.events[c] = tables.events[c]
      => Entry(tables', c) = Entry(tables, c)

\* No channel is in the loop when the program starts.
LEMMA ClientStarts == ClientInit => ClientInv
<1> SUFFICES ASSUME ClientInit PROVE ClientInv
  OBVIOUS
<1>1. /\ tables = EmptyRegistry /\ removed = {} /\ tables.alive = {}
      /\ \A c \in Channels : tables.added[c] = FALSE
  BY EmptyConsistent DEF ClientInit, EmptyRegistry
<1>2. Consistent(tables) /\ tables \in Registry
  BY <1>1, EmptyConsistent DEF Consistent
<1> QED
  BY <1>1, <1>2 DEF ClientInv, ClientTypeOK

\* Every call keeps the tables consistent and the entries of the other channels.
LEMMA ClientSteps == ClientInv /\ [ClientNext]_clientVars => ClientInv' /\ [EntriesKept]_clientVars
<1> SUFFICES ASSUME ClientInv, [ClientNext]_clientVars PROVE ClientInv' /\ [EntriesKept]_clientVars
  OBVIOUS
<1>1. /\ Consistent(tables) /\ tables \in Registry /\ removed \subseteq tables.alive
      /\ tables.alive \subseteq Channels
  BY RegistryFields DEF ClientInv, ClientTypeOK
<1>2. /\ \A c \in Channels : tables.added[c] => c \in tables.alive \ removed
      /\ \A c \in tables.alive \ removed : ~tables.added[c] => tables.index[c] = -1
      /\ \A c \in Channels : tables.added[c] \/ tables.events[c] = "none"
  BY DEF ClientInv, Consistent
<1>3. tables.added \in [Channels -> BOOLEAN] /\ tables.index \in [Channels -> Nat \cup {-1}]
  BY <1>1, RegistryFields
<1>4. ASSUME /\ Consistent(tables') /\ removed' \subseteq tables'.alive
             /\ \A c \in Channels : tables'.added[c] => c \in tables'.alive \ removed'
             /\ \A c \in tables'.alive \ removed' : ~tables'.added[c] => tables'.index[c] = -1
      PROVE  ClientInv'
  <2>1. tables' \in Registry
    BY <1>4 DEF Consistent
  <2> QED
    BY <1>4, <2>1 DEF ClientInv, ClientTypeOK
<1>5. ASSUME NEW c \in Channels, NEW fd \in Fds, Construct(c, fd)
      PROVE  ClientInv' /\ EntriesKept
  <2>1. ~tables.added[c] /\ c \notin removed
    BY <1>1, <1>2, <1>5 DEF Construct
  <2>2. Constructed(tables, tables', c, fd) /\ removed' = removed
    <3>1. tables' = construct(tables, c, fd) /\ removed' = removed
      BY <1>5 DEF Construct
    <3> QED
      BY <1>1, <2>1, <3>1, ConstructNew
  <2> QED
    BY <1>1, <1>2, <1>3, <1>4, <2>1, <2>2 DEF EntriesKept, Constructed
<1>6. ASSUME NEW c \in Channels, EnableReading(c)
      PROVE  ClientInv' /\ EntriesKept
  <2>1. CASE tables.added[c]
    <3>1. /\ "read" \in Events
          /\ tables' = Update([tables EXCEPT !.events[c] = "read"], c)
          /\ removed' = removed
      BY <1>6 DEF Events, EnableReading, enable_reading
    <3>2. Updated(tables, tables', c, "read")
      BY <1>1, <2>1, <3>1, UpdateAdded
    <3> QED
      BY <1>1, <1>2, <1>4, <3>1, <3>2 DEF EntriesKept, Updated
  <2>2. CASE ~tables.added[c]
    <3>1. /\ tables.index[c] = -1 /\ c \in tables.alive \ removed
          /\ \A d \in Channels \ {c} : tables.added[d] => tables.fd[d] # tables.fd[c]
          /\ tables' = enable_reading(tables, c)
          /\ removed' = removed
      BY <1>2, <1>6, <2>2 DEF EnableReading
    <3>2. Enabled(tables, tables', c)
      BY <1>1, <2>2, <3>1, EnableNew
    <3>3. /\ tables'.added[c] = TRUE
          /\ \A d \in Channels \ {c} : tables'.added[d] = tables.added[d]
      BY <1>3, <3>2 DEF Enabled
    <3>4. ClientInv'
      BY <1>1, <1>2, <1>4, <3>1, <3>2, <3>3 DEF Enabled
    <3>5. EntriesKept
      BY <2>2, <3>2 DEF EntriesKept, Enabled
    <3> QED
      BY <3>4, <3>5
  <2> QED
    BY <2>1, <2>2
<1>7. ASSUME NEW c \in Channels, DisableAll(c)
      PROVE  ClientInv' /\ EntriesKept
  <2>1. /\ tables.added[c] /\ "none" \in Events
        /\ tables' = Update([tables EXCEPT !.events[c] = "none"], c)
        /\ removed' = removed
    BY <1>7 DEF Events, DisableAll, disable_all
  <2>2. Updated(tables, tables', c, "none")
    BY <1>1, <2>1, UpdateAdded
  <2> QED
    BY <1>1, <1>2, <1>4, <2>1, <2>2 DEF EntriesKept, Updated
<1>8. ASSUME NEW c \in Channels, Remove(c)
      PROVE  ClientInv' /\ EntriesKept
  <2>1. /\ tables.added[c] /\ tables.events[c] = "none" /\ c \in tables.alive
        /\ tables' = remove(tables, c)
        /\ removed' = removed \cup {c}
    BY <1>8 DEF Remove
  <2>2. Removed(tables, tables', c)
    BY <1>1, <2>1, RemoveAdded
  <2>3. /\ tables'.added[c] = FALSE
        /\ \A d \in Channels \ {c} : tables'.added[d] = tables.added[d]
    BY <1>3, <2>2 DEF Removed
  <2> QED
    BY <1>1, <1>2, <1>3, <1>4, <2>1, <2>2, <2>3 DEF EntriesKept, Removed
<1>9. ASSUME NEW c \in Channels, Destruct(c)
      PROVE  ClientInv' /\ EntriesKept
  <2>1. /\ ~tables.added[c] /\ tables.events[c] = "none"
        /\ tables' = destruct(tables, c) /\ removed' = removed \ {c}
    BY <1>9 DEF Destruct
  <2>2. Destructed(tables, tables', c)
    BY <1>1, <2>1, DestructRemoved
  <2> QED
    BY <1>1, <1>2, <1>4, <2>1, <2>2 DEF EntriesKept, Destructed
<1>10. CASE UNCHANGED clientVars
  BY <1>10 DEF clientVars, ClientInv, ClientTypeOK, Consistent, Knows, HasEntry, Entry, Interest
<1> QED
  BY <1>5, <1>6, <1>7, <1>8, <1>9, <1>10 DEF ClientNext

\* The tables of the poller and the fields of the channels agree in every state.
THEOREM ClientInvariance == ClientSpec => []ClientInv
<1>1. ClientInv /\ [ClientNext]_clientVars => ClientInv'
  BY ClientSteps
<1> QED
  BY ClientStarts, <1>1, PTL DEF ClientSpec

\* Every field of every channel and every entry keeps to its type.
THEOREM ClientTypeCorrect == ClientSpec => []ClientTypeOK
<1>1. ClientInv => ClientTypeOK
  BY DEF ClientInv
<1> QED
  BY ClientInvariance, <1>1, PTL

\* None of the assertions of Poller.cpp and Channel.cpp fails, however many
\* channels come and go and in whatever order.
THEOREM AssertionsHold == ClientSpec => []NoAssertFails
<1>1. ClientInv => NoAssertFails
  BY DEF ClientInv, Consistent, NoAssertFails
<1> QED
  BY ClientInvariance, <1>1, PTL

\* poll() reports the channels that read and are ready, each once, whatever removals
\* have moved: fill_active_channels() meets no entry that has lost its channel.
THEOREM ReportsAreExact == ClientSpec => []PollReports
<1>1. ASSUME ClientInv PROVE PollReports
  <2> SUFFICES ASSUME NEW ready \in SUBSET Fds,
                      NEW a, a = fill_active_channels(tables, ready)
               PROVE  /\ Range(a) = Reading(ready) /\ Len(a) = Cardinality(Reading(ready))
                      /\ ReportsHaveChannels(tables, ready)
    BY DEF PollReports
  <2>1. a \in Seq(Channels) /\ Enumerates(a, Reading(ready))
    BY <1>1, FillActive DEF ClientInv, Reading
  <2>2. ReportsHaveChannels(tables, ready)
    BY <1>1, FillAsserts DEF ClientInv
  <2> QED
    BY <2>1, <2>2, EnumerationCounts
<1> QED
  BY ClientInvariance, <1>1, PTL

\* A call for one channel never changes what the poller watches for another.
THEOREM EntriesAreKept == ClientSpec => OthersKeepTheirEntry
<1>1. ClientInv /\ [ClientNext]_clientVars => [EntriesKept]_clientVars
  BY ClientSteps
<1> QED
  BY ClientInvariance, <1>1, PTL DEF ClientSpec, OthersKeepTheirEntry, EntriesKept

=============================================================================

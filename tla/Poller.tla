------------------------------- MODULE Poller -------------------------------
(***************************************************************************)
(* penduo::Poller and the registration half of penduo::Channel, as         *)
(* operators on a registry: the two tables of the poller and the fields of *)
(* every channel.  A module whose component owns channels keeps a registry *)
(* in a variable and applies the calls of its handlers to it.              *)
(*                                                                         *)
(* events_ is "none" or "read": no code asks for POLLOUT.  revents_ is     *)
(* given to handle_event() by who polls, and not kept.  Calls are made in  *)
(* the loop thread, which is what assert_in_loop_thread asks.              *)
(***************************************************************************)
EXTENDS Integers, Sequences

CONSTANTS Channels,   \* the Channel objects the program ever has
          NoChannel,  \* what the map holds for a descriptor it has no key for
          Fds         \* the file descriptors

ASSUME PollerAssumption ==
  /\ Fds \subseteq Nat
  /\ Fds # {}
  /\ NoChannel \notin Channels

Events == {"none", "read"}

\* pollfds and channels are the poller's; alive is the set of channels that are
\* constructed; fd, events, index and added are fields of a channel, index
\* counting from 0 as pollfds_index_ does; failed is set by a failed assertion.
Registry ==
  [pollfds  : Seq([fd : Fds \cup {-f - 1 : f \in Fds}, events : Events]),
   channels : [Fds -> Channels \cup {NoChannel}],
   alive    : SUBSET Channels,
   fd       : [Channels -> Fds],
   events   : [Channels -> Events],
   index    : [Channels -> Nat \cup {-1}],
   added    : [Channels -> BOOLEAN],
   failed   : BOOLEAN]

EmptyRegistry ==
  [pollfds  |-> << >>,
   channels |-> [f \in Fds |-> NoChannel],
   alive    |-> {},
   fd       |-> [c \in Channels |-> CHOOSE f \in Fds : TRUE],
   events   |-> [c \in Channels |-> "none"],
   index    |-> [c \in Channels |-> -1],
   added    |-> [c \in Channels |-> FALSE],
   failed   |-> FALSE]

\* assert(ok): the process is gone when it does not hold.
Asserting(ok, r, next) == IF ok THEN next ELSE [r EXCEPT !.failed = TRUE]

\* Mutant: the sign of the descriptor is changed, which 0 does not have.
Negation(fd) == -fd

\* ~fd: negative for a descriptor, so that poll() ignores the entry.
Complement(fd) == -fd - 1

PollFd(fd, events) == [fd |-> fd, events |-> events]

\* The entry of a channel the poller knows.
Interest(r, c) ==
  PollFd(IF r.events[c] = "none" THEN Complement(r.fd[c]) ELSE r.fd[c], r.events[c])

Knows(r, c) == r.channels[r.fd[c]] = c

HasEntry(r, c) == r.index[c] \in 0..(Len(r.pollfds) - 1)

Entry(r, c) == r.pollfds[r.index[c] + 1]

-----------------------------------------------------------------------------
(* Poller.                                                                 *)

\* A new entry has the descriptor as it is, even if no event is asked for.
AddChannel(r, c) ==
  Asserting(r.channels[r.fd[c]] = NoChannel, r,
    [r EXCEPT !.pollfds = Append(r.pollfds, PollFd(r.fd[c], r.events[c])),
              !.index[c] = Len(r.pollfds),
              !.channels[r.fd[c]] = c])

\* Mutant: the entry written is the last one.
ModifyLast(r, c) ==
  Asserting(Knows(r, c), r, [r EXCEPT !.pollfds[Len(r.pollfds)] = Interest(r, c)])

ModifyChannel(r, c) ==
  Asserting(/\ Knows(r, c)
            /\ HasEntry(r, c)
            /\ Entry(r, c).fd \in {r.fd[c], Complement(r.fd[c])}, r,
    [r EXCEPT !.pollfds[r.index[c] + 1] = Interest(r, c)])

update_channel(r, c) ==
  IF r.index[c] < 0 THEN AddChannel(r, c) ELSE ModifyChannel(r, c)

\* The descriptor the last entry is for.
LastFd(r) ==
  LET fd == r.pollfds[Len(r.pollfds)].fd IN IF fd < 0 THEN Complement(fd) ELSE fd

\* Mutant: pop_back() without the swap.
DropLast(r, i) == [r EXCEPT !.pollfds = SubSeq(r.pollfds, 1, Len(r.pollfds) - 1)]

\* The last entry takes the place of entry i (counted from 0), and the channel
\* of its descriptor is told so, unless it is entry i that is last.
DropEntry(r, i) ==
  LET shorter == [j \in 1..(Len(r.pollfds) - 1) |->
                    IF j = i + 1 THEN r.pollfds[Len(r.pollfds)] ELSE r.pollfds[j]]
      moved == r.channels[LastFd(r)]
  IN  IF i = Len(r.pollfds) - 1
        THEN [r EXCEPT !.pollfds = shorter]
        ELSE Asserting(moved # NoChannel, r,
               [r EXCEPT !.pollfds = shorter, !.index[moved] = i])

\* Mutant: the erase is lost with the assertion around it.
remove_unerased(r, c) ==
  Asserting(Knows(r, c) /\ HasEntry(r, c), r, DropEntry(r, r.index[c]))

\* The channel keeps its own index.
remove_channel(r, c) ==
  Asserting(/\ Knows(r, c)
            /\ r.events[c] = "none"
            /\ HasEntry(r, c)
            /\ Entry(r, c) = Interest(r, c), r,
    DropEntry([r EXCEPT !.channels[r.fd[c]] = NoChannel], r.index[c]))

\* The entries that poll() gives revents when the descriptors in ready have input.
ReportedEntries(r, ready) ==
  {n \in 1..Len(r.pollfds) : r.pollfds[n].fd \in ready /\ r.pollfds[n].events = "read"}

\* The assertions of fill_active_channels(): a reported descriptor is a key, and the channel
\* it is the key of has it.
ReportsHaveChannels(r, ready) ==
  \A n \in ReportedEntries(r, ready) :
    LET fd == r.pollfds[n].fd
    IN  r.channels[fd] # NoChannel /\ r.fd[r.channels[fd]] = fd

\* The channels poll() reports when the descriptors in ready have input, in the
\* order of their entries.  The loop of the code ends early after the last of the
\* num_events entries that were reported.
fill_active_channels(r, ready) ==
  LET filled[n \in 0..Len(r.pollfds)] ==
        IF n = 0 THEN << >>
        ELSE IF n \in ReportedEntries(r, ready)
          THEN Append(filled[n - 1], r.channels[r.pollfds[n].fd])
          ELSE filled[n - 1]
  IN  filled[Len(r.pollfds)]

-----------------------------------------------------------------------------
(* Channel.                                                                *)

\* update() of a channel; added_to_loop_ is set once the poller has it.
Update(r, c) == [update_channel(r, c) EXCEPT !.added[c] = TRUE]

construct(r, c, fd) ==
  [r EXCEPT !.alive = r.alive \cup {c}, !.fd[c] = fd, !.events[c] = "none",
            !.index[c] = -1, !.added[c] = FALSE]

enable_reading(r, c) == Update([r EXCEPT !.events[c] = "read"], c)

disable_all(r, c) == Update([r EXCEPT !.events[c] = "none"], c)

remove(r, c) ==
  Asserting(r.events[c] = "none" /\ r.added[c], r,
    remove_channel([r EXCEPT !.added[c] = FALSE], c))

destruct(r, c) ==
  Asserting(~r.added[c] /\ r.events[c] = "none", r,
    [r EXCEPT !.alive = r.alive \ {c}])

\* Mutant: a hang-up is all that is handled.
HandleHangUpFirst(revents, callbacks) ==
  IF "HUP" \in revents THEN {"close"} \cap callbacks
  ELSE IF revents \cap {"IN", "PRI"} # {} THEN {"read"} \cap callbacks ELSE {}

\* The callbacks that handle_event() calls, of those that are set. None of the library's
\* channels has two of them, so that their order is left out.
handle_event(revents, callbacks) ==
  {k \in callbacks :
     \/ k = "close" /\ "HUP" \in revents /\ "IN" \notin revents
     \/ k = "error" /\ revents \cap {"ERR", "NVAL"} # {}
     \/ k = "read"  /\ revents \cap {"IN", "PRI"} # {}
     \/ k = "write" /\ "OUT" \in revents}

=============================================================================

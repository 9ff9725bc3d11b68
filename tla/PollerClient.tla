---------------------------- MODULE PollerClient ----------------------------
(***************************************************************************)
(* Any program that calls channels the way Acceptor, TcpConnection,        *)
(* TimerQueue and EventLoop do: a channel is enabled before anything else, *)
(* disabled before it is removed, removed before it is destroyed, never    *)
(* used again once removed, and two channels in the loop have two          *)
(* descriptors.  Any number of channels come and go in any order.          *)
(***************************************************************************)
EXTENDS Poller, FiniteSets, Functions

VARIABLES tables,    \* the registry
          removed    \* the channels removed and not yet destroyed

clientVars == <<tables, removed>>

ClientTypeOK == tables \in Registry /\ removed \subseteq tables.alive

ClientInit == tables = EmptyRegistry /\ removed = {}

Construct(c, fd) ==
  /\ c \notin tables.alive
  /\ tables' = construct(tables, c, fd)
  /\ UNCHANGED removed

EnableReading(c) ==
  /\ c \in tables.alive \ removed
  /\ \A d \in Channels \ {c} : tables.added[d] => tables.fd[d] # tables.fd[c]
  /\ tables' = enable_reading(tables, c)
  /\ UNCHANGED removed

DisableAll(c) ==
  /\ c \in tables.alive
  /\ tables.added[c]
  /\ tables' = disable_all(tables, c)
  /\ UNCHANGED removed

Remove(c) ==
  /\ c \in tables.alive
  /\ tables.added[c]
  /\ tables.events[c] = "none"
  /\ tables' = remove(tables, c)
  /\ removed' = removed \cup {c}

Destruct(c) ==
  /\ c \in tables.alive
  /\ ~tables.added[c]
  /\ tables.events[c] = "none"
  /\ tables' = destruct(tables, c)
  /\ removed' = removed \ {c}

ClientNext ==
  \E c \in Channels :
    \/ \E fd \in Fds : Construct(c, fd)
    \/ EnableReading(c)
    \/ DisableAll(c)
    \/ Remove(c)
    \/ Destruct(c)

ClientSpec == ClientInit /\ [][ClientNext]_clientVars

-----------------------------------------------------------------------------
(* Properties.                                                             *)

Reading(ready) ==
  {c \in Channels : tables.added[c] /\ tables.events[c] = "read" /\ tables.fd[c] \in ready}

\* No assertion of Poller or Channel fails, whatever the order in which channels
\* come and go and so whatever entries remove_channel() has moved.
NoAssertFails == ~tables.failed

\* poll() reports exactly the channels that enabled reading and whose descriptor
\* is ready, each once: no entry is stale, lost or duplicated by a removal, and no
\* assertion of fill_active_channels() meets one.
PollReports ==
  \A ready \in SUBSET Fds :
    LET active == fill_active_channels(tables, ready)
    IN  /\ Range(active) = Reading(ready)
        /\ Len(active) = Cardinality(Reading(ready))
        /\ ReportsHaveChannels(tables, ready)

\* A call for one channel leaves what the poller watches for every other channel
\* as it was, though the entry may have moved.
OthersKeepTheirEntry ==
  [][\A c \in Channels :
       tables.added[c] /\ tables'.added[c] /\ tables'.events[c] = tables.events[c]
         => Entry(tables', c) = Entry(tables, c)]_clientVars

=============================================================================

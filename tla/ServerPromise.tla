--------------------------- MODULE ServerPromise ----------------------------
(***************************************************************************)
(* What TcpServer promises the user's callbacks of each peer: one "up",    *)
(* then messages that carry the bytes the peer has sent, then one "down",  *)
(* which comes only after the peer has closed and its bytes are read; in   *)
(* between, one message at most may carry nothing.                         *)
(***************************************************************************)
EXTENDS Naturals

CONSTANT Peers

VARIABLES told,    \* what connection_callback_ was last told of the peer
          got,     \* how many of its bytes message_callback_ has been given
          empties, \* how often it was called and given none
          sent,    \* how many bytes of the peer the kernel has taken
          open     \* the peer has neither closed nor reset the connection

vars == <<told, got, empties, sent, open>>

Init ==
  /\ told = [p \in Peers |-> "none"]
  /\ got = [p \in Peers |-> 0]
  /\ empties = [p \in Peers |-> 0]
  /\ sent = [p \in Peers |-> 0]
  /\ open = [p \in Peers |-> TRUE]

\* The peer sends, closes or resets; a reset may lose bytes that nobody has read.
Peer(p) ==
  /\ open[p]
  /\ \E n \in {got[p]} \cup (sent[p]..(sent[p] + 1)) : sent' = [sent EXCEPT ![p] = n]
  /\ \E o \in BOOLEAN : open' = [open EXCEPT ![p] = o]
  /\ sent'[p] < sent[p] => ~open'[p]
  /\ UNCHANGED <<told, got, empties>>

Up(p) ==
  /\ told[p] = "none"
  /\ told' = [told EXCEPT ![p] = "up"]
  /\ UNCHANGED <<got, empties, sent, open>>

Message(p) ==
  /\ told[p] = "up"
  /\ \E n \in (got[p] + 1)..sent[p] : got' = [got EXCEPT ![p] = n]
  /\ UNCHANGED <<told, empties, sent, open>>

\* The message of a read error: once, when the connection is reset and read to its end.
EmptyMessage(p) ==
  /\ told[p] = "up"
  /\ ~open[p]
  /\ got[p] = sent[p]
  /\ empties[p] = 0
  /\ empties' = [empties EXCEPT ![p] = 1]
  /\ UNCHANGED <<told, got, sent, open>>

Down(p) ==
  /\ told[p] = "up"
  /\ ~open[p]
  /\ got[p] = sent[p]
  /\ told' = [told EXCEPT ![p] = "down"]
  /\ UNCHANGED <<got, empties, sent, open>>

Next == \E p \in Peers : Peer(p) \/ Up(p) \/ Message(p) \/ EmptyMessage(p) \/ Down(p)

Spec == Init /\ [][Next]_vars

=============================================================================

----------------------------- MODULE CrossbarAbs -----------------------------
(***************************************************************************)
(* What the interconnect promises its users: on every route from one node   *)
(* to another a first-in first-out channel.  Packets of a channel are       *)
(* numbered; the last number sent and the last one delivered are visible.   *)
(***************************************************************************)
EXTENDS Naturals, Sequences

CONSTANT Routes  \* pairs of a source and a destination

VARIABLES channel, sent, got

Init ==
  /\ channel = [p \in Routes |-> <<>>]
  /\ sent = [p \in Routes |-> 0]
  /\ got = [p \in Routes |-> 0]

Send(p) ==
  /\ sent' = [sent EXCEPT ![p] = @ + 1]
  /\ channel' = [channel EXCEPT ![p] = Append(@, sent[p] + 1)]
  /\ UNCHANGED got

Deliver(p) ==
  /\ channel[p] # <<>>
  /\ got' = [got EXCEPT ![p] = Head(channel[p])]
  /\ channel' = [channel EXCEPT ![p] = Tail(@)]
  /\ UNCHANGED sent

Next == \E p \in Routes : Send(p) \/ Deliver(p)

Spec == Init /\ [][Next]_<<channel, sent, got>>
=============================================================================

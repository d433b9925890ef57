------------------------------ MODULE MCDelivery ------------------------------
(***************************************************************************)
(* Two publishers' shards: the topic of one matches a single subscription  *)
(* at QoS-0, that of the other two overlapping ones.  With a batch of one, *)
(* six messages of a publisher fill the session's queue and bring a back   *)
(* log over its limit, and the seventh finds it there.                     *)
(***************************************************************************)
EXTENDS Delivery, TLC

CONSTANTS p, q

MCSources == {p, q}

Plain == [qos |-> 0, retain |-> FALSE, own |-> FALSE]
Own == [qos |-> 0, retain |-> TRUE, own |-> TRUE]
Acknowledged == [qos |-> 1, retain |-> FALSE, own |-> FALSE]

Workload(batch, mp, publishes, mq) ==
  [batch |-> batch, receive_max |-> 2,
   messages |-> (p :> mp @@ q :> mq),
   matches |-> (p :> <<[qos |-> 0, no_local |-> TRUE, rap |-> FALSE]>> @@
                q :> <<[qos |-> 0, no_local |-> TRUE, rap |-> TRUE],
                       [qos |-> 2, no_local |-> FALSE, rap |-> FALSE]>>),
   publishes |-> (p :> publishes @@
                  q :> {[qos |-> 1, retain |-> TRUE, own |-> TRUE]})]

MCSetups ==
  {Workload(1, 7, {Plain}, 2), Workload(1, 1, {Own, Acknowledged}, 7),
   Workload(2, 2, {Own, Acknowledged}, 5)}
=============================================================================

------------------------------ MODULE MqttFifo ------------------------------
(***************************************************************************)
(* What the MQTT send queue promises to the callers of Module::publish():  *)
(* accepted messages leave in the order they were accepted, each at most   *)
(* once, at most MaxQueue wait at a time, and a message that does not go   *)
(* out is lost only at the head (no memory for the TX buffer) or with the  *)
(* whole queue (connection lost).  MqttQueue is shown to implement this.   *)
(***************************************************************************)
EXTENDS Integers, Sequences

CONSTANTS Producers, \* the tasks that publish
          MaxQueue,  \* OPENKNX_MQTT_MAX_QUEUE
          MaxPublish \* bound: calls of publish() per producer

VARIABLES queue,     \* accepted and waiting, oldest first
          sent       \* handed to the broker or client, in that order

fifoVars == <<queue, sent>>

\* A message is the caller's n-th call of publish().
Message == [producer : Producers, n : 1..MaxPublish]

\* m was published after every message of its producer in the sequence s.
Newest(m, s) == \A i \in 1..Len(s) : s[i].producer = m.producer => s[i].n < m.n

Init == queue = <<>> /\ sent = <<>>

Accept(m) ==
    /\ Len(queue) < MaxQueue
    /\ Newest(m, queue)
    /\ Newest(m, sent)
    /\ queue' = Append(queue, m)
    /\ UNCHANGED sent

Send ==
    /\ queue # <<>>
    /\ sent' = Append(sent, Head(queue))
    /\ queue' = Tail(queue)

DropHead == queue # <<>> /\ queue' = Tail(queue) /\ UNCHANGED sent

Clear == queue' = <<>> /\ UNCHANGED sent

Next == (\E m \in Message : Accept(m)) \/ Send \/ DropHead \/ Clear

Spec == Init /\ [][Next]_fifoVars
=============================================================================

---------------------------- MODULE QueueConsumer ----------------------------
(***************************************************************************)
(* The JetStream queue consumer that both workers of the pipeline use       *)
(* (QueueSubscribe with ManualAck: cmd/domain-engine/main.go:38-55,         *)
(* cmd/data-sink/main.go:51-76).  The broker is outside the repository;     *)
(* this is what those callbacks rely on:                                    *)
(*   - messages of the stream are first delivered in stream order;          *)
(*   - a message that was not acknowledged is delivered again, to any       *)
(*     member of the queue group, as often as it takes;                     *)
(*   - an acknowledged or terminated message is never delivered again,      *)
(*     though a copy that is already in some inbox is still handled.        *)
(* A consumer is a value; the operators return the consumer after a step.   *)
(***************************************************************************)
EXTENDS Integers, Sequences

\* next: the last message delivered for the first time; due: messages waiting
\* for redelivery; acked: messages that are done with (Ack or Term).  The stream
\* has n messages.
Consumer(n) == [next : 0 .. n, due : SUBSET (1 .. n), acked : SUBSET (1 .. n)]

NewConsumer == [next |-> 0, due |-> {}, acked |-> {}]

\* Messages of a stream of n messages the broker may hand out now.
Deliverable(c, n) == (IF c.next < n THEN {c.next + 1} ELSE {}) \cup c.due

\* m has been handed to a member.
Delivered(c, m) ==
    [next |-> IF m = c.next + 1 THEN m ELSE c.next,
     due |-> c.due \ {m}, acked |-> c.acked]

\* msg.Ack() or msg.Term() reached the broker.
Settled(c, m) ==
    [next |-> c.next, due |-> c.due \ {m}, acked |-> c.acked \cup {m}]

\* msg.Nak(), an expired AckWait or a lost member: the messages of ms are
\* delivered again unless they were settled meanwhile.
Requeued(c, ms) ==
    [next |-> c.next, due |-> c.due \cup (ms \ c.acked), acked |-> c.acked]

\* Handed out, not settled and not waiting for redelivery.
Outstanding(c) == ((1 .. c.next) \ c.due) \ c.acked

\* A member of the queue group: the messages delivered to it and not yet
\* handled, in delivery order, and whether the callback has done its work on
\* the first of them and only its Ack is missing.
Worker(n) == [inbox : Seq(1 .. n), done : BOOLEAN]

IdleWorker == [inbox |-> <<>>, done |-> FALSE]

Receives(w, m) == [inbox |-> Append(w.inbox, m), done |-> w.done]

Works(w) == [inbox |-> w.inbox, done |-> TRUE]

\* The callback returned: the client library hands it the next message.
Returns(w) == [inbox |-> Tail(w.inbox), done |-> FALSE]

\* The callback is about to handle the first message of its inbox.
Handling(w) == w.inbox # <<>> /\ ~ w.done

\* The callback has handled it and is about to acknowledge it.
Acking(w) == w.inbox # <<>> /\ w.done

Current(w) == Head(w.inbox)

Held(w) == { w.inbox[i] : i \in DOMAIN w.inbox }
==============================================================================

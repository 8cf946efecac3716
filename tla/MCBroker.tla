------------------------------ MODULE MCBroker ------------------------------
(***************************************************************************)
(* Instances of Broker for TLC: who may send what.                         *)
(***************************************************************************)
EXTENDS Broker, TLC

CONSTANTS c1, c2, c3, a, b, topic

Claim(id)   == [kind |-> "Register", id |-> id]
To(id)      == [kind |-> "Unicast", id |-> id]
Listen      == [kind |-> "Subscribe", type |-> topic]
Publish     == [kind |-> "Broadcast", type |-> topic]
TooLong     == [kind |-> "Oversize"]
Malformed   == [kind : {"Reserved", "Invalid", "Oversize", "Empty"}]

\* Everybody registers under the same id and writes to it.
SameId == [c \in Client |-> {Claim(a), To(a)}]

\* Everybody registers under either id, or under 0, in any order and any number
\* of times, and writes what the broker must refuse.
AnyId == [c \in Client |-> {Claim(a), Claim(b), Claim(NoId), To(a)} \cup Malformed]

\* Two clients register under the same id and subscribe; one publishes, the
\* other may register under 0 as well, and write more than the buffer holds.
Traffic ==
    [c \in Client |->
        {Claim(a), Listen} \cup IF c = c1 THEN {Publish} ELSE {Claim(NoId), TooLong}]

\* Subscribers and publishers only.
PubSub == [c \in Client |-> {Listen, Publish}]

Symmetry == Permutations(Client)
=============================================================================

------------------------------ MODULE Registry ------------------------------
(***************************************************************************)
(* What the broker promises about identity, without pipes, indices, calls  *)
(* or locks: which sessions it serves, under which id each is reachable,   *)
(* and which message types each has asked for.  An id has one holder at a  *)
(* time, only a session that was let in can hold one or subscribe, and a   *)
(* session that goes takes its id and all its subscriptions with it in one *)
(* step.  Broker implements this specification.                            *)
(***************************************************************************)
CONSTANTS Client, Id, NoId, Type

VARIABLES
    member,      \* the sessions being served
    idOf,        \* idOf[c]: the id c is registered under, or NoId
    subscribed   \* subscribed[t]: the sessions that receive broadcasts of t

vars == <<member, idOf, subscribed>>

TypeOK ==
    /\ member \subseteq Client
    /\ idOf \in [Client -> Id \cup {NoId}]
    /\ subscribed \in [Type -> SUBSET Client]

\* One holder per id; no id and no subscription outlives its session.
Consistent ==
    /\ \A c, d \in member : c # d /\ idOf[c] = idOf[d] => idOf[c] = NoId
    /\ \A c \in Client \ member : idOf[c] = NoId
    /\ \A t \in Type : subscribed[t] \subseteq member

Init ==
    /\ member = {}
    /\ idOf = [c \in Client |-> NoId]
    /\ subscribed = [t \in Type |-> {}]

\* Removing the sessions in gone, with everything they had.
Without(gone) ==
    /\ member' = member \ gone
    /\ subscribed' = [t \in Type |-> subscribed[t] \ gone]

Join(c) ==
    /\ c \notin member
    /\ member' = member \cup {c}
    /\ UNCHANGED <<idOf, subscribed>>

Leave(c) ==
    /\ c \in member
    /\ Without({c})
    /\ idOf' = [idOf EXCEPT ![c] = NoId]

\* c takes an id nobody else has, or lets go of its own (NoId).
Take(c, id) ==
    /\ c \in member
    /\ \A d \in member \ {c} : idOf[d] # id
    /\ idOf' = [idOf EXCEPT ![c] = id]
    /\ UNCHANGED <<member, subscribed>>

\* c takes the id of d, which leaves in the same step.
Replace(c, d, id) ==
    /\ c \in member /\ d \in member \ {c} /\ idOf[d] = id
    /\ Without({d})
    /\ idOf' = [idOf EXCEPT ![c] = id, ![d] = NoId]

Follow(c, t) ==
    /\ c \in member
    /\ subscribed' = [subscribed EXCEPT ![t] = @ \cup {c}]
    /\ UNCHANGED <<member, idOf>>

\* The broker's process ends.
Fail ==
    /\ Without(member)
    /\ idOf' = [c \in Client |-> NoId]

Next ==
    \/ \E c \in Client : Join(c) \/ Leave(c)
    \/ \E c \in Client, id \in Id \cup {NoId} :
        Take(c, id) \/ (\E d \in Client : Replace(c, d, id))
    \/ \E c \in Client, t \in Type : Follow(c, t)
    \/ Fail

Spec == Init /\ [][Next]_vars
=============================================================================

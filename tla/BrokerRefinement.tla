-------------------------- MODULE BrokerRefinement --------------------------
(***************************************************************************)
(* Broker implements Registry, for any number of pipes, clients, ids and   *)
(* types: the broker's tables, keyed by pipe index, behave like a registry *)
(* of sessions.  ImplementsRegistry in Broker has the mapping.             *)
(***************************************************************************)
EXTENDS BrokerProofs

-----------------------------------------------------------------------------
(***************************************************************************)
(* The mapped variables                                                    *)
(***************************************************************************)

Member == {c \in Client : \E p \in Pipe : Serving(p, c)}
IdOf == [c \in Client |->
            IF \E p \in Pipe : Serving(p, c)
            THEN mClients[CHOOSE p \in Pipe : Serving(p, c)]
            ELSE NoId]
Subscribed == [t \in Type |-> {c \in Client : \E p \in mMessages[t] : up /\ link[p] = c}]

\* The actions of Registry in terms of the mapped variables.
LEMMA Mapped ==
    /\ R!vars = <<Member, IdOf, Subscribed>>
    /\ R!Init <=> /\ Member = {}
                  /\ IdOf = [c \in Client |-> NoId]
                  /\ Subscribed = [t \in Type |-> {}]
BY DEF R!vars, R!Init, Member, IdOf, Subscribed

LEMMA MappedJoin ==
    ASSUME NEW c \in Client
    PROVE  R!Join(c) <=> /\ c \notin Member
                         /\ Member' = Member \cup {c}
                         /\ UNCHANGED <<IdOf, Subscribed>>
BY DEF R!Join, Member, IdOf, Subscribed

LEMMA MappedLeave ==
    ASSUME NEW c \in Client
    PROVE  R!Leave(c) <=> /\ c \in Member
                          /\ Member' = Member \ {c}
                          /\ Subscribed' = [t \in Type |-> Subscribed[t] \ {c}]
                          /\ IdOf' = [IdOf EXCEPT ![c] = NoId]
BY DEF R!Leave, R!Without, Member, IdOf, Subscribed

LEMMA MappedTake ==
    ASSUME NEW c \in Client, NEW id
    PROVE  R!Take(c, id) <=> /\ c \in Member
                             /\ \A d \in Member \ {c} : IdOf[d] # id
                             /\ IdOf' = [IdOf EXCEPT ![c] = id]
                             /\ UNCHANGED <<Member, Subscribed>>
BY DEF R!Take, Member, IdOf, Subscribed

LEMMA MappedReplace ==
    ASSUME NEW c \in Client, NEW d \in Client, NEW id
    PROVE  R!Replace(c, d, id) <=>
               /\ c \in Member /\ d \in Member \ {c} /\ IdOf[d] = id
               /\ Member' = Member \ {d}
               /\ Subscribed' = [t \in Type |-> Subscribed[t] \ {d}]
               /\ IdOf' = [IdOf EXCEPT ![c] = id, ![d] = NoId]
BY DEF R!Replace, R!Without, Member, IdOf, Subscribed

LEMMA MappedFollow ==
    ASSUME NEW c \in Client, NEW t \in Type
    PROVE  R!Follow(c, t) <=> /\ c \in Member
                              /\ Subscribed' = [Subscribed EXCEPT ![t] = @ \cup {c}]
                              /\ UNCHANGED <<Member, IdOf>>
BY DEF R!Follow, Member, IdOf, Subscribed

LEMMA MappedFail ==
    R!Fail <=> /\ Member' = Member \ Member
               /\ Subscribed' = [t \in Type |-> Subscribed[t] \ Member]
               /\ IdOf' = [c \in Client |-> NoId]
BY DEF R!Fail, R!Without, Member, IdOf, Subscribed

-----------------------------------------------------------------------------
(***************************************************************************)
(* What the mapped variables say, given the invariant                      *)
(***************************************************************************)

\* A connection is served through one pipe.
ServedOnce == \A p, q \in Pipe, c \in Client : Serving(p, c) /\ Serving(q, c) => p = q

\* The id and the subscriptions of a session are those of its entry.
IdsMapped ==
    \A c \in Client :
        /\ \A p \in Pipe : Serving(p, c) => IdOf[c] = mClients[p]
        /\ c \notin Member => IdOf[c] = NoId
SubscriptionsMapped ==
    \A t \in Type, c \in Client :
        c \in Subscribed[t] <=> \E p \in Pipe : Serving(p, c) /\ p \in mMessages[t]

MappedWell == ServedOnce /\ IdsMapped /\ SubscriptionsMapped

LEMMA InvMaps == IInv => MappedWell
<1> SUFFICES ASSUME IInv PROVE MappedWell
  OBVIOUS
<1>1. ServedOnce
  BY NamesAssumption DEF ServedOnce, Serving, IInv, RegistryInv, Attachment, OnePipeEach
<1>2. IdsMapped
  <2>1. ASSUME NEW c \in Client, NEW p \in Pipe, Serving(p, c)
        PROVE  IdOf[c] = mClients[p]
    <3> DEFINE q == CHOOSE q \in Pipe : Serving(q, c)
    <3>1. q \in Pipe /\ Serving(q, c)
      BY <2>1
    <3>2. q = p
      BY <1>1, <2>1, <3>1 DEF ServedOnce
    <3>3. IdOf[c] = mClients[q]
      BY <2>1 DEF IdOf
    <3>4. QED
      BY <3>2, <3>3
  <2>2. ASSUME NEW c \in Client, c \notin Member
        PROVE  IdOf[c] = NoId
    BY <2>2 DEF IdOf, Member
  <2>3. QED
    BY <2>1, <2>2 DEF IdsMapped
<1>3. SubscriptionsMapped
  <2>1. mMessages \in [Type -> SUBSET Pipe]
    BY DEF IInv, TypeOK
  <2>2. up => \A p \in Pipe, t \in Type : p \in mMessages[t] => Registered(p)
    BY DEF IInv, RegistryInv, EntriesBelongToSession
  <2>3. QED
    BY <2>1, <2>2 DEF SubscriptionsMapped, Subscribed, Serving
<1>4. QED
  BY <1>1, <1>2, <1>3 DEF MappedWell

\* The broker starts with an empty registry.
LEMMA InitMaps == Init => R!Init
<1> SUFFICES ASSUME Init PROVE R!Init
  OBVIOUS
<1>1. \A p \in Pipe, c \in Client : ~Serving(p, c)
  BY DEF Init, Serving, Registered
<1>2. Member = {} /\ IdOf = [c \in Client |-> NoId]
  BY <1>1 DEF Member, IdOf
<1>3. Subscribed = [t \in Type |-> {}]
  BY DEF Init, Subscribed
<1>4. QED
  BY <1>2, <1>3, Mapped

\* The same after a step.
LEMMA InvMapsNext == IInv' => MappedWell'
BY InvMaps, PTL

-----------------------------------------------------------------------------
(***************************************************************************)
(* What a step does to the mapped variables, from what it does to the      *)
(* entries                                                                 *)
(***************************************************************************)

\* The entry of a session that goes on being served, through the same pipe.
SameEntry(p) == mClients'[p] = mClients[p] /\ \A t \in Type : p \in mMessages'[t] <=> p \in mMessages[t]

\* Nobody comes or goes and no entry in use changes: Registry does not move.
LEMMA Stutters ==
    ASSUME MappedWell, MappedWell',
           \A p \in Pipe, c \in Client : Serving(p, c)' <=> Serving(p, c),
           \A p \in Pipe, c \in Client : Serving(p, c) => SameEntry(p)
    PROVE  UNCHANGED R!vars
<1>1. Member' = Member
  BY DEF Member
<1>2. ASSUME NEW c \in Client PROVE IdOf'[c] = IdOf[c]
  <2>1. CASE c \in Member
    <3>1. PICK p \in Pipe : Serving(p, c)
      BY <2>1 DEF Member
    <3>2. Serving(p, c)' /\ mClients'[p] = mClients[p]
      BY <3>1 DEF SameEntry
    <3>3. QED
      BY <3>1, <3>2 DEF MappedWell, IdsMapped
  <2>2. CASE c \notin Member
    BY <1>1, <2>2 DEF MappedWell, IdsMapped
  <2>3. QED
    BY <2>1, <2>2
<1>3. IdOf' = IdOf
  BY <1>2 DEF IdOf
<1>4. ASSUME NEW t \in Type PROVE Subscribed'[t] = Subscribed[t]
  <2>1. \A c \in Client : c \in Subscribed'[t] <=> c \in Subscribed[t]
    BY DEF MappedWell, SubscriptionsMapped, SameEntry
  <2>2. QED
    BY <2>1 DEF Subscribed
<1>5. Subscribed' = Subscribed
  BY <1>4 DEF Subscribed
<1>6. QED
  BY <1>1, <1>3, <1>5, Mapped DEF R!vars, Member, IdOf, Subscribed

\* The entry of one pipe goes, the others stay: the session served through it
\* leaves.
LEMMA Leaves ==
    ASSUME MappedWell, MappedWell', NEW p \in Pipe, NEW d \in Client, Serving(p, d),
           \A q \in Pipe, c \in Client : Serving(q, c)' <=> Serving(q, c) /\ q # p,
           \A q \in Pipe \ {p} : SameEntry(q)
    PROVE  R!Leave(d)
<1>1. \A c \in Client \ {d}, q \in Pipe : Serving(q, c)' <=> Serving(q, c)
  <2>1. ASSUME NEW c \in Client \ {d} PROVE ~Serving(p, c)
    BY NamesAssumption DEF Serving
  <2>2. QED
    BY <2>1
<1>2. \A q \in Pipe : ~Serving(q, d)'
  BY DEF MappedWell, ServedOnce
<1>3. d \in Member /\ Member' = Member \ {d}
  BY <1>1, <1>2 DEF Member
<1>4. ASSUME NEW c \in Client PROVE IdOf'[c] = IF c = d THEN NoId ELSE IdOf[c]
  <2>1. CASE c \notin Member'
    BY <1>3, <2>1 DEF MappedWell, IdsMapped
  <2>2. CASE c \in Member'
    <3>1. PICK q \in Pipe : Serving(q, c)'
      BY <2>2 DEF Member
    <3>2. c # d /\ Serving(q, c) /\ mClients'[q] = mClients[q]
      BY <1>2, <3>1 DEF SameEntry
    <3>3. QED
      BY <3>1, <3>2 DEF MappedWell, IdsMapped
  <2>3. QED
    BY <2>1, <2>2
<1>5. IdOf' = [IdOf EXCEPT ![d] = NoId]
  BY <1>4 DEF IdOf
<1>6. ASSUME NEW t \in Type PROVE Subscribed'[t] = Subscribed[t] \ {d}
  <2>1. \A c \in Client : c \in Subscribed'[t] <=> c \in Subscribed[t] /\ c # d
    BY <1>1, <1>2 DEF MappedWell, SubscriptionsMapped, SameEntry
  <2>2. QED
    BY <2>1 DEF Subscribed
<1>7. Subscribed' = [t \in Type |-> Subscribed[t] \ {d}]
  BY <1>6 DEF Subscribed
<1>8. QED
  BY <1>3, <1>5, <1>7, MappedLeave

-----------------------------------------------------------------------------
(***************************************************************************)
(* The steps                                                               *)
(***************************************************************************)

\* What clients do moves no session in or out: one that connects is served
\* only when the broker has met it.
LEMMA ClientStutters ==
    ASSUME IInv, IInv', ClientNext
    PROVE  UNCHANGED R!vars
<1>1. MappedWell /\ MappedWell'
  BY InvMaps, InvMapsNext
<1>2. UNCHANGED <<up, mClients, mMessages>>
  BY DEF ClientNext, ClientConnect, ClientWrite, ClientRead, ClientClose, ClientForget,
         brokerVars
<1>3. ASSUME NEW p \in Pipe, NEW c \in Client
      PROVE  Serving(p, c)' <=> Serving(p, c)
  <2>1. link[p] # NoClient => link'[p] = link[p]
    BY DEF ClientNext, ClientConnect, ClientWrite, ClientRead, ClientClose, ClientForget,
           IInv, TypeOK
  <2>2. up /\ Registered(p) => link[p] # NoClient
    BY DEF IInv, RegistryInv, EntriesBelongToSession
  <2>3. QED
    BY <1>2, <2>1, <2>2 DEF Serving, Registered
<1>4. QED
  BY <1>1, <1>2, <1>3, Stutters DEF SameEntry

\* A step of the server thread that leaves connections and tables alone.
LEMMA QuietStutters ==
    ASSUME IInv, IInv', UNCHANGED <<link, up, mClients, mMessages>>
    PROVE  UNCHANGED R!vars
<1>1. MappedWell /\ MappedWell'
  BY InvMaps, InvMapsNext
<1>2. QED
  BY <1>1, Stutters DEF SameEntry, Serving, Registered

\* ClientDelete takes the session on p out, if there is one.
LEMMA DeleteLeaves ==
    ASSUME IInv, IInv', NEW p \in Pipe, ClientDelete(p), up, up',
           \A q \in Pipe \ {p} : link'[q] = link[q]
    PROVE  (\E d \in Client : R!Leave(d)) \/ UNCHANGED R!vars
<1>1. MappedWell /\ MappedWell'
  BY InvMaps, InvMapsNext
<1>2. mClients \in [Pipe -> Id \cup {NoId, Absent}] /\ mMessages \in [Type -> SUBSET Pipe]
  BY DEF IInv, TypeOK
<1>3. \A q \in Pipe \ {p} : SameEntry(q)
  BY <1>2 DEF ClientDelete, WithoutClient, WithoutSubscriber, SameEntry
<1>4. mClients'[p] = Absent
  BY <1>2 DEF ClientDelete, WithoutClient
<1>5. \A q \in Pipe, c \in Client : Serving(q, c)' <=> Serving(q, c) /\ q # p
  BY <1>3, <1>4 DEF Serving, Registered, SameEntry
<1>6. CASE \E d \in Client : Serving(p, d)
  BY <1>1, <1>3, <1>5, <1>6, Leaves
<1>7. CASE ~ \E d \in Client : Serving(p, d)
  <2>1. \A q \in Pipe, c \in Client : Serving(q, c)' <=> Serving(q, c)
    BY <1>5, <1>7
  <2>2. \A q \in Pipe, c \in Client : Serving(q, c) => SameEntry(q)
    BY <1>3, <1>7
  <2>3. QED
    BY <1>1, <2>1, <2>2, Stutters
<1>8. QED
  BY <1>6, <1>7

\* A session whose connection the host accepts joins, if it has no entry yet.
LEMMA AcceptJoins ==
    ASSUME IInv, IInv', NEW p \in Pipe, AcceptConnect(p)
    PROVE  (\E c \in Client : R!Join(c)) \/ UNCHANGED R!vars
<1>1. MappedWell /\ MappedWell'
  BY InvMaps, InvMapsNext
<1>2. /\ UNCHANGED <<link, up, mMessages>>
      /\ mClients' = ClientAdd(p)
      /\ Wake(p)
  BY DEF AcceptConnect, kernelVars
<1>3. /\ mClients \in [Pipe -> Id \cup {NoId, Absent}]
      /\ mMessages \in [Type -> SUBSET Pipe]
  BY DEF IInv, TypeOK
<1>4. CASE Registered(p)
  BY <1>2, <1>4, QuietStutters DEF ClientAdd
<1>5. CASE ~Registered(p)
  <2>1. PICK c \in Client : c = link[p]
    BY <1>2, WakeRegistry
  <2>2. up /\ \A q \in Pipe \ {p} : link[q] # c
    BY <1>2, <2>1, WakeRegistry
  <2>3. /\ mClients'[p] = NoId
        /\ \A q \in Pipe \ {p} : mClients'[q] = mClients[q]
    BY <1>2, <1>3, <1>5 DEF ClientAdd
  <2>4. \A q \in Pipe, x \in Client :
            Serving(q, x)' <=> Serving(q, x) \/ (q = p /\ x = c)
    BY <1>2, <1>5, <2>1, <2>2, <2>3, NamesAssumption DEF Serving, Registered
  <2>5. c \notin Member
    BY <1>5, <2>2 DEF Member, Serving
  <2>6. Member' = Member \cup {c}
    BY <2>4 DEF Member
  <2>7. ASSUME NEW x \in Client PROVE IdOf'[x] = IdOf[x]
    <3>1. CASE x = c
      BY <1>1, <2>3, <2>4, <2>5, <3>1 DEF MappedWell, IdsMapped
    <3>2. CASE x \in Member
      <4>1. PICK q \in Pipe : Serving(q, x)
        BY <3>2 DEF Member
      <4>2. Serving(q, x)' /\ mClients'[q] = mClients[q]
        BY <1>5, <2>3, <2>4, <4>1 DEF Serving
      <4>3. QED
        BY <1>1, <4>1, <4>2 DEF MappedWell, IdsMapped
    <3>3. CASE x \notin Member'
      BY <1>1, <2>6, <3>3 DEF MappedWell, IdsMapped
    <3>4. QED
      BY <2>6, <3>1, <3>2, <3>3
  <2>8. ASSUME NEW t \in Type PROVE Subscribed'[t] = Subscribed[t]
    BY <1>2 DEF Subscribed
  <2>9. UNCHANGED <<IdOf, Subscribed>>
    BY <2>7, <2>8 DEF IdOf, Subscribed
  <2>10. QED
    BY <2>5, <2>6, <2>9, MappedJoin
<1>6. QED
  BY <1>4, <1>5

\* A session that registers under an id without a holder takes it; one
\* without an entry changes nothing.
LEMMA RegisterTakes ==
    ASSUME IInv, IInv', NEW p \in Pipe, Register(p)
    PROVE  \/ \E c \in Client, id \in Id \cup {NoId} : R!Take(c, id)
           \/ UNCHANGED R!vars
<1>1. MappedWell /\ MappedWell'
  BY InvMaps, InvMapsNext
<1>2. /\ Receive(p, {"Register"}) /\ Duplicates(p, NextMessage(p).id) = {}
      /\ mClients' = WithId(mClients, p, NextMessage(p).id)
      /\ UNCHANGED mMessages
  BY DEF Register
<1>3. PICK id \in Id \cup {NoId} : id = NextMessage(p).id
  <2>1. NextMessage(p) \in ClientMessage /\ NextMessage(p).kind = "Register"
    BY <1>2, ReceiveType DEF IInv
  <2>2. QED
    BY <2>1, ClientMessageFields
<1>4. UNCHANGED <<link, up>> /\ Wake(p)
  BY <1>2 DEF Receive
<1>5. mClients \in [Pipe -> Id \cup {NoId, Absent}]
  BY DEF IInv, TypeOK
<1>6. CASE ~Registered(p)
  BY <1>2, <1>4, <1>6, QuietStutters DEF WithId, Registered
<1>7. CASE Registered(p)
  <2>1. PICK c \in Client : c = link[p]
    BY <1>4, WakeRegistry
  <2>2. Serving(p, c)
    BY <1>4, <1>7, <2>1, WakeRegistry DEF Serving
  <2>3. /\ mClients'[p] = id /\ id # Absent
        /\ \A q \in Pipe \ {p} : mClients'[q] = mClients[q] /\ mClients[q] # id
    BY <1>2, <1>3, <1>5, <1>7, NamesAssumption DEF WithId, Registered, Duplicates
  <2>4. \A q \in Pipe, x \in Client : Serving(q, x)' <=> Serving(q, x)
    BY <1>4, <1>7, <2>3 DEF Serving, Registered
  <2>5. c \in Member /\ Member' = Member
    BY <2>2, <2>4 DEF Member
  <2>6. \A q \in Pipe, x \in Client : Serving(q, x) /\ x # c => q # p
    BY <2>1 DEF Serving
  <2>7. ASSUME NEW d \in Member \ {c} PROVE IdOf[d] # id
    <3>1. PICK q \in Pipe : Serving(q, d)
      BY DEF Member
    <3>2. QED
      BY <1>1, <2>3, <2>6, <3>1 DEF MappedWell, IdsMapped, Member
  <2>8. ASSUME NEW x \in Client PROVE IdOf'[x] = IF x = c THEN id ELSE IdOf[x]
    <3>1. CASE x = c
      BY <1>1, <2>2, <2>3, <2>4, <3>1 DEF MappedWell, IdsMapped
    <3>2. ASSUME x # c, x \in Member PROVE IdOf'[x] = IdOf[x]
      <4>1. PICK q \in Pipe : Serving(q, x)
        BY <3>2 DEF Member
      <4>2. Serving(q, x)' /\ mClients'[q] = mClients[q]
        BY <2>3, <2>4, <2>6, <3>2, <4>1
      <4>3. QED
        BY <1>1, <4>1, <4>2 DEF MappedWell, IdsMapped
    <3>3. CASE x \notin Member
      BY <1>1, <2>5, <3>3 DEF MappedWell, IdsMapped
    <3>4. QED
      BY <2>5, <3>1, <3>2, <3>3
  <2>9. IdOf' = [IdOf EXCEPT ![c] = id]
    BY <2>8 DEF IdOf
  <2>10. Subscribed' = Subscribed
    BY <1>2, <1>4 DEF Subscribed
  <2>11. R!Take(c, id)
    BY <2>5, <2>7, <2>9, <2>10, MappedTake
  <2>12. QED
    BY <2>11
<1>8. QED
  BY <1>6, <1>7

\* A session that registers under an id with a holder replaces it; one without
\* an entry only makes the holder leave.
LEMMA RegisterReplaces ==
    ASSUME IInv, IInv', NEW p \in Pipe, NEW old \in Pipe, ReplaceRegister(p, old)
    PROVE  \/ \E c \in Client, id \in Id \cup {NoId}, d \in Client : R!Replace(c, d, id)
           \/ \E d \in Client : R!Leave(d)
<1>1. MappedWell /\ MappedWell'
  BY InvMaps, InvMapsNext
<1>2. /\ Receive(p, {"Register"}) /\ old \in Duplicates(p, NextMessage(p).id)
      /\ mClients' = WithId(WithoutClient(old), p, NextMessage(p).id)
      /\ mMessages' = WithoutSubscriber(old)
  BY DEF ReplaceRegister
<1>3. PICK id \in Id \cup {NoId} : id = NextMessage(p).id
  <2>1. NextMessage(p) \in ClientMessage /\ NextMessage(p).kind = "Register"
    BY <1>2, ReceiveType DEF IInv
  <2>2. QED
    BY <2>1, ClientMessageFields
<1>4. UNCHANGED <<link, up>> /\ up /\ Wake(p)
  BY <1>2 DEF Receive, Wake, Idle
<1>5. /\ mClients \in [Pipe -> Id \cup {NoId, Absent}]
      /\ mMessages \in [Type -> SUBSET Pipe]
      /\ link \in [Pipe -> Client \cup {NoClient}]
  BY DEF IInv, TypeOK
<1>6. old # p /\ mClients[old] = id /\ id # Absent
  BY <1>2, <1>3, NamesAssumption DEF Duplicates
<1>7. PICK d \in Client : Serving(old, d)
  <2>1. link[old] # NoClient
    BY <1>4, <1>6 DEF IInv, RegistryInv, EntriesBelongToSession, Registered
  <2>2. QED
    BY <1>4, <1>5, <1>6, <2>1 DEF Serving, Registered
<1>8. /\ mClients'[old] = Absent
      /\ \A q \in Pipe \ {old, p} : mClients'[q] = mClients[q]
      /\ mClients'[p] = IF Registered(p) THEN id ELSE mClients[p]
  BY <1>2, <1>3, <1>5, <1>6 DEF WithId, WithoutClient, Registered
<1>9. \A q \in Pipe \ {old}, t \in Type : q \in mMessages'[t] <=> q \in mMessages[t]
  BY <1>2, <1>5 DEF WithoutSubscriber
<1>10. \A q \in Pipe, x \in Client : Serving(q, x)' <=> Serving(q, x) /\ q # old
  BY <1>4, <1>6, <1>8 DEF Serving, Registered
<1>11. CASE ~Registered(p)
  <2>1. \A q \in Pipe \ {old} : SameEntry(q)
    BY <1>8, <1>9, <1>11 DEF SameEntry
  <2>2. R!Leave(d)
    BY <1>1, <1>7, <1>10, <2>1, Leaves
  <2>3. QED
    BY <2>2
<1>12. CASE Registered(p)
  <2>1. PICK c \in Client : c = link[p]
    BY <1>4, WakeRegistry
  <2>2. Serving(p, c) /\ c # d
    BY <1>1, <1>4, <1>6, <1>7, <1>12, <2>1 DEF Serving, MappedWell, ServedOnce
  <2>3. \A x \in Client \ {d}, q \in Pipe : Serving(q, x)' <=> Serving(q, x)
    <3>1. \A x \in Client \ {d} : ~Serving(old, x)
      BY <1>7 DEF Serving
    <3>2. QED
      BY <1>10, <3>1
  <2>4. \A q \in Pipe : ~Serving(q, d)'
    BY <1>1, <1>7, <1>10 DEF MappedWell, ServedOnce
  <2>5. d \in Member /\ c \in Member /\ Member' = Member \ {d}
    BY <1>7, <2>2, <2>3, <2>4 DEF Member
  <2>6. IdOf[d] = id
    BY <1>1, <1>6, <1>7 DEF MappedWell, IdsMapped
  <2>7. ASSUME NEW x \in Client
        PROVE  IdOf'[x] = IF x = d THEN NoId ELSE IF x = c THEN id ELSE IdOf[x]
    <3>1. CASE x = c
      BY <1>1, <1>8, <1>12, <2>2, <2>3, <3>1 DEF MappedWell, IdsMapped
    <3>2. ASSUME x # c, x \in Member' PROVE IdOf'[x] = IdOf[x] /\ x # d
      <4>1. PICK q \in Pipe : Serving(q, x)'
        BY <3>2 DEF Member
      <4>2. x # d /\ q # old /\ q # p /\ Serving(q, x)
        BY <1>10, <2>1, <2>4, <3>2, <4>1 DEF Serving
      <4>3. QED
        BY <1>1, <1>8, <4>1, <4>2 DEF MappedWell, IdsMapped
    <3>3. CASE x \notin Member'
      BY <1>1, <2>5, <3>3 DEF MappedWell, IdsMapped
    <3>4. QED
      BY <2>2, <2>5, <3>1, <3>2, <3>3
  <2>8. IdOf' = [IdOf EXCEPT ![c] = id, ![d] = NoId]
    BY <2>7 DEF IdOf
  <2>9. ASSUME NEW t \in Type PROVE Subscribed'[t] = Subscribed[t] \ {d}
    <3>1. \A x \in Client : x \in Subscribed'[t] <=> x \in Subscribed[t] /\ x # d
      BY <1>1, <1>9, <1>10, <2>3, <2>4 DEF MappedWell, SubscriptionsMapped
    <3>2. QED
      BY <3>1 DEF Subscribed
  <2>10. Subscribed' = [t \in Type |-> Subscribed[t] \ {d}]
    BY <2>9 DEF Subscribed
  <2>11. R!Replace(c, d, id)
    BY <2>2, <2>5, <2>6, <2>8, <2>10, MappedReplace
  <2>12. QED
    BY <2>11
<1>13. QED
  BY <1>11, <1>12

\* A session with an entry that subscribes follows the type.
LEMMA SubscribeFollows ==
    ASSUME IInv, IInv', NEW p \in Pipe, Subscribe(p)
    PROVE  (\E c \in Client, t \in Type : R!Follow(c, t)) \/ UNCHANGED R!vars
<1>1. MappedWell /\ MappedWell'
  BY InvMaps, InvMapsNext
<1>2. Receive(p, {"Subscribe"}) /\ UNCHANGED mClients
  BY DEF Subscribe
<1>3. PICK t \in Type : t = NextMessage(p).type
  <2>1. NextMessage(p) \in ClientMessage /\ NextMessage(p).kind = "Subscribe"
    BY <1>2, ReceiveType DEF IInv
  <2>2. QED
    BY <2>1, ClientMessageFields
<1>4. UNCHANGED <<link, up>> /\ Wake(p)
  BY <1>2 DEF Receive
<1>5. mMessages \in [Type -> SUBSET Pipe]
  BY DEF IInv, TypeOK
<1>6. CASE ~Registered(p)
  <2>1. UNCHANGED mMessages
    BY <1>6 DEF Subscribe
  <2>2. QED
    BY <1>2, <1>4, <2>1, QuietStutters
<1>7. CASE Registered(p)
  <2>1. PICK c \in Client : c = link[p]
    BY <1>4, WakeRegistry
  <2>2. Serving(p, c)
    BY <1>4, <1>7, <2>1, WakeRegistry DEF Serving
  <2>3. \A q \in Pipe, x \in Client : Serving(q, x)' <=> Serving(q, x)
    BY <1>2, <1>4 DEF Serving, Registered
  <2>4. c \in Member /\ Member' = Member
    BY <2>2, <2>3 DEF Member
  <2>5. IdOf' = IdOf
    <3>1. ASSUME NEW x \in Client PROVE IdOf'[x] = IdOf[x]
      <4>1. CASE x \in Member
        <5>1. PICK q \in Pipe : Serving(q, x)
          BY <4>1 DEF Member
        <5>2. Serving(q, x)' /\ mClients'[q] = mClients[q]
          BY <1>2, <2>3, <5>1
        <5>3. QED
          BY <1>1, <5>1, <5>2 DEF MappedWell, IdsMapped
      <4>2. CASE x \notin Member
        BY <1>1, <2>4, <4>2 DEF MappedWell, IdsMapped
      <4>3. QED
        BY <4>1, <4>2
    <3>2. QED
      BY <3>1 DEF IdOf
  <2>6. mMessages' = [mMessages EXCEPT ![t] = @ \cup {p}]
    BY <1>3, <1>7 DEF Subscribe
  <2>7. ASSUME NEW u \in Type
        PROVE  Subscribed'[u] = IF u = t THEN Subscribed[u] \cup {c} ELSE Subscribed[u]
    <3>1. \A q \in Pipe : q \in mMessages'[u] <=> q \in mMessages[u] \/ (u = t /\ q = p)
      BY <1>5, <2>6
    <3>2. \A x \in Client : Serving(p, x) <=> x = c
      BY <2>1, <2>2 DEF Serving
    <3>3. \A x \in Client : x \in Subscribed'[u] <=> x \in Subscribed[u] \/ (u = t /\ x = c)
      BY <1>1, <2>3, <3>1, <3>2 DEF MappedWell, SubscriptionsMapped
    <3>4. QED
      BY <3>3 DEF Subscribed
  <2>8. Subscribed' = [Subscribed EXCEPT ![t] = @ \cup {c}]
    BY <2>7 DEF Subscribed
  <2>9. R!Follow(c, t)
    BY <2>4, <2>5, <2>8, MappedFollow
  <2>10. QED
    BY <2>9
<1>8. QED
  BY <1>6, <1>7

\* A disconnect makes the session on the pipe leave, if it still has an entry.
LEMMA DisconnectLeaves ==
    ASSUME IInv, IInv', DisconnectAndReconnect
    PROVE  (\E d \in Client : R!Leave(d)) \/ UNCHANGED R!vars
<1>1. PICK p \in Pipe : p = Current.pipe
  BY CurrentCall DEF DisconnectAndReconnect, IInv
<1>2. up /\ up' /\ ClientDelete(p) /\ link' = [link EXCEPT ![p] = NoClient]
  BY <1>1 DEF DisconnectAndReconnect, Running, Relisten
<1>3. \A q \in Pipe \ {p} : link'[q] = link[q]
  BY <1>2 DEF IInv, TypeOK
<1>4. QED
  BY <1>2, <1>3, DeleteLeaves

\* The end of the process is the end of every session.
LEMMA RelockFails ==
    ASSUME IInv, IInv', RelockMutex
    PROVE  R!Fail
<1>1. MappedWell /\ MappedWell'
  BY InvMaps, InvMapsNext
<1>2. \A p \in Pipe, c \in Client : ~Serving(p, c)'
  BY DEF RelockMutex, Serving
<1>3. Member' = {}
  BY <1>2 DEF Member
<1>4. IdOf' = [c \in Client |-> NoId]
  BY <1>2 DEF IdOf
<1>5. ASSUME NEW t \in Type PROVE Subscribed'[t] = Subscribed[t] \ Member
  <2>1. \A c \in Client : c \notin Subscribed'[t]
    BY <1>1, <1>2 DEF MappedWell, SubscriptionsMapped
  <2>2. \A c \in Client : c \in Subscribed[t] => c \in Member
    BY <1>1 DEF MappedWell, SubscriptionsMapped, Member
  <2>3. QED
    BY <2>1, <2>2 DEF Subscribed
<1>6. Subscribed' = [t \in Type |-> Subscribed[t] \ Member]
  BY <1>5 DEF Subscribed
<1>7. QED
  BY <1>3, <1>4, <1>6, MappedFail

\* Every step of the broker is a step of the registry, or leaves it alone.
LEMMA StepMaps == IInv /\ IInv' /\ [Next]_vars => [R!Next]_(R!vars)
<1> SUFFICES ASSUME IInv, IInv', [Next]_vars PROVE R!Next \/ UNCHANGED R!vars
  BY DEF R!vars
<1>1. CASE UNCHANGED vars
  BY <1>1, QuietStutters DEF vars, kernelVars, brokerVars
<1>2. CASE ClientNext
  BY <1>2, ClientStutters
<1>3. ASSUME NEW p \in Pipe, Complete(p) PROVE R!Next \/ UNCHANGED R!vars
  <2>1. CASE AcceptConnect(p)
    BY <2>1, AcceptJoins DEF R!Next
  <2>2. CASE RejectConnect(p)
    <3>1. ClientDelete(p) /\ up /\ up' /\ UNCHANGED link
      BY <2>2 DEF RejectConnect, Wake, Idle, kernelVars
    <3>2. QED
      BY <3>1, DeleteLeaves DEF R!Next
  <2>3. CASE RejectRegister(p)
    <3>1. ClientDelete(p) /\ up /\ up' /\ UNCHANGED link
      BY <2>3 DEF RejectRegister, Receive, Wake, Idle
    <3>2. QED
      BY <3>1, DeleteLeaves DEF R!Next
  <2>4. CASE Register(p)
    BY <2>4, RegisterTakes DEF R!Next
  <2>5. CASE \E old \in Pipe : ReplaceRegister(p, old)
    BY <2>5, RegisterReplaces DEF R!Next
  <2>6. CASE Subscribe(p)
    BY <2>6, SubscribeFollows DEF R!Next
  <2>7. CASE \/ FailedRead(p) \/ ReceiveInvalid(p) \/ ReceiveReserved(p)
             \/ ReceiveBroadcast(p) \/ RelayUnicast(p) \/ BounceUnicast(p)
    <3>1. UNCHANGED <<link, up, mClients, mMessages>>
      BY <2>7 DEF FailedRead, CallsAfterReadError, ReceiveInvalid, ReceiveReserved,
           ReceiveBroadcast, RelayUnicast, BounceUnicast, Receive, kernelVars,
           brokerVars
    <3>2. QED
      BY <3>1, QuietStutters
  <2>8. QED
    BY <1>3, <2>1, <2>2, <2>3, <2>4, <2>5, <2>6, <2>7 DEF Complete
<1>4. CASE DisconnectAndReconnect
  BY <1>4, DisconnectLeaves DEF R!Next
<1>5. CASE RelockMutex
  BY <1>5, RelockFails DEF R!Next
<1>6. CASE \/ StartRead \/ WriteMessage \/ WriteFails
           \/ (\E p \in Pipe : BroadcastNext(p)) \/ BroadcastDone
  <2>1. UNCHANGED <<link, up, mClients, mMessages>>
    BY <1>6 DEF StartRead, WriteMessage, WriteFails, BroadcastNext, BroadcastDone,
                kernelVars, brokerVars
  <2>2. QED
    BY <2>1, QuietStutters
<1>7. QED
  BY <1>1, <1>2, <1>3, <1>4, <1>5, <1>6 DEF Next, ServerNext

-----------------------------------------------------------------------------
\* The broker implements the registry: whatever its callbacks call and
\* whatever fails, its sessions come and go, take ids and subscribe as
\* Registry allows, a session that goes taking everything with it at once.
THEOREM ImplementsRegistryHolds == Spec => ImplementsRegistry
<1>1. IInv /\ IInv' /\ [Next]_vars => [R!Next]_(R!vars)
  BY StepMaps
<1>2. QED
  BY <1>1, InitMaps, InductiveInvariant, PTL DEF Spec, ImplementsRegistry, R!Spec
=============================================================================

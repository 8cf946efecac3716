--------------------------- MODULE RegistryProofs ---------------------------
(***************************************************************************)
(* What Registry promises holds of it: whatever implements Registry keeps  *)
(* its ids and its subscriptions consistent.                               *)
(***************************************************************************)
EXTENDS Registry, TLAPS

\* The members, ids and subscriptions of the registry keep their types.
THEOREM TypeCorrect == Spec => []TypeOK
<1>1. Init => TypeOK
  BY DEF Init, TypeOK
<1>2. TypeOK /\ [Next]_vars => TypeOK'
  BY DEF TypeOK, Next, Join, Leave, Take, Replace, Follow, Fail, Without, vars
<1>3. QED
  BY <1>1, <1>2, PTL DEF Spec

\* An id has one holder at a time, and neither an id nor a subscription
\* outlives the session it was made for.
THEOREM ConsistentHolds == Spec => []Consistent
<1>1. Init => Consistent
  BY DEF Init, Consistent
<1>2. TypeOK /\ Consistent /\ [Next]_vars => Consistent'
  <2> SUFFICES ASSUME TypeOK, Consistent, [Next]_vars PROVE Consistent'
    OBVIOUS
  <2>1. CASE \E c \in Client : Join(c) \/ Leave(c)
    BY <2>1 DEF TypeOK, Consistent, Join, Leave, Without
  <2>2. CASE \E c \in Client, id \in Id \cup {NoId} : Take(c, id)
    BY <2>2 DEF TypeOK, Consistent, Take
  <2>3. ASSUME NEW c \in Client, NEW d \in Client, NEW id \in Id \cup {NoId},
               Replace(c, d, id)
        PROVE  Consistent'
    <3>1. \A x \in Client : idOf'[x] = IF x = d THEN NoId ELSE IF x = c THEN id ELSE idOf[x]
      BY <2>3 DEF TypeOK, Replace
    <3>2. \A x \in member \ {d} : idOf[x] = id => id = NoId
      BY <2>3 DEF TypeOK, Consistent, Replace
    <3>3. QED
      BY <2>3, <3>1, <3>2 DEF TypeOK, Consistent, Replace, Without
  <2>4. CASE \E c \in Client, t \in Type : Follow(c, t)
    BY <2>4 DEF TypeOK, Consistent, Follow
  <2>5. CASE Fail
    BY <2>5 DEF TypeOK, Consistent, Fail, Without
  <2>6. CASE UNCHANGED vars
    BY <2>6 DEF Consistent, vars
  <2>7. QED
    BY <2>1, <2>2, <2>3, <2>4, <2>5, <2>6 DEF Next
<1>3. QED
  BY <1>1, <1>2, TypeCorrect, PTL DEF Spec
=============================================================================

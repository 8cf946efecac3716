------------------------------ MODULE Channel ------------------------------
(***************************************************************************)
(* What the pipe server promises a host that calls it in callbacks only,   *)
(* without events, overlapped operations, buffers, stacks or fields.       *)
(* Each pipe serves one connection at a time.  What its client writes is   *)
(* given to OnMessage in the order it was written, each message at most    *)
(* once and none left out, one message at a time, and stays what it is as  *)
(* long as OnMessage has it.  A connection ends only after the host has    *)
(* been told so, and what it had written and nobody was given goes with    *)
(* it, never to the next client of the pipe.  PipeServer implements this.  *)
(***************************************************************************)
EXTENDS Sequences

CONSTANTS Pipe, Client, NoClient, Message, NoMessage

VARIABLES
    peer,      \* peer[p]: the client whose connection p serves, or NoClient
    sent,      \* sent[p]: what that client has written and nobody was given
    given,     \* given[p]: the message OnMessage has from p, or NoMessage
    told       \* pipes whose OnDisconnect has been called and not acted upon

vars == <<peer, sent, given, told>>

TypeOK ==
    /\ peer \in [Pipe -> Client \cup {NoClient}]
    /\ sent \in [Pipe -> Seq(Message)]
    /\ given \in [Pipe -> Message \cup {NoMessage}]
    /\ told \subseteq Pipe

Init ==
    /\ peer = [p \in Pipe |-> NoClient]
    /\ sent = [p \in Pipe |-> <<>>]
    /\ given = [p \in Pipe |-> NoMessage]
    /\ told = {}

Attach(p, c) ==
    /\ peer[p] = NoClient /\ sent[p] = <<>>
    /\ \A q \in Pipe : peer[q] # c
    /\ peer' = [peer EXCEPT ![p] = c]
    /\ UNCHANGED <<sent, given, told>>

Write(p, m) ==
    /\ peer[p] # NoClient
    /\ sent' = [sent EXCEPT ![p] = Append(@, m)]
    /\ UNCHANGED <<peer, given, told>>

\* OnMessage is called with the oldest message, and returns.
Gives(p) ==
    /\ sent[p] # <<>>
    /\ \A q \in Pipe : given[q] = NoMessage
    /\ sent' = [sent EXCEPT ![p] = Tail(@)]
    /\ given' = [given EXCEPT ![p] = Head(sent[p])]
    /\ UNCHANGED <<peer, told>>

TakesBack(p) ==
    /\ given[p] # NoMessage
    /\ given' = [given EXCEPT ![p] = NoMessage]
    /\ UNCHANGED <<peer, sent, told>>

Tells(p) ==
    /\ told' = told \cup {p}
    /\ UNCHANGED <<peer, sent, given>>

\* OnDisconnect may call the server itself, so that the host is told twice.
Ends(p) ==
    /\ p \in told
    /\ peer' = [peer EXCEPT ![p] = NoClient]
    /\ sent' = [sent EXCEPT ![p] = <<>>]
    /\ told' \in {told, told \ {p}}
    /\ UNCHANGED given

Next ==
    \E p \in Pipe :
        \/ \E c \in Client : Attach(p, c)
        \/ \E m \in Message : Write(p, m)
        \/ Gives(p) \/ TakesBack(p) \/ Tells(p) \/ Ends(p)

Spec == Init /\ [][Next]_vars
=============================================================================

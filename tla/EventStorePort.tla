--------------------------- MODULE EventStorePort ---------------------------
(***************************************************************************)
(* What EventStorePort promises of any adapter: the store is the events    *)
(* whose append has returned, in that order, and a read observes every     *)
(* append that happened before it.  A read may also observe later ones; it *)
(* may fail.                                                               *)
(***************************************************************************)
EXTENDS Integers, Sequences

CONSTANTS Clients, Events

VARIABLES
  accepted,  \* the events appended so far
  reading,   \* the clients that wait for an answer
  since,     \* how many events were accepted when a client's last read began
  answer     \* what that read returned

vars == <<accepted, reading, since, answer>>

Returned(events) == [ok |-> TRUE, events |-> events]
Failed == [ok |-> FALSE, events |-> <<>>]

Init ==
  /\ accepted = <<>>
  /\ reading = {}
  /\ since = [c \in Clients |-> 0]
  /\ answer = [c \in Clients |-> Failed]

Accept ==
  /\ \E e \in Events : accepted' = Append(accepted, e)
  /\ UNCHANGED <<reading, since, answer>>

BeginRead(c) ==
  /\ c \notin reading
  /\ reading' = reading \cup {c}
  /\ since' = [since EXCEPT ![c] = Len(accepted)]
  /\ UNCHANGED <<accepted, answer>>

EndRead(c) ==
  /\ c \in reading
  /\ reading' = reading \ {c}
  /\ \E n \in since[c]..Len(accepted) :
       answer' = [answer EXCEPT ![c] = Returned(SubSeq(accepted, 1, n))]
  /\ UNCHANGED <<accepted, since>>

FailRead(c) ==
  /\ c \in reading
  /\ reading' = reading \ {c}
  /\ answer' = [answer EXCEPT ![c] = Failed]
  /\ UNCHANGED <<accepted, since>>

Next == Accept \/ \E c \in Clients : BeginRead(c) \/ EndRead(c) \/ FailRead(c)

Spec == Init /\ [][Next]_vars
=============================================================================

--------------------------- MODULE MessageChannel ---------------------------
(***************************************************************************)
(* What send and recv of a Connection (net.h) promise together: a channel  *)
(* of whole messages in both directions.  A receiver gets the messages of  *)
(* its peer in the order of sending, each one whole and once, or stops     *)
(* getting any.  An end that is closed neither sends nor receives.         *)
(***************************************************************************)
EXTENDS Naturals, Sequences

CONSTANTS Ends, Peer(_), Messages

VARIABLES
  sent,       \* sent[e]: the messages end e has sent, oldest first
  delivered,  \* delivered[e]: the messages it was given
  closed      \* closed[e]: the end is closed

vars == <<sent, delivered, closed>>

Init ==
  /\ sent = [e \in Ends |-> <<>>]
  /\ delivered = [e \in Ends |-> <<>>]
  /\ closed = [e \in Ends |-> FALSE]

Send(e, m) ==
  /\ ~closed[e]
  /\ sent' = [sent EXCEPT ![e] = Append(@, m)]
  /\ UNCHANGED <<delivered, closed>>

Deliver(e) ==
  LET k == Len(delivered[e]) + 1
  IN  /\ ~closed[e]
      /\ k <= Len(sent[Peer(e)])
      /\ delivered' = [delivered EXCEPT ![e] = Append(@, sent[Peer(e)][k])]
      /\ UNCHANGED <<sent, closed>>

Close(e) ==
  /\ closed' = [closed EXCEPT ![e] = TRUE]
  /\ UNCHANGED <<sent, delivered>>

Next == \E e \in Ends : Deliver(e) \/ Close(e) \/ \E m \in Messages : Send(e, m)

Spec == Init /\ [][Next]_vars

=============================================================================

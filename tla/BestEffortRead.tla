--------------------------- MODULE BestEffortRead ---------------------------
(***************************************************************************)
(* What a query for a list of reference ids promises, without goroutines,  *)
(* semaphores, slots or counters: every position of the list is settled    *)
(* once, in any order and independently of the others, with events that a  *)
(* read of its reference id may yield; when all are settled the response   *)
(* lists the events of all positions, position by position.  A read may    *)
(* fail in part or altogether: it then yields fewer events, and the        *)
(* response does not tell.                                                 *)
(***************************************************************************)
EXTENDS Naturals, Sequences

CONSTANTS
  Requests,      \* the lists of reference ids that clients send
  Yields(_, _)   \* Yields(r, events): a read of r may yield events

VARIABLES
  request,   \* the list of reference ids
  part,      \* part[i]: whether position i is settled, and with what events
  reply      \* the response

vars == <<request, part, reply>>

Unsettled       == [settled |-> FALSE, events |-> <<>>]
Settled(events) == [settled |-> TRUE, events |-> events]
NoReply         == [status |-> "none"]
Error           == [status |-> "error"]

(* The events of all the parts: the k-th event of position i is <<i, k>>.  *)
Places == UNION {{i} \X DOMAIN part[i].events : i \in DOMAIN request}

Earlier(p, q) == p[1] < q[1] \/ (p[1] = q[1] /\ p[2] < q[2])

(* events is the parts put one after the other.                            *)
Concatenates(events) ==
  \E place \in [DOMAIN events -> Places] :
    /\ \A k, l \in DOMAIN events : k < l => Earlier(place[k], place[l])
    /\ \A p \in Places : \E k \in DOMAIN events : place[k] = p
    /\ \A k \in DOMAIN events : events[k] = part[place[k][1]].events[place[k][2]]

Init ==
  /\ request \in Requests
  /\ part = [i \in DOMAIN request |-> Unsettled]
  /\ reply = NoReply

Settle(i) ==
  /\ ~part[i].settled
  /\ reply = NoReply
  /\ Yields(request[i], part'[i].events)
  /\ part' = [part EXCEPT ![i] = Settled(part'[i].events)]
  /\ UNCHANGED <<request, reply>>

Answer ==
  /\ request # <<>>
  /\ \A i \in DOMAIN request : part[i].settled
  /\ reply = NoReply
  /\ reply'.status = "ok"
  /\ Concatenates(reply'.events)
  /\ UNCHANGED <<request, part>>

Reject ==
  /\ request = <<>>
  /\ reply = NoReply
  /\ reply' = Error
  /\ UNCHANGED <<request, part>>

Next == (\E i \in DOMAIN request : Settle(i)) \/ Answer \/ Reject

Spec == Init /\ [][Next]_vars
=============================================================================

-------------------------- MODULE LookupRefinement --------------------------
(***************************************************************************)
(* Lookup implements BestEffortRead: a position is settled when its        *)
(* goroutine is done, with the events it has collected.                    *)
(***************************************************************************)
EXTENDS Lookup

(* A read of r yields lines that the pointers of one answer of its shard   *)
(* name, read from the bucket, in the order of the answer; entries may be  *)
(* missing, but nothing else appears and nothing appears twice.            *)
YieldsLines(r, evs) ==
  \/ evs = <<>>
  \/ \E answer \in Answers[r] : \E entry \in [DOMAIN evs -> DOMAIN answer] :
       /\ \A k, l \in DOMAIN evs : k < l => entry[k] < entry[l]
       /\ \A k \in DOMAIN evs : /\ Readable(answer[entry[k]])
                                /\ ReadSlot(answer[entry[k]], r) = Found(evs[k])

partOf == [i \in DOMAIN request |->
             IF ref[i] = "done" THEN [settled |-> TRUE, events |-> out[i]]
                                ELSE [settled |-> FALSE, events |-> <<>>]]

Abstract == INSTANCE BestEffortRead WITH
              Yields <- YieldsLines,
              part   <- partOf,
              reply  <- reply

(* Whatever the shards, S3 and the scheduler do, a query behaves like a    *)
(* best-effort read: positions are settled independently, and the response *)
(* concatenates them in the order of the request (service.go:185-192).     *)
ImplementsBestEffortRead == Abstract!Spec
=============================================================================

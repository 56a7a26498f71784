------------------------------ MODULE Delivery ------------------------------
(***************************************************************************)
(* What a Logr promises about the records it accepts, without its queues,  *)
(* goroutines and locks.  A record gets the next number when it is         *)
(* accepted; a target receives a subsequence of the accepted records of    *)
(* the levels its filter enables.  Records may be lost (full queues,       *)
(* errors, panics, targets that are removed): the promise is about order,  *)
(* duplicates and levels.                                                  *)
(***************************************************************************)
EXTENDS Naturals, Sequences

CONSTANTS Hosts, Levels, Filter

VARIABLES
    accepted,   \* levels of the accepted records
    delivered   \* delivered[h]: the numbers of the records written to h

Init == accepted = <<>> /\ delivered = [h \in Hosts |-> <<>>]

Accept(l) == accepted' = Append(accepted, l) /\ UNCHANGED delivered

Deliver(h, n) ==
    /\ accepted[n] \in Filter[h]
    /\ \A i \in DOMAIN delivered[h] : delivered[h][i] < n
    /\ delivered' = [delivered EXCEPT ![h] = Append(@, n)]
    /\ UNCHANGED accepted

Next ==
    \/ \E l \in Levels : Accept(l)
    \/ \E h \in Hosts : \E n \in 1 .. Len(accepted) : Deliver(h, n)

Spec == Init /\ [][Next]_<<accepted, delivered>>

=============================================================================

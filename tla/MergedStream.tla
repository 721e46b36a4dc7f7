---------------------------- MODULE MergedStream ----------------------------
(***************************************************************************)
(* What a stream of range or watch responses promises to the caller who    *)
(* reads its channel, with no RPCs, goroutines or channels: each source    *)
(* (a partition of the range) delivers its responses in order and none     *)
(* twice, and the stream ends when all of them are complete, after an      *)
(* error that the caller has seen, or when the caller has given it up.     *)
(***************************************************************************)
EXTENDS Naturals, Sequences

CONSTANTS Sources      \* the partitions of the range

VARIABLES length,      \* length[s]: how many responses source s has
          delivered,   \* delivered[s]: the numbers of those the caller has
          failed,      \* the caller has seen an error
          ended,       \* the caller has seen the end of the stream
          cancelled    \* the caller has given the stream up

streamVars == <<length, delivered, failed, ended, cancelled>>

Init == /\ length \in [Sources -> Nat]
        /\ delivered = [s \in Sources |-> <<>>]
        /\ failed = FALSE
        /\ ended = FALSE
        /\ cancelled = FALSE

\* The next response of a source; it may carry an error of the server.
Deliver(s) == /\ ~ended
              /\ Len(delivered[s]) < length[s]
              /\ delivered' = [delivered EXCEPT ![s] = Append(@, Len(@) + 1)]
              /\ failed' \in {failed, TRUE}
              /\ UNCHANGED <<length, ended, cancelled>>

\* An error that is not in a response.
Fail == /\ ~ended
        /\ failed' = TRUE
        /\ UNCHANGED <<length, delivered, ended, cancelled>>

\* The caller does not want the rest.
Cancel == /\ cancelled' = TRUE
          /\ UNCHANGED <<length, delivered, failed, ended>>

\* Complete, an error, or given up.
End == /\ ~ended
       /\ failed \/ cancelled \/ \A s \in Sources : Len(delivered[s]) = length[s]
       /\ ended' = TRUE
       /\ UNCHANGED <<length, delivered, failed, cancelled>>

Next == (\E s \in Sources : Deliver(s)) \/ Fail \/ Cancel \/ End

Spec == Init /\ [][Next]_streamVars
=============================================================================

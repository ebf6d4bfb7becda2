--------------------------- MODULE ReplicatedLog ---------------------------
(***************************************************************************)
(* What a cluster of engines promises the state machines of its nodes: one *)
(* sequence of chosen entries that only grows, of which every node has     *)
(* committed a prefix that only grows.  Nothing here says how entries get  *)
(* chosen; RaftEngine is shown to implement this specification under the   *)
(* mapping it defines (RaftEngine!ImplementsReplicatedLog).                *)
(***************************************************************************)
EXTENDS Sequences, SequencesExt

CONSTANTS Nodes         \* the node ids

VARIABLES
    chosen,             \* the entries chosen so far, in order
    delivered           \* delivered[n]: the entries node n has committed

vars == <<chosen, delivered>>

Init ==
    /\ chosen = <<>>
    /\ delivered = [n \in Nodes |-> <<>>]

\* More entries are chosen, and nodes commit more of what is chosen.  One
\* step may do both: a leader chooses an entry by committing it.
Advance ==
    /\ IsPrefix(chosen, chosen')
    /\ \A n \in Nodes :
        /\ IsPrefix(delivered[n], delivered'[n])
        /\ IsPrefix(delivered'[n], chosen')

Next == Advance

Spec == Init /\ [][Next]_vars
=============================================================================

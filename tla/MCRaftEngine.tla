---------------------------- MODULE MCRaftEngine ----------------------------
(***************************************************************************)
(* RaftEngine for a cluster of three nodes.                                *)
(***************************************************************************)
EXTENDS RaftEngine, TLC

CONSTANTS n1, n2, n3

\* Every node is initialized with the same membership: all three vote.
AllVote == {[configs |-> <<{n1, n2, n3}>>, learners |-> {}]}

\* The sets of nodes an operator initializes or whose election timer fires.
Nobody == {}

OnlyFirst == {n1}

OnlySecond == {n2}

FirstTwo == {n1, n2}

OnlyThird == {n3}

LastTwo == {n2, n3}

EveryNode == {n1, n2, n3}

\* Every node reaches every other node.
AllLinks == {<<a, b>> \in {n1, n2, n3} \X {n1, n2, n3} : a # b}

\* The link between n1 and n3 is down, in both directions.
Chain == AllLinks \ {<<n1, n3>>, <<n3, n1>>}

\* The chain, and n3 reaches n1 while n1 does not reach n3.
ChainAndBack == Chain \cup {<<n3, n1>>}

\* No request is sent, no index is purged up to, no membership change is
\* asked for.
Nothing == {}

\* The kinds of requests of a run.
OnlyEntries == {"entries"}

ProbeAndEntries == {"probe", "entries"}

\* Replication by entries and by heartbeats (which carry no entry).
EntriesAndHeartbeat == {"entries", "heartbeat"}

EveryKind == {"probe", "tail", "entries", "heartbeat"}

\* The indexes an application asks to purge up to.
PurgeAtOneOrTwo == {1, 2}

\* The voters change to n1 and n2.
DropThird == {{n1, n2}}

\* The voters change to one node: the first leader, or the node that may
\* be elected after it.
ShrinkToOne == {{n1}, {n2}}

\* Where n1 and n2 are the initializers and the electors and every link is
\* up, the two are interchangeable.
FirstTwoSymmetry == Permutations({n1, n2})

\* Where n1 alone is initialized, nobody else starts an election and every
\* link is up, n2 and n3 are interchangeable.
OthersSymmetry == Permutations({n2, n3})

\* A state constraint that narrows the search for a long counterexample: at
\* most three messages are in flight (an election sends three), n1 writes
\* one entry beyond its blank one, n2 stands for term 2 only and n3 for
\* term 3 only.
NarrowSearch ==
    /\ Cardinality(messages) <= 3
    /\ Len(engine[n1].log) <= 3
    /\ engine[n2].candidate # None => engine[n2].candidate.vote.term = 2
    /\ engine[n3].candidate # None => engine[n3].candidate.vote.term = 3
----------------------------------------------------------------------------
(* Definitions of the run that holds the code against the words of spec.md. *)

\* spec.md section 3 words the order of votes as lexicographic on
\* (term, committed, node).
NodeRank(node) == CASE node = n1 -> 1 [] node = n2 -> 2 [] node = n3 -> 3 [] OTHER -> 0

LexVoteGT(a, b) ==
    \/ a.term > b.term
    \/ a.term = b.term /\ a.committed /\ ~b.committed
    \/ a.term = b.term /\ a.committed = b.committed /\ NodeRank(a.node) > NodeRank(b.node)

=============================================================================

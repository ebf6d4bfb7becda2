----------------------------- MODULE RaftTypes -----------------------------
(***************************************************************************)
(* The value types the engine and the membership state are written over:   *)
(* log ids, votes, memberships and quorums.  These types live outside the  *)
(* three source files of this repository; they are modelled from spec.md   *)
(* section 3 and from the way engine_impl.rs and membership_state.rs use   *)
(* them.                                                                   *)
(***************************************************************************)
EXTENDS Integers, FiniteSets, Sequences, Functions

(***************************************************************************)
(* Option<LogId>.  `None` is the record below, so that the derived order   *)
(* puts None under every log id and next_index(None) = 0, as               *)
(* LogIdOptionExt does.                                                    *)
(***************************************************************************)
NoLogId == [term |-> -1, index |-> -1]

LogIdOf(term, index) == [term |-> term, index |-> index]

\* Lexicographic order on (term, index).
LogIdLT(a, b) == a.term < b.term \/ (a.term = b.term /\ a.index < b.index)

LogIdLE(a, b) == a = b \/ LogIdLT(a, b)

LogIdMax(a, b) == IF LogIdLT(a, b) THEN b ELSE a

LogIdMin(a, b) == IF LogIdLT(a, b) THEN a ELSE b

NextIndex(logId) == logId.index + 1

(***************************************************************************)
(* Vote = (term, voted-for node, committed).  The zero vote names no node. *)
(***************************************************************************)
NoNode == "NoNode"

ZeroVote == [term |-> 0, node |-> NoNode, committed |-> FALSE]

NewVote(term, node) == [term |-> term, node |-> node, committed |-> FALSE]

CommitVote(v) == [v EXCEPT !.committed = TRUE]

\* The two votes name the same leader (term and node), whatever their
\* committed flags.
SameLeader(a, b) == a.term = b.term /\ a.node = b.node

(***************************************************************************)
(* The order on votes.  A higher term wins; within a term a committed vote *)
(* outranks an uncommitted one.  Two uncommitted votes of one term for     *)
(* different nodes are not ordered: a node that granted (t, a) must refuse *)
(* (t, b), or two candidates could both gather a quorum in term t.         *)
(* spec.md section 3 words the order as lexicographic on (term, committed, *)
(* node); LexVoteGT of MCRaftEngine is that wording, and run `lexvote`     *)
(* shows it contradicts election safety (spec.md section 8, invariant 8).  *)
(***************************************************************************)
VoteGT(a, b) == a.term > b.term \/ (a.term = b.term /\ a.committed /\ ~b.committed)

VoteGE(a, b) == a = b \/ VoteGT(a, b)

(***************************************************************************)
(* Membership: a joint configuration (a sequence of voter sets) and the    *)
(* learners.  The node map of the code is the union of both.               *)
(***************************************************************************)
EmptyMembership == [configs |-> <<>>, learners |-> {}]

VoterIds(m) == UNION Range(m.configs)

\* Membership::contains: the node has an entry in the node map.
MembershipContains(m, n) == n \in VoterIds(m) \cup m.learners

\* spec.md section 3: a voter is in every voter set.  A membership without a
\* configuration has no voter.
IsVoter(m, n) == m.configs # <<>> /\ \A c \in Range(m.configs) : n \in c

\* A set of nodes is a quorum of a joint configuration when it holds a
\* majority of every voter set.
IsQuorum(configs, granted) ==
    \A c \in Range(configs) : 2 * Cardinality(c \cap granted) > Cardinality(c)

(***************************************************************************)
(* Membership::next_safe: the next step of a joint-consensus change to     *)
(* `goal`.  From a configuration that already holds `goal` the step is the *)
(* uniform configuration; otherwise it is the joint of the last voter set  *)
(* and the goal.  A removed voter stays as a learner when `retain` is set. *)
(***************************************************************************)
NextSafe(m, goal, retain) ==
    LET last    == m.configs[Len(m.configs)]
        configs == IF goal \in Range(m.configs) THEN <<goal>> ELSE <<last, goal>>
        voters  == UNION Range(configs)
        known   == IF retain THEN VoterIds(m) \cup m.learners ELSE voters \cup m.learners
    IN  [configs |-> configs, learners |-> known \ voters]

\* EffectiveMembership: a membership and the id of the log entry holding it.
EffectiveMembershipOf(logId, m) == [log_id |-> logId, membership |-> m]

NoEffectiveMembership == EffectiveMembershipOf(NoLogId, EmptyMembership)
=============================================================================

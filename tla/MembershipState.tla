-------------------------- MODULE MembershipState --------------------------
(***************************************************************************)
(* membership/membership_state.rs: the two membership configs a node keeps *)
(* (the last committed one and the effective one) and the operations the   *)
(* engine applies to them.  Every operator is a pure function from a       *)
(* MembershipState record [committed, effective] to the next one; the      *)
(* debug assertions of the code are the *Asserts operators, which the      *)
(* engine records when they fail.                                          *)
(***************************************************************************)
EXTENDS RaftTypes

\* MembershipState::new
MSNew(committed, effective) == [committed |-> committed, effective |-> effective]

\* MembershipState::default
MSDefault == MSNew(NoEffectiveMembership, NoEffectiveMembership)

\* MembershipState::is_voter
MSIsVoter(ms, id) == IsVoter(ms.effective.membership, id)

\* Faulty variant of next_membership: a change in progress is not noticed.
NextMembershipErrorIgnoringProgress(ms, newVoterIds) ==
    IF newVoterIds = {} THEN "EmptyMembership"
    ELSE IF \E id \in newVoterIds : ~MembershipContains(ms.effective.membership, id)
         THEN "LearnerNotFound"
    ELSE "Ok"

(***************************************************************************)
(* next_membership: the three rejections, in the order of the code.  The   *)
(* change is given by the voter set it asks for (changes.apply_to(last));  *)
(* the result is "Ok" or the name of the error.                            *)
(***************************************************************************)
NextMembershipError(ms, newVoterIds) ==
    IF newVoterIds = {} THEN "EmptyMembership"
    ELSE IF \E id \in newVoterIds : ~MembershipContains(ms.effective.membership, id)
         THEN "LearnerNotFound"
    ELSE IF ms.committed.log_id # ms.effective.log_id THEN "InProgress"
    ELSE "Ok"

NextMembership(ms, newVoterIds, removedToLearner) ==
    NextSafe(ms.effective.membership, newVoterIds, removedToLearner)

\* commit: the effective membership becomes the committed one once the
\* committed log id has reached it.
MSCommitAsserts(ms, committedLogId) ==
    LogIdLE(ms.effective.log_id, committedLogId)
        => committedLogId.index >= ms.effective.log_id.index

\* Faulty variant of commit: the effective config is committed whether or
\* not the committed log id has reached it.
MSCommitUnconditional(ms, committedLogId) == [ms EXCEPT !.committed = ms.effective]

\* Faulty variant of commit: the effective config is committed only by a
\* later entry.
MSCommitByLaterEntry(ms, committedLogId) ==
    IF LogIdLT(ms.effective.log_id, committedLogId) THEN [ms EXCEPT !.committed = ms.effective] ELSE ms

MSCommit(ms, committedLogId) ==
    IF LogIdLE(ms.effective.log_id, committedLogId)
    THEN [ms EXCEPT !.committed = ms.effective]
    ELSE ms

(***************************************************************************)
(* update_committed: a committed membership `c` arrives (from a snapshot). *)
(* The effective config is compared by index, the committed one by log id. *)
(***************************************************************************)
MSUpdateCommittedAsserts(ms, c) ==
    c.log_id = ms.committed.log_id => c.membership = ms.committed.membership

MSUpdateCommitted(ms, c) ==
    [committed |-> IF LogIdLT(ms.committed.log_id, c.log_id) THEN c ELSE ms.committed,
     effective |-> IF c.log_id.index >= ms.effective.log_id.index THEN c ELSE ms.effective]

\* append: a membership entry is appended to the log; the previous
\* effective config is taken to be committed.
MSAppendAsserts(ms, m) ==
    /\ LogIdLT(ms.effective.log_id, m.log_id)
    /\ m.log_id.index > ms.effective.log_id.index

MSAppend(ms, m) == [committed |-> ms.effective, effective |-> m]

\* truncate: the log is cut from index `since` on; an effective config in
\* the cut part reverts to the committed one.
MSTruncateAsserts(ms, since) == since >= NextIndex(ms.committed.log_id)

\* Faulty variant of truncate: a cut that starts at the effective config
\* itself does not revert it.
MSTruncateOffByOne(ms, since) ==
    IF since < ms.effective.log_id.index
    THEN [ms EXCEPT !.effective = ms.committed]
    ELSE ms

MSTruncate(ms, since) ==
    IF since <= ms.effective.log_id.index
    THEN [ms EXCEPT !.effective = ms.committed]
    ELSE ms

\* Validate::validate
MSValidate(ms) ==
    /\ LogIdLE(ms.committed.log_id, ms.effective.log_id)
    /\ ms.committed.log_id.index <= ms.effective.log_id.index
=============================================================================

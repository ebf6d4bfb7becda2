----------------------------- MODULE RaftEngine -----------------------------
(***************************************************************************)
(* engine/engine_impl.rs: the Raft engine of every node of a cluster, and  *)
(* the runtime and network that drive the engines.                         *)
(*                                                                         *)
(* The state of one engine is a record (the fields of Engine and of its    *)
(* RaftState).  Each function of the engine is an operator from the record *)
(* before the call to the record after it, so that a handler that calls    *)
(* other handlers is the composition of their operators.  An action of the *)
(* cluster is one event the runtime feeds to one engine; the messages the  *)
(* event's commands send are added to `messages`, the set of messages in   *)
(* flight.  A message is delivered at any later time or never, in any      *)
(* order, and up to MaxDuplicates deliveries leave the message in flight   *)
(* to be delivered again.                                                  *)
(***************************************************************************)
EXTENDS MembershipState, SequencesExt

CONSTANTS
    Nodes,          \* the node ids
    MaxTerm,        \* no election starts a term beyond this one
    MaxLogLen,      \* a leader takes no write into a log of this length
    MaxRestarts,    \* how many times nodes restart, in total
    MaxDuplicates,  \* how many times a message is delivered again or re-sent, in total
    Initializers,   \* the nodes an operator may call initialize on
    InitMembers,    \* the memberships an operator may initialize a node with
    Electors,       \* the nodes whose election timer may fire
    Requests,       \* the kinds of append-entries requests leaders send
    Links,          \* the pairs <<from, to>> of nodes between which the network is up
    Goals,          \* the voter sets a membership change may ask for
    Snapshotters,   \* the nodes whose state machine builds snapshots
    PurgeIndexes,   \* the indexes an operator may call trigger_purge_log with
    MaxInSnapshotLogToKeep  \* config: how many entries of a snapshot the log keeps

VARIABLES
    engine,         \* engine[n]: the Engine of node n
    messages,       \* the RPC requests and responses in flight
    restarts,       \* the number of restarts so far
    duplicates,     \* the number of repeated deliveries so far
    chosen          \* history: chosen[i + 1] is the entry first committed at index i

vars == <<engine, messages, restarts, duplicates, chosen>>

\* The absent value of an Option<Leader> or Option<Candidate>.
None == [none |-> TRUE]

----------------------------------------------------------------------------
(* The log: the entries after the last purged one, in the order of their  *)
(* indexes.  Of the purged part the log keeps the last log id.            *)

MembershipEntry(logId, m) == [log_id |-> logId, kind |-> "membership", membership |-> m]

\* Where the entry with this index is in e.log.
Position(e, index) == index - e.last_purged_log_id.index

last_log_id(e) == IF e.log = <<>> THEN e.last_purged_log_id ELSE Last(e.log).log_id

get_log_id(e, index) ==
    IF Position(e, index) \in DOMAIN e.log THEN e.log[Position(e, index)].log_id
    ELSE IF index = e.last_purged_log_id.index THEN e.last_purged_log_id
    ELSE NoLogId

\* Faulty variant of has_log_id: an entry at the index is enough.
has_log_id_by_index(e, logId) == logId.index <= last_log_id(e).index

\* RaftState::has_log_id: every id up to the committed index counts as
\* present; beyond it the log must hold exactly this id.
has_log_id(e, logId) ==
    \/ logId.index <= e.committed.index
    \/ (logId # NoLogId /\ get_log_id(e, logId.index) = logId)

\* A failed assertion or unwrap is recorded with the name of its site.
Check(e, ok, site) == IF ok THEN e ELSE [e EXCEPT !.failed = @ \cup {site}]

----------------------------------------------------------------------------
(* Server state and vote handling. *)

\* RaftState::is_leading and is_leader: the vote is for this node, which is
\* still a member; a leader's vote is committed as well.
is_leading(e, id) ==
    /\ MembershipContains(e.membership_state.effective.membership, id)
    /\ e.vote.node = id

is_leader(e, id) == is_leading(e, id) /\ e.vote.committed

\* Engine::calc_server_state hands over to RaftState::calc_server_state,
\* which spec.md section 4.7 describes.
calc_server_state(e, id) ==
    IF ~MSIsVoter(e.membership_state, id) THEN "Learner"
    ELSE IF is_leader(e, id) THEN "Leader"
    ELSE IF is_leading(e, id) THEN "Candidate"
    ELSE "Follower"

update_server_state_if_changed(e, id) == [e EXCEPT !.server_state = calc_server_state(e, id)]

\* A fresh Leader: nothing is known to match on any node.
new_leader(vote) == [vote |-> vote, matching |-> [n \in Nodes |-> NoLogId]]

\* Leader and Candidate are kept while this node is leading and are cleared
\* once the vote is for another node or the node is no longer a member.  A
\* node whose vote says it is the committed leader and that has no Leader
\* (after a restart) gets one.
update_internal_server_state(e, id) ==
    update_server_state_if_changed(
        IF ~is_leading(e, id) THEN [e EXCEPT !.leader = None, !.candidate = None]
        ELSE IF e.vote.committed /\ e.leader = None THEN [e EXCEPT !.leader = new_leader(e.vote)]
        ELSE e,
        id)

update_last_seen(e, vote) ==
    IF VoteGT(vote, e.last_seen_vote) THEN [e EXCEPT !.last_seen_vote = vote] ELSE e

\* update_vote: a vote below the current one is rejected and changes nothing.
\* Otherwise it is stored, what was accepted from another leader no longer
\* counts, and the leading state follows the vote.
vote_is_accepted(e, vote) == VoteGE(vote, e.vote)

update_vote(e, id, vote) ==
    LET e1 == [e EXCEPT !.vote = vote, !.accepted = IF SameLeader(vote, e.vote) THEN @ ELSE NoLogId]
    IN  IF ~vote_is_accepted(e, vote) THEN e
        ELSE update_internal_server_state(update_last_seen(e1, vote), id)

----------------------------------------------------------------------------
(* The leader: appending and committing. *)

\* leader_handler() is Ok: there is a Leader and a quorum accepted its vote.
leader_handler_ok(e) == e.leader # None /\ e.leader.vote.committed

\* Faulty variant of forward_to_leader: the leader of the vote is named
\* whether or not it is a member.
forward_to_leader_unchecked(e) == IF e.vote.committed THEN e.vote.node ELSE NoNode

\* RaftState::forward_to_leader, the answer to a request that
\* leader_handler refuses: the node of a committed vote, if the effective
\* membership has it.
forward_to_leader(e) ==
    IF e.vote.committed /\ MembershipContains(e.membership_state.effective.membership, e.vote.node)
    THEN e.vote.node
    ELSE NoNode

append_membership(e, entry) ==
    LET m == EffectiveMembershipOf(entry.log_id, entry.membership)
    IN  [Check(e, MSAppendAsserts(e.membership_state, m), "membership_state.append")
            EXCEPT !.membership_state = MSAppend(@, m)]

\* Append entries that are known not to conflict with the log.
do_append_entries(e, entries) ==
    LET appendOne(acc, entry) ==
            LET e1 == [acc EXCEPT !.log = Append(@, entry)]
            IN  IF entry.kind = "membership" THEN append_membership(e1, entry) ELSE e1
    IN  FoldLeft(appendOne, e, entries)

commit_to(e, id, logId) ==
    update_server_state_if_changed(
        [Check(e, MSCommitAsserts(e.membership_state, logId), "membership_state.commit")
            EXCEPT !.committed = logId, !.membership_state = MSCommit(@, logId)],
        id)

\* The indexes a quorum of every voter set of the effective membership is
\* known to hold.
QuorumAcceptedIndexes(e) ==
    {i \in 0..last_log_id(e).index :
        IsQuorum(e.membership_state.effective.membership.configs,
                 {n \in Nodes : e.leader.matching[n].index >= i})}

\* A leader commits the greatest quorum-accepted entry of its own term.
try_commit(e, id) ==
    LET ready == {i \in QuorumAcceptedIndexes(e) :
                    get_log_id(e, i).term = e.leader.vote.term /\ i > e.committed.index}
    IN  IF ready = {} THEN e ELSE commit_to(e, id, get_log_id(e, Max(ready)))

update_matching(e, id, node, logId) ==
    try_commit([e EXCEPT !.leader.matching[node] = LogIdMax(@, logId)], id)

\* leader_append_entries: the entries get the leader's term and the next
\* indexes, go to the local log, and count as matching on the leader itself.
leader_append_entry(e, id, kind, membership) ==
    LET logId == LogIdOf(e.leader.vote.term, NextIndex(last_log_id(e)))
        entry == [log_id |-> logId, kind |-> kind, membership |-> membership]
    IN  update_matching(do_append_entries(e, <<entry>>), id, id, logId)

----------------------------------------------------------------------------
(* The follower: appending and committing what a leader sends. *)

\* replication_handler() is not to be reached on a node without a Leader.
replication_handler(e) == Check(e, e.leader # None, "replication_handler: there is no leader")

\* following_handler() expects that this node has no Leader.
following_handler(e) == Check(e, e.leader = None, "following_handler: leader is none")

\* Faulty variant of ensure_log_consecutive: any request follows the log.
every_log_is_consecutive(e, prev) == TRUE

ensure_log_consecutive(e, prev) == prev = NoLogId \/ has_log_id(e, prev)

\* Cut the log from index `since` on; committed entries must stay.
truncate_logs(e, since) ==
    [Check(e, MSTruncateAsserts(e.membership_state, since), "membership_state.truncate")
        EXCEPT !.log = SubSeq(@, 1, Position(e, since) - 1),
               !.membership_state = MSTruncate(@, since)]

\* FollowingHandler::append_entries: entries the log already has are
\* skipped; from the first one it lacks, the log is cut and the rest is
\* appended.  The last log id of the request is accepted from this leader.
following_append_entries(e, prev, entries) ==
    LET lacking == {k \in DOMAIN entries : ~has_log_id(e, entries[k].log_id)}
        first   == Min(lacking)
        since   == entries[first].log_id.index
        e1      == IF since <= last_log_id(e).index THEN truncate_logs(e, since) ELSE e
        e2      == IF lacking = {} THEN e
                   ELSE do_append_entries(e1, SubSeq(entries, first, Len(entries)))
        last    == IF entries = <<>> THEN prev ELSE Last(entries).log_id
    IN  [e2 EXCEPT !.accepted = LogIdMax(@, last)]

\* append_entries is Ok: neither the vote nor the log rejects the request.
append_entries_ok(e, req) ==
    /\ vote_is_accepted(e, req.vote)
    /\ ensure_log_consecutive(e, req.prev_log_id)

append_entries(e, id, req) ==
    LET e1 == following_handler(update_vote(e, id, req.vote))
    IN  IF ~vote_is_accepted(e, req.vote) THEN e
        ELSE IF ~ensure_log_consecutive(e1, req.prev_log_id) THEN e1
        ELSE following_append_entries(e1, req.prev_log_id, req.entries)

\* Faulty variant of commit_entries: the bound is what is committed, not
\* what is accepted.
commit_entries_bounded_by_committed(e, id, leader_committed) ==
    LET upto == LogIdMin(leader_committed, e.committed)
    IN  IF LogIdLT(e.committed, upto) THEN commit_to(e, id, upto) ELSE e

\* FollowingHandler::commit_entries: commit what the leader has committed,
\* as far as it was accepted from this leader.
commit_entries(e, id, leader_committed) ==
    LET upto == LogIdMin(leader_committed, e.accepted)
    IN  IF LogIdLT(e.committed, upto) THEN commit_to(e, id, upto) ELSE e

\* Faulty variants of handle_commit_entries: one commits without looking at
\* what is committed already, one commits up to the last log id instead of
\* the last accepted one.
handle_commit_entries_unguarded(e, id, leader_committed) ==
    commit_to(following_handler(e), id, LogIdMin(leader_committed, e.accepted))

handle_commit_entries_by_last_log_id(e, id, leader_committed) ==
    LET upto == LogIdMin(leader_committed, last_log_id(e))
    IN  IF LogIdLT(e.committed, upto) THEN commit_to(following_handler(e), id, upto) ELSE e

handle_commit_entries(e, id, leader_committed) ==
    commit_entries(following_handler(e), id, leader_committed)

\* The runtime calls handle_append_entries and, when it returned true,
\* handle_commit_entries with the committed log id of the request.
handle_append_entries(e, id, req) ==
    IF append_entries_ok(e, req)
    THEN handle_commit_entries(append_entries(e, id, req), id, req.leader_commit)
    ELSE append_entries(e, id, req)

\* The request of a leader, with what it has committed.  A new replication
\* stream probes with the leader's last log id and no entry; when the probe
\* is refused the leader steps back: "tail" is its last entry alone,
\* "entries" is the log after what is known to match on the target, and
\* "heartbeat" is that request without the entries.
prev_log_id(e, target, kind) ==
    CASE kind = "probe" -> last_log_id(e)
      [] kind = "tail"  -> get_log_id(e, last_log_id(e).index - 1)
      [] kind \in {"entries", "heartbeat"} -> e.leader.matching[target]

AppendEntriesRequest(e, id, target, kind) ==
    LET prev == prev_log_id(e, target, kind)
    IN  [type |-> "AppendReq", from |-> id, to |-> target, vote |-> e.leader.vote,
         prev_log_id |-> prev,
         entries |-> IF kind \in {"tail", "entries"}
                     THEN SubSeq(e.log, Position(e, prev.index) + 1, Len(e.log)) ELSE <<>>,
         leader_commit |-> e.committed]

\* Faulty variant of the reply: a refused request is answered as taken.
AppendEntriesResponseAlwaysOk(id, req, ok) ==
    [type |-> "AppendResp", from |-> id, to |-> req.from, vote |-> req.vote, success |-> TRUE,
     matching |-> IF req.entries = <<>> THEN req.prev_log_id ELSE Last(req.entries).log_id]

\* Command::Respond of handle_append_entries: the result, and on success the
\* last log id of the request, which now matches on this node.
AppendEntriesResponse(id, req, ok) ==
    [type |-> "AppendResp", from |-> id, to |-> req.from, vote |-> req.vote, success |-> ok,
     matching |-> IF req.entries = <<>> THEN req.prev_log_id ELSE Last(req.entries).log_id]

\* Faulty variant of leader_step_down: it does not wait for the commit.
leader_step_down_unguarded(e, id) == update_internal_server_state(e, id)

\* leader_step_down: once the effective membership is committed the server
\* state follows it; the Leader stays.
leader_step_down(e, id) ==
    IF LogIdLE(e.membership_state.effective.log_id, e.committed)
    THEN update_internal_server_state(e, id)
    ELSE e

----------------------------------------------------------------------------
(* Snapshots and log purge. *)

\* Faulty variant of update_snapshot: every snapshot is taken.
every_snapshot_is_newer(e, meta) == TRUE

\* SnapshotHandler::update_snapshot takes a snapshot only if it is newer
\* than the one the engine knows.
snapshot_is_newer(e, meta) == LogIdLT(e.snapshot_meta.last_log_id, meta.last_log_id)

\* LogHandler: the policy schedules the purge of what the snapshot covers,
\* less the entries the config keeps.
schedule_policy_based_purge(e) ==
    LET index == e.snapshot_meta.last_log_id.index - MaxInSnapshotLogToKeep
    IN  IF index <= e.purge_upto.index THEN e
        ELSE [Check(e, get_log_id(e, index) # NoLogId, "schedule_policy_based_purge: get_log_id")
                EXCEPT !.purge_upto = get_log_id(e, index)]

\* Faulty variant of log_after: the entry at `upto` stays in the log.
log_from(e, upto) == SubSeq(e.log, Position(e, upto.index), Len(e.log))

\* The log without the entries up to `upto`.
log_after(e, upto) == SubSeq(e.log, Position(e, upto.index) + 1, Len(e.log))

\* RaftState::purge_log: the entries up to `upto` leave the log, which
\* remembers `upto` as the last purged log id.
purge_log_upto(e, upto) ==
    IF LogIdLE(upto, e.last_purged_log_id) THEN e
    ELSE [e EXCEPT !.log = log_after(e, upto), !.last_purged_log_id = upto]

purge_log(e) == purge_log_upto(e, e.purge_upto)

\* ReplicationHandler::try_purge_log: a leader purges no further than what
\* matches on every voter and learner.
replication_try_purge_log(e) ==
    LET m        == e.membership_state.effective.membership
        matching == Min({e.leader.matching[n].index : n \in VoterIds(m) \cup m.learners})
    IN  purge_log_upto(e, IF e.purge_upto.index <= matching THEN e.purge_upto
                          ELSE get_log_id(e, matching))

\* Faulty variant of try_purge_log: a leader puts the purge off for good.
try_purge_log_followers_only(e) == IF e.leader # None THEN e ELSE purge_log(e)

\* Faulty variant of try_purge_log: a leader purges like a follower.
try_purge_log_at_once(e) == purge_log(e)

try_purge_log(e) ==
    IF e.leader # None THEN replication_try_purge_log(replication_handler(e)) ELSE purge_log(e)

\* finish_building_snapshot: the state machine has built the snapshot
\* `meta`; a snapshot that is not newer changes nothing but the flag.
finish_building_snapshot(e, meta) ==
    LET e1 == [e EXCEPT !.building_snapshot = FALSE]
    IN  IF snapshot_is_newer(e1, meta)
        THEN try_purge_log(schedule_policy_based_purge([e1 EXCEPT !.snapshot_meta = meta]))
        ELSE e1

\* Faulty variant of already_scheduled: no index counts as scheduled.
never_scheduled(e, index) == FALSE

\* The purge up to `index` is scheduled already.
already_scheduled(e, index) == index < NextIndex(e.purge_upto)

\* trigger_purge_log: without a snapshot, or below what is scheduled
\* already, nothing happens; the index is capped at the snapshot's, and the
\* log id at the index is unwrapped.
trigger_purge_log(e, index) ==
    LET snapshot == e.snapshot_meta.last_log_id
        upto     == get_log_id(e, Min({index, snapshot.index}))
    IN  IF snapshot = NoLogId \/ already_scheduled(e, index) THEN e
        ELSE try_purge_log([Check(e, upto # NoLogId, "trigger_purge_log: get_log_id")
                                EXCEPT !.purge_upto = upto])

\* FollowingHandler::install_full_snapshot, once the snapshot is taken:
\* uncommitted entries go if the log holds another entry at the snapshot's
\* index, the snapshot's last log id is committed, its membership is a
\* committed one, and the log is purged up to the snapshot.
installed(e, id, meta) ==
    LET snapshot == meta.last_log_id
        e1 == [e EXCEPT !.snapshot_meta = meta]
        e2 == IF get_log_id(e1, snapshot.index) \in {NoLogId, snapshot} THEN e1
              ELSE truncate_logs(e1, NextIndex(e1.committed))
        e3 == [Check(e2, MSUpdateCommittedAsserts(e2.membership_state, meta.last_membership),
                     "membership_state.update_committed")
                EXCEPT !.committed = snapshot, !.purge_upto = snapshot,
                       !.membership_state = MSUpdateCommitted(@, meta.last_membership)]
    IN  purge_log(update_server_state_if_changed(e3, id))

\* Faulty variant of install_full_snapshot: a snapshot newer than the one
\* known is installed even if it is not beyond what is committed.
install_full_snapshot_below_committed(e, id, meta) ==
    IF snapshot_is_newer(e, meta) THEN installed(e, id, meta) ELSE e

\* A snapshot that is not beyond what is committed is not installed (the
\* note above finish_building_snapshot), nor one that is not newer than the
\* snapshot the node has.
install_full_snapshot(e, id, meta) ==
    IF LogIdLE(meta.last_log_id, e.committed) \/ ~snapshot_is_newer(e, meta) THEN e
    ELSE installed(e, id, meta)

\* handle_install_full_snapshot: accept_vote, then the installation.
handle_install_full_snapshot(e, id, req) ==
    IF vote_is_accepted(e, req.vote)
    THEN install_full_snapshot(following_handler(update_vote(e, id, req.vote)), id, req.meta)
    ELSE e

\* Command::Respond of handle_install_full_snapshot: the vote of this node
\* after the call.  `matching` is what the leader's stream knows it sent.
SnapshotResponse(e, id, req) ==
    [type |-> "SnapshotResp", from |-> id, to |-> req.from, vote |-> e.vote,
     matching |-> req.meta.last_log_id]

\* The snapshot a state machine builds: everything applied, that is, the
\* committed log id and the last membership up to it.
AppliedMembership(e) ==
    LET applied == {entry \in Range(e.log) :
                        entry.kind = "membership" /\ entry.log_id.index <= e.committed.index}
        last    == CHOOSE entry \in applied : \A other \in applied : LogIdLE(other.log_id, entry.log_id)
    IN  IF applied = {} THEN e.snapshot_meta.last_membership
        ELSE EffectiveMembershipOf(last.log_id, last.membership)

----------------------------------------------------------------------------
(* Election. *)

new_candidate(e, vote) ==
    [e EXCEPT !.candidate =
        [vote       |-> vote,
         last_log_id |-> last_log_id(e),
         quorum_set |-> e.membership_state.effective.membership.configs,
         granted    |-> {}]]

\* The debug assertion at the head of elect.
ElectPrecondition == "elect: last_seen_vote >= vote"

\* Faulty variant of new_term: the term is not raised.
new_term_not_raised(e) == e.last_seen_vote.term

\* The term of the next election is one above the greatest vote seen.
new_term(e) == e.last_seen_vote.term + 1

elect(e, id) ==
    LET vote == NewVote(new_term(e), id)
        e1   == Check(e, VoteGE(e.last_seen_vote, e.vote), ElectPrecondition)
        e2   == new_candidate(e1, vote)
        e3   == Check(update_vote(e2, id, vote), vote_is_accepted(e2, vote), "elect: update_vote")
    IN  update_server_state_if_changed(e3, id)

\* SendVote: a request to every other voter.  The runtime answers for the
\* node itself once the vote is stored.
VoteRequests(e, id) ==
    {[type |-> "VoteReq", to |-> target, vote |-> e.candidate.vote,
      last_log_id |-> e.candidate.last_log_id] : target \in UNION Range(e.candidate.quorum_set) \ {id}}
    \cup {[type |-> "VoteResp", from |-> id, to |-> id, vote |-> e.candidate.vote,
           last_log_id |-> e.candidate.last_log_id]}

\* handle_vote_req: the two rejections, then update_vote.  `inLease` says
\* whether `now` is within the lease of the time the vote was last updated;
\* the clock is the runtime's, so the event supplies it.
lease_rejects(e, inLease) == e.vote.committed /\ inLease

\* Faulty variant of the log check of handle_vote_req: any log will do.
any_log_is_up_to_date(e, req) == TRUE

log_is_up_to_date(e, req) == LogIdLE(last_log_id(e), req.last_log_id)

handle_vote_req(e, id, req, inLease) ==
    IF lease_rejects(e, inLease) \/ ~log_is_up_to_date(e, req) THEN e
    ELSE update_vote(e, id, req.vote)

VoteResponse(e, id, req) ==
    [type |-> "VoteResp", from |-> id, to |-> req.vote.node,
     vote |-> e.vote, last_log_id |-> last_log_id(e)]

\* Faulty variant of take_candidate: the Candidate stays.
candidate_not_taken(e) == e

\* self.candidate.take()
take_candidate(e) == [e EXCEPT !.candidate = None]

\* establish_leader: the candidate becomes the leader, unless there is
\* already a Leader with a vote at least as high; the committed vote is
\* stored and a blank entry of the new term is appended.
establish_leader(e, id) ==
    LET vote == CommitVote(e.candidate.vote)
        e1   == take_candidate(e)
        e2   == replication_handler([e1 EXCEPT !.leader = new_leader(vote)])
        e3   == Check(update_vote(e2, id, vote), vote_is_accepted(e2, vote),
                      "establish_leader: update_vote")
        e4   == Check(e3, leader_handler_ok(e3), "establish_leader: leader_handler")
    IN  IF e.leader # None /\ ~VoteGT(e.candidate.vote, e.leader.vote) THEN e1
        ELSE IF leader_handler_ok(e3) THEN leader_append_entry(e4, id, "blank", EmptyMembership)
        ELSE e4

\* Faulty variant of is_granted: every reply counts as a grant.
every_reply_is_granted(e, resp) == TRUE

\* A vote is granted iff the replied vote is the requested one.
is_granted(e, resp) == resp.vote = e.candidate.vote

\* This node has met a greater last log id and is not to stand eagerly.
is_there_greater_log(e) == e.seen_greater_log

set_greater_log(e) == [e EXCEPT !.seen_greater_log = TRUE]

\* Faulty variant of quorum_granted: the first grant makes a leader.
one_grant_is_quorum(e) == TRUE

\* What grant_by tells handle_vote_resp: a quorum has granted the vote.
quorum_granted(e) == IsQuorum(e.candidate.quorum_set, e.candidate.granted)

handle_vote_resp(e, id, target, resp) ==
    LET e1 == update_last_seen(e, resp.vote)
        e2 == [e1 EXCEPT !.candidate.granted = @ \cup {target}]
    IN  IF e1.candidate = None THEN e1
        ELSE IF is_granted(e1, resp)
             THEN IF quorum_granted(e2) THEN establish_leader(e2, id) ELSE e2
        ELSE IF LogIdLT(last_log_id(e1), resp.last_log_id) THEN set_greater_log(e1)
        ELSE e1

----------------------------------------------------------------------------
(* Initialization. *)

is_initialized(e) == last_log_id(e) # NoLogId \/ e.vote # ZeroVote

\* check_initialize and check_members_contain_me
initialize_allowed(e, id, m) == ~is_initialized(e) /\ IsVoter(m, id)

\* Faulty variant of initialize: the first entry does not get log id (0, 0).
initialize_at_index_one(e, id, m) ==
    elect(do_append_entries(following_handler(e), <<MembershipEntry(LogIdOf(0, 1), m)>>), id)

initialize(e, id, m) ==
    elect(do_append_entries(following_handler(e), <<MembershipEntry(LogIdOf(0, 0), m)>>), id)

\* Engine::new: the last seen vote is the stored vote; there is no Leader and
\* no Candidate.
new(state) ==
    [state EXCEPT !.last_seen_vote = state.vote, !.seen_greater_log = FALSE,
                  !.leader = None, !.candidate = None]

\* Faulty variant of startup: a restored leader takes its log to match on
\* every node, not just locally.
startup_all_progress(e, id) ==
    IF is_leader(e, id)
    THEN try_commit([update_internal_server_state(e, id)
                        EXCEPT !.leader.matching = [n \in Nodes |-> last_log_id(e)]], id)
    ELSE [e EXCEPT !.server_state = IF MSIsVoter(e.membership_state, id) THEN "Follower" ELSE "Learner"]

\* startup: a node whose stored vote says it is the committed leader leads
\* again and knows its own log to match; any other node follows or learns.
startup(e, id) ==
    IF is_leader(e, id)
    THEN update_matching(replication_handler(update_internal_server_state(e, id)),
                         id, id, last_log_id(e))
    ELSE [e EXCEPT !.server_state = IF MSIsVoter(e.membership_state, id) THEN "Follower" ELSE "Learner"]

\* Engine::new over RaftState::default, then startup.
NewEngine ==
    [vote |-> ZeroVote, last_seen_vote |-> ZeroVote,
     log |-> <<>>, committed |-> NoLogId, accepted |-> NoLogId,
     last_purged_log_id |-> NoLogId, purge_upto |-> NoLogId,
     snapshot_meta |-> [last_log_id |-> NoLogId, last_membership |-> NoEffectiveMembership],
     building_snapshot |-> FALSE,
     membership_state |-> MSDefault, server_state |-> "Learner",
     leader |-> None, candidate |-> None, seen_greater_log |-> FALSE, failed |-> {}]

----------------------------------------------------------------------------
(* The events of the cluster. *)

Init ==
    /\ engine = [n \in Nodes |-> NewEngine]
    /\ messages = {}
    /\ restarts = 0
    /\ duplicates = 0
    /\ chosen = <<>>

\* What stands in chosen for an entry that was committed by a node that did
\* not hold it, and that no node had committed before.
Lost == [log_id |-> NoLogId, kind |-> "lost", membership |-> EmptyMembership]

\* The engine of node n becomes e.  No handler reads or writes chosen: it
\* remembers for the properties what the logs forget when they are purged.
\* The entries that e has committed and no node had committed before are
\* added to it, as e holds them.
Step(n, e) ==
    /\ engine' = [engine EXCEPT ![n] = e]
    /\ LET now      == engine'[n]
           first(i) == IF Position(now, i) \in DOMAIN now.log THEN now.log[Position(now, i)] ELSE Lost
       IN  chosen' = chosen \o [k \in 1..(now.committed.index + 1 - Len(chosen)) |->
                                    first(Len(chosen) + k - 1)]

\* The network takes the messages of `sent` whose link is up; the others
\* are lost at once.  A vote request comes from the node it asks a vote for.
Sender(msg) == IF msg.type = "VoteReq" THEN msg.vote.node ELSE msg.from

Carried(sent) == {msg \in sent : Sender(msg) = msg.to \/ <<Sender(msg), msg.to>> \in Links}

\* The message msg is delivered and `sent` is sent.  The delivery takes msg
\* out of flight unless it is one of the repeated ones.
Deliver(msg, sent, again) ==
    /\ msg \in messages
    /\ again => duplicates < MaxDuplicates
    /\ duplicates' = IF again THEN duplicates + 1 ELSE duplicates
    /\ messages' = (IF again THEN messages ELSE messages \ {msg}) \cup Carried(sent)

\* The event loop of node n takes a message of the given type: the engine
\* becomes e and the commands of the handler send `sent`.
Receive(n, msg, type, e, sent, again) ==
    /\ msg.type = type
    /\ msg.to = n
    /\ Step(n, e)
    /\ Deliver(msg, sent, again)
    /\ UNCHANGED restarts

\* Node n is a candidate in e and asks for votes (elect).
Candidacy(n, e) ==
    /\ Step(n, e)
    /\ messages' = messages \cup Carried(VoteRequests(e, n))
    /\ UNCHANGED <<restarts, duplicates>>

\* An operator initializes node n with membership m.
Initialize(n, m) ==
    /\ initialize_allowed(engine[n], n, m)
    /\ Candidacy(n, initialize(engine[n], n, m))

\* The election timer of voter n fires.
Elect(n) ==
    /\ MSIsVoter(engine[n].membership_state, n)
    /\ new_term(engine[n]) <= MaxTerm
    /\ Candidacy(n, elect(engine[n], n))

\* Node n receives a vote request and replies.  The lease of a committed
\* vote may or may not have run out by then.
HandleVoteReq(n, req, inLease, again) ==
    LET e == handle_vote_req(engine[n], n, req, inLease)
    IN  /\ inLease => engine[n].vote.committed
        /\ Receive(n, req, "VoteReq", e, {VoteResponse(e, n, req)}, again)

\* Node n receives the reply of resp.from to a vote request.
HandleVoteResp(n, resp, again) ==
    Receive(n, resp, "VoteResp", handle_vote_resp(engine[n], n, resp.from, resp), {}, again)

\* A client writes to node n, which takes the write if it is the leader.
ClientWrite(n) ==
    /\ leader_handler_ok(engine[n])
    /\ NextIndex(last_log_id(engine[n])) < MaxLogLen
    /\ Step(n, leader_append_entry(engine[n], n, "normal", EmptyMembership))
    /\ UNCHANGED <<messages, restarts, duplicates>>

\* An operator asks leader n to change the voters to `goal`.
ChangeMembership(n, goal, retain) ==
    /\ leader_handler_ok(engine[n])
    /\ NextIndex(last_log_id(engine[n])) < MaxLogLen
    /\ NextMembershipError(engine[n].membership_state, goal) = "Ok"
    /\ Step(n, leader_append_entry(engine[n], n, "membership",
                                    NextMembership(engine[n].membership_state, goal, retain)))
    /\ UNCHANGED <<messages, restarts, duplicates>>

\* Leader n sends an append-entries request of some kind to `target`.  A
\* replication stream has one call in flight; sending a request before the
\* reply to the last one arrived is a retry after a timeout, and counts as
\* a repeated delivery.
InFlight(n, target) ==
    \E m \in messages : \/ m.type \in {"AppendReq", "SnapshotReq"} /\ m.from = n /\ m.to = target
                        \/ m.type \in {"AppendResp", "SnapshotResp"} /\ m.from = target /\ m.to = n

Replicate(n, target, kind) ==
    /\ leader_handler_ok(engine[n])
    /\ target # n
    /\ <<n, target>> \in Links
    /\ MembershipContains(engine[n].membership_state.effective.membership, target)
    /\ kind # "probe" => engine[n].leader.matching[target] # last_log_id(engine[n])
    /\ kind = "tail" => engine[n].leader.matching[target] # prev_log_id(engine[n], target, kind)
    /\ kind \in {"tail", "entries"} => Position(engine[n], prev_log_id(engine[n], target, kind).index) >= 0
    /\ InFlight(n, target) => duplicates < MaxDuplicates
    /\ duplicates' = IF InFlight(n, target) THEN duplicates + 1 ELSE duplicates
    /\ messages' = messages \cup {AppendEntriesRequest(engine[n], n, target, kind)}
    /\ UNCHANGED <<engine, restarts, chosen>>

\* Node n receives an append-entries request and replies with the result.
HandleAppendEntries(n, req, again) ==
    Receive(n, req, "AppendReq", handle_append_entries(engine[n], n, req),
            {AppendEntriesResponse(n, req, append_entries_ok(engine[n], req))}, again)

\* The stream of leader `id` takes the reply to a request it sent under
\* its vote: what matches on the target is updated, and what could not be
\* purged while the target lacked it is purged.
update_progress(e, id, resp) ==
    IF e.leader # None /\ e.leader.vote = resp.vote
    THEN try_purge_log(update_matching(e, id, resp.from, resp.matching))
    ELSE e

\* Leader n learns from a reply what matches on resp.from.
HandleAppendResp(n, resp, again) ==
    Receive(n, resp, "AppendResp",
            IF resp.success THEN update_progress(engine[n], n, resp) ELSE engine[n], {}, again)

\* The state machine of node n starts to build a snapshot of what it has
\* applied; the snapshot is ready at some later time.
BuildSnapshot(n) ==
    /\ ~engine[n].building_snapshot
    /\ LogIdLT(engine[n].snapshot_meta.last_log_id, engine[n].committed)
    /\ Step(n, [engine[n] EXCEPT !.building_snapshot = TRUE])
    /\ messages' = messages \cup
            {[type |-> "SnapshotBuilt", to |-> n,
              meta |-> [last_log_id     |-> engine[n].committed,
                        last_membership |-> AppliedMembership(engine[n])]]}
    /\ UNCHANGED <<restarts, duplicates>>

\* Node n learns that its snapshot is built.
FinishBuildingSnapshot(n, built) ==
    Receive(n, built, "SnapshotBuilt", finish_building_snapshot(engine[n], built.meta), {}, FALSE)

\* An operator asks node n to purge its log up to `index`.
TriggerPurgeLog(n, index) ==
    /\ Step(n, trigger_purge_log(engine[n], index))
    /\ UNCHANGED <<messages, restarts, duplicates>>

\* Leader n sends its snapshot to a target that lacks entries the leader
\* has purged.
ReplicateSnapshot(n, target) ==
    /\ leader_handler_ok(engine[n])
    /\ target # n
    /\ <<n, target>> \in Links
    /\ MembershipContains(engine[n].membership_state.effective.membership, target)
    /\ engine[n].leader.matching[target].index < engine[n].last_purged_log_id.index
    /\ InFlight(n, target) => duplicates < MaxDuplicates
    /\ duplicates' = IF InFlight(n, target) THEN duplicates + 1 ELSE duplicates
    /\ messages' = messages \cup {[type |-> "SnapshotReq", from |-> n, to |-> target,
                                    vote |-> engine[n].leader.vote, meta |-> engine[n].snapshot_meta]}
    /\ UNCHANGED <<engine, restarts, chosen>>

\* Node n receives a snapshot and replies once it is installed.
HandleInstallFullSnapshot(n, req, again) ==
    LET e == handle_install_full_snapshot(engine[n], n, req)
    IN  Receive(n, req, "SnapshotReq", e, {SnapshotResponse(e, n, req)}, again)

\* Leader n learns that resp.from took its snapshot.
HandleSnapshotResp(n, resp, again) ==
    Receive(n, resp, "SnapshotResp", update_progress(engine[n], n, resp), {}, again)

\* The runtime of leader n calls leader_step_down.
LeaderStepDown(n) ==
    /\ engine[n].leader # None
    /\ Step(n, leader_step_down(engine[n], n))
    /\ UNCHANGED <<messages, restarts, duplicates>>

\* The election timer of node n is reset.
ResetGreaterLog(n) ==
    /\ is_there_greater_log(engine[n])
    /\ Step(n, [engine[n] EXCEPT !.seen_greater_log = FALSE])
    /\ UNCHANGED <<messages, restarts, duplicates>>

\* Node n stops and starts again from what it stored: vote, log, committed
\* log id, membership and snapshot.  A snapshot it was building is lost.
Restart(n) ==
    /\ restarts < MaxRestarts
    /\ restarts' = restarts + 1
    /\ Step(n, startup(new([engine[n] EXCEPT !.building_snapshot = FALSE]), n))
    /\ messages' = {m \in messages : ~(m.type = "SnapshotBuilt" /\ m.to = n)}
    /\ UNCHANGED duplicates

Next ==
    \/ \E n \in Initializers, m \in InitMembers : Initialize(n, m)
    \/ \E n \in Electors : Elect(n)
    \/ \E n \in Nodes, req \in messages, inLease, again \in BOOLEAN : HandleVoteReq(n, req, inLease, again)
    \/ \E n \in Nodes, resp \in messages, again \in BOOLEAN : HandleVoteResp(n, resp, again)
    \/ \E n \in Nodes : ClientWrite(n)
    \/ \E n \in Nodes, goal \in Goals, retain \in BOOLEAN : ChangeMembership(n, goal, retain)
    \/ \E n, target \in Nodes, kind \in Requests : Replicate(n, target, kind)
    \/ \E n \in Nodes, req \in messages, again \in BOOLEAN : HandleAppendEntries(n, req, again)
    \/ \E n \in Nodes, resp \in messages, again \in BOOLEAN : HandleAppendResp(n, resp, again)
    \/ \E n \in Nodes : LeaderStepDown(n)
    \/ \E n \in Nodes : ResetGreaterLog(n)
    \/ \E n \in Nodes : Restart(n)
    \/ \E n \in Snapshotters : BuildSnapshot(n)
    \/ \E n \in Nodes, built \in messages : FinishBuildingSnapshot(n, built)
    \/ \E n \in Nodes, index \in PurgeIndexes : TriggerPurgeLog(n, index)
    \/ \E n, target \in Nodes : ReplicateSnapshot(n, target)
    \/ \E n \in Nodes, req \in messages, again \in BOOLEAN : HandleInstallFullSnapshot(n, req, again)
    \/ \E n \in Nodes, resp \in messages, again \in BOOLEAN : HandleSnapshotResp(n, resp, again)

Spec == Init /\ [][Next]_vars

(***************************************************************************)
(* Fairness.  The runtime is one event loop per node, fed by a queue: a    *)
(* message or a completion that has arrived is handled, whatever else      *)
(* arrives.  A handler is enabled exactly while its message is in flight   *)
(* to the node, and it is the only step that takes the message out of      *)
(* flight while no node restarts, so the weak fairness of the handler is   *)
(* stated on the messages: this is WF_vars of the handler, with ENABLED    *)
(* written out.  It is stated for each sender, which has one call of a     *)
(* type in flight to a node.  A leader runs one replication stream per     *)
(* target, which sends what is due whenever it is idle; the model chooses  *)
(* the kind of request freely, so each kind is sent again and again as     *)
(* long as it is due again and again (strong fairness); only a node that   *)
(* is initialized or stands for election ever leads.  Clients, operators,  *)
(* election timers and snapshot policies owe nothing.                      *)
(***************************************************************************)
Origin(msg) == IF msg.type = "SnapshotBuilt" THEN msg.to ELSE Sender(msg)

Inbox(n, from, type) == {msg \in messages : msg.type = type /\ msg.to = n /\ Origin(msg) = from}

Handled(n, from, type) == restarts' = restarts /\ \E msg \in Inbox(n, from, type) : msg \notin messages'

EventLoopFairness(n, from, type) ==
    []<>(Inbox(n, from, type) = {}) \/ []<><<Handled(n, from, type)>>_vars

HandledTypes ==
    {"VoteReq", "VoteResp", "AppendReq", "AppendResp", "SnapshotBuilt", "SnapshotReq", "SnapshotResp"}

Fairness ==
    /\ \A n, from \in Nodes, type \in HandledTypes : EventLoopFairness(n, from, type)
    /\ \A n \in Initializers \cup Electors : \A target \in Nodes \ {n} :
            /\ SF_vars(ReplicateSnapshot(n, target))
            /\ \A kind \in Requests : SF_vars(Replicate(n, target, kind))

FairSpec == Spec /\ Fairness

----------------------------------------------------------------------------
(* The values the state ranges over. *)

MaxIndex == MaxLogLen + MaxTerm

LogIds == {NoLogId} \cup [term : 0..MaxTerm, index : 0..MaxIndex]

Votes == [term : 0..MaxTerm, node : Nodes \cup {NoNode}, committed : BOOLEAN]

Memberships == [configs : Seq(SUBSET Nodes), learners : SUBSET Nodes]

EffectiveMemberships == [log_id : LogIds, membership : Memberships]

Entries == [log_id : LogIds, kind : {"blank", "normal", "membership"}, membership : Memberships]

SnapshotMetas == [last_log_id : LogIds, last_membership : EffectiveMemberships]

Leaders == [vote : Votes, matching : [Nodes -> LogIds]]

Candidates == [vote : Votes, last_log_id : LogIds,
               quorum_set : Seq(SUBSET Nodes), granted : SUBSET Nodes]

AssertionSites ==
    {ElectPrecondition, "elect: update_vote",
     "establish_leader: update_vote", "establish_leader: leader_handler",
     "following_handler: leader is none", "replication_handler: there is no leader",
     "membership_state.append", "membership_state.commit", "membership_state.truncate",
     "membership_state.update_committed",
     "schedule_policy_based_purge: get_log_id", "trigger_purge_log: get_log_id"}

Engines ==
    [vote : Votes, last_seen_vote : Votes,
     log : Seq(Entries), committed : LogIds, accepted : LogIds,
     last_purged_log_id : LogIds, purge_upto : LogIds,
     snapshot_meta : SnapshotMetas, building_snapshot : BOOLEAN,
     membership_state : [committed : EffectiveMemberships, effective : EffectiveMemberships],
     server_state : {"Learner", "Follower", "Candidate", "Leader"},
     leader : Leaders \cup {None}, candidate : Candidates \cup {None},
     seen_greater_log : BOOLEAN, failed : SUBSET AssertionSites]

Messages ==
    [type : {"VoteReq"}, to : Nodes, vote : Votes, last_log_id : LogIds]
    \cup [type : {"VoteResp"}, from : Nodes, to : Nodes, vote : Votes, last_log_id : LogIds]
    \cup [type : {"AppendReq"}, from : Nodes, to : Nodes, vote : Votes, prev_log_id : LogIds,
          entries : Seq(Entries), leader_commit : LogIds]
    \cup [type : {"AppendResp"}, from : Nodes, to : Nodes, vote : Votes, success : BOOLEAN,
          matching : LogIds]
    \cup [type : {"SnapshotBuilt"}, to : Nodes, meta : SnapshotMetas]
    \cup [type : {"SnapshotReq"}, from : Nodes, to : Nodes, vote : Votes, meta : SnapshotMetas]
    \cup [type : {"SnapshotResp"}, from : Nodes, to : Nodes, vote : Votes, matching : LogIds]

\* Every variable holds a value of its type, every log entry sits at the
\* index its log id names, and no configuration is more than joint.
TypeOK ==
    /\ engine \in [Nodes -> Engines]
    /\ messages \subseteq Messages
    /\ restarts \in 0..MaxRestarts
    /\ duplicates \in 0..MaxDuplicates
    /\ chosen \in Seq(Entries)
    /\ \A n \in Nodes :
        /\ \A i \in DOMAIN engine[n].log : Position(engine[n], engine[n].log[i].log_id.index) = i
        /\ Len(engine[n].membership_state.effective.membership.configs) <= 2
----------------------------------------------------------------------------
(* Safety. *)

Log(n) == engine[n].log

CommittedIndex(n) == engine[n].committed.index

PurgedIndex(n) == engine[n].last_purged_log_id.index

\* The indexes whose entries the log of n holds, and the entry at one.
Held(n) == {PurgedIndex(n) + position : position \in DOMAIN Log(n)}

Entry(n, i) == Log(n)[Position(engine[n], i)]

\* The committed votes some node, Leader or append-entries request holds.
CommittedVotes ==
    {v \in {engine[n].vote : n \in Nodes}
           \cup {engine[n].leader.vote : n \in {l \in Nodes : engine[l].leader # None}}
           \cup {m.vote : m \in {r \in messages : r.type = "AppendReq"}} : v.committed}

\* Election safety (spec.md section 8, invariant 8): a term has at most one
\* committed vote, so at most one node ever leads it.  handle_vote_req,
\* update_vote and the grant counting of handle_vote_resp must together keep
\* two candidates of a term from both reaching a quorum.
ElectionSafety == \A v, w \in CommittedVotes : v.term = w.term => v.node = w.node

\* The Leader and the Candidate of an engine belong to its vote: they exist
\* only while the vote is for this node, a Candidate's vote is the engine's
\* vote, and a Leader's vote is not above it.  establish_leader relies on
\* this where it says that update_vote cannot fail.
LeadingStateFollowsVote ==
    \A n \in Nodes :
        LET e == engine[n]
        IN  /\ e.leader # None =>
                e.leader.vote.node = n /\ e.vote.node = n /\ VoteGE(e.vote, e.leader.vote)
            /\ e.candidate # None => e.candidate.vote = e.vote

\* The greatest vote seen is at least the vote granted (spec.md section 8,
\* invariant 1), which is what the debug assertion at the head of elect
\* expects.  A node that has seen the vote of one candidate of a term in a
\* reply and then grants the vote of another candidate of that term holds
\* two votes that the order does not compare.
LastSeenVoteCoversVote == \A n \in Nodes : VoteGE(engine[n].last_seen_vote, engine[n].vote)

\* No unwrap and no debug assertion of the engine or of the membership
\* state fails, the precondition of elect apart (LastSeenVoteCoversVote):
\* elect and establish_leader store their vote, establish_leader finds the
\* Leader it made, following_handler is taken only without a Leader, and
\* append, commit and truncate of the membership state meet their
\* preconditions.
AssertionsHold == \A n \in Nodes : engine[n].failed \subseteq {ElectPrecondition}

\* The watermarks of a node stay in order: nothing is purged beyond what is
\* scheduled, nothing is scheduled beyond the snapshot, the snapshot holds
\* only what is committed, and what is committed is in the log or purged
\* from it.  finish_building_snapshot may learn of a snapshot built before a
\* newer one was installed, and install_full_snapshot meets logs that end
\* before or disagree with the snapshot.  This is invariant 2 of spec.md
\* section 8 without its committed <= accepted: accepted is what the
\* current leader sent, it starts again when the vote moves to another
\* leader, and a node then has committed more than it has accepted.
WatermarksOrdered ==
    \A n \in Nodes :
        LET e == engine[n]
        IN  /\ LogIdLE(e.last_purged_log_id, e.purge_upto)
            /\ LogIdLE(e.purge_upto, e.snapshot_meta.last_log_id)
            /\ LogIdLE(e.snapshot_meta.last_log_id, e.committed)
            /\ LogIdLE(e.committed, last_log_id(e))

\* A node that leads purges no entry that a voter or learner of its
\* effective membership is not known to hold: try_purge_log is called by
\* finish_building_snapshot, trigger_purge_log and on every reply, and a
\* leader must go through the replication handler each time.
LeaderPurgeWaitsForFollowers ==
    [][\A n \in Nodes :
        LET e == engine'[n]
            m == e.membership_state.effective.membership
        IN  /\ engine[n].leader # None /\ e.leader # None
            /\ e.last_purged_log_id # engine[n].last_purged_log_id
            => \A t \in VoterIds(m) \cup m.learners :
                    e.last_purged_log_id.index <= e.leader.matching[t].index]_vars

\* Again and again every node has committed all that any node holds, from
\* the membership entry of initialize on: the votes that initialize asks for
\* are answered and counted (handle_vote_req, handle_vote_resp), the
\* candidate leads, its stream sends what the target lacks, the replies
\* move the leader's commit, and the next request carries the commit to
\* the followers, which handle_append_entries applies after it has appended.
WritesReachEveryNode ==
    []<>(\A n, m \in Nodes : CommittedIndex(m) >= last_log_id(engine[n]).index)

\* A scheduled purge is never put off for ever: again and again every log
\* is purged as far as scheduled.  A leader puts the purge off while a
\* target lacks the entries, and try_purge_log must be tried again when
\* replication has made progress.
ScheduledPurgeHappens ==
    []<>(\A n \in Nodes : engine[n].last_purged_log_id = engine[n].purge_upto)

\* A membership change is not left half done: again and again the effective
\* membership of every leader is its committed one.  The entry that
\* next_membership made is replicated like any other, and
\* MembershipState::commit must take the commit of that very entry, with no
\* later write to help, as the commit of the membership.
MembershipChangeCompletes ==
    []<>(\A n \in Nodes : leader_handler_ok(engine[n])
            => engine[n].membership_state.committed = engine[n].membership_state.effective)

\* Log matching: two logs that hold the same log id hold the same entries
\* up to its index, as far as neither has purged them.  ensure_log_consecutive
\* refuses a request whose previous log id the follower lacks, has_log_id
\* tells an entry of another leader at the same index from the one sent,
\* and FollowingHandler::append_entries cuts what conflicts before it appends.
LogMatching ==
    \A n, m \in Nodes :
        LET both == Held(n) \cap Held(m)
        IN  \A i, j \in both :
                j <= i /\ Entry(n, i).log_id = Entry(m, i).log_id => Entry(n, j) = Entry(m, j)

\* What a leader takes to match on a node that still follows it is in the
\* log of that node: the leader commits by it.  The reply of
\* handle_append_entries must say "taken" only of a request whose entries
\* are in the log now, whatever was delivered twice or out of order.
MatchingIsReplicated ==
    \A n \in {l \in Nodes : engine[l].leader # None} : \A t \in Nodes :
        LET id == engine[n].leader.matching[t]
        IN  (t = n \/ engine[t].vote = engine[n].leader.vote) /\ id # NoLogId
                => id.index < PurgedIndex(t) \/ get_log_id(engine[t], id.index) = id

\* The log ids by which node n names committed entries: what it has
\* committed, what its snapshot holds, and what it has purged or will.
Watermarks(n) ==
    {engine[n].committed, engine[n].snapshot_meta.last_log_id,
     engine[n].purge_upto, engine[n].last_purged_log_id} \ {NoLogId}

\* State machine safety (spec.md section 8, invariant 6): whatever a node
\* has committed is the entry that was first committed at that index, also
\* when every node that held it then has purged it since, and the
\* committed, snapshot and purge log ids of a node name such entries.
\* commit_entries must not commit an entry that a leader can still
\* overwrite; a leader restored by startup, or elected after the holders of
\* an entry purged it, must not commit another entry at its index; and
\* install_full_snapshot must leave a log that agrees with the snapshot it
\* commits.
StateMachineSafety ==
    \A n \in Nodes :
        /\ \A i \in {h \in Held(n) : h <= CommittedIndex(n)} :
                i < Len(chosen) /\ Entry(n, i) = chosen[i + 1]
        /\ \A id \in Watermarks(n) :
                id.index < Len(chosen) /\ chosen[id.index + 1].log_id = id

\* Leader completeness: a leader holds every entry, of a term up to its own,
\* that was ever committed, unless it has purged it.  The log check of
\* handle_vote_req and the own-term rule of the leader's commit (spec.md
\* section 8, invariant 7) carry it.
LeaderCompleteness ==
    \A n \in {l \in Nodes : leader_handler_ok(engine[l])} :
        \A i \in {c \in 0..(Len(chosen) - 1) :
                        chosen[c + 1].log_id.term <= engine[n].leader.vote.term} :
            i <= PurgedIndex(n) \/ (i \in Held(n) /\ Entry(n, i) = chosen[i + 1])

\* The cluster implements ReplicatedLog, under purge, snapshot installation
\* and restart as well: what node n has delivered is what it has committed,
\* read from chosen as far as n has purged its log and from the log beyond.
\* No step of any handler may take a chosen entry back, move a committed
\* log id back, or change or remove an entry up to it: what
\* handle_commit_entries or a leader committed, no later truncation of
\* handle_append_entries and no later leader may touch, and a snapshot that
\* was delayed must not undo in handle_install_full_snapshot what the node
\* committed after the snapshot was sent.
Applied ==
    [n \in Nodes |->
        SubSeq(chosen, 1, Min({PurgedIndex(n), CommittedIndex(n)}) + 1)
            \o SubSeq(Log(n), 1, CommittedIndex(n) - PurgedIndex(n))]

RL == INSTANCE ReplicatedLog WITH delivered <- Applied

ImplementsReplicatedLog == RL!Spec

\* The membership state follows the log: the effective config is the last
\* membership entry of the log, the committed config is a membership entry
\* of the log no later than it, and MembershipState::validate holds
\* (spec.md section 8, invariant 3).  append, commit and truncate each move
\* one of the two configs; truncate must revert exactly when the cut takes
\* the effective entry away.
MembershipEntries(n) == {entry \in Range(Log(n)) : entry.kind = "membership"}

MembershipFollowsLog ==
    \A n \in Nodes :
        LET ms == engine[n].membership_state
            configs == {EffectiveMembershipOf(entry.log_id, entry.membership) :
                            entry \in MembershipEntries(n)}
                       \cup {engine[n].snapshot_meta.last_membership, NoEffectiveMembership}
        IN  /\ MSValidate(ms)
            /\ ms.committed \in configs
            /\ ms.effective \in configs
            /\ \A c \in configs : c.log_id.index <= ms.effective.log_id.index

\* The config a node holds as committed is committed: some node has
\* committed the entry that holds it.  MembershipState::append takes the
\* previous effective config to be committed without checking; that is sound
\* only because next_membership refuses a change while one is in progress.
CommittedMembershipIsCommitted ==
    \A n \in Nodes :
        LET c == engine[n].membership_state.committed.log_id
        IN  c # NoLogId =>
                \E m \in Nodes : c.index <= CommittedIndex(m) /\ get_log_id(engine[m], c.index) = c

\* A leader acts as leader until a membership without it is committed
\* (leader_step_down): no step other than a restart takes the Leader away
\* while the vote stays, unless the effective membership is committed.
LeaderStaysUntilCommitted ==
    [][\A n \in Nodes :
          /\ engine[n].leader # None
          /\ engine'[n].leader = None
          /\ engine'[n].vote = engine[n].vote
          /\ restarts' = restarts
          => LogIdLE(engine[n].membership_state.effective.log_id, engine[n].committed)]_vars

\* A node that refuses a write (get_leader_handler_or_reject) never
\* forwards the client to itself: the vote outlives the Leader when a
\* leader steps down after a membership without it is committed, and
\* forward_to_leader must then name nobody.
RefusedWriteGoesElsewhere ==
    \A n \in Nodes : ~leader_handler_ok(engine[n]) => forward_to_leader(engine[n]) # n
=============================================================================

# TLA+ models of the openraft engine

This directory holds a model-checking development of the Raft engine of
openraft: the TLA+ modules, the TLC configurations that check them, and
`PROJECT.json`, which lists the components, the runs, the mutants that show
each property can fail, the map from definitions to source lines, the findings
and the hazards.

## The system

The repository's source is three files.

| file | what it is |
| --- | --- |
| `src/openraft/src/engine/engine_impl.rs` | `Engine`: the event dispatcher of one Raft node. It owns the `RaftState`, the optional `Leader` and `Candidate`, `last_seen_vote`, `seen_greater_log` and the output command queue. Every event (`initialize`, `elect`, `handle_vote_req`, `handle_vote_resp`, `handle_append_entries`, `handle_commit_entries`, `leader_step_down`, `startup`, the snapshot and purge entry points) runs to completion and pushes commands for the runtime. |
| `src/openraft/src/membership/membership_state.rs` | `MembershipState`: the committed and the effective membership config of a node, and `next_membership`, `commit`, `update_committed`, `append`, `truncate`, `validate`. |
| `src/openraft/src/raft_state_test.rs` | unit tests that fix the behaviour of `RaftState::has_log_id`, `last_log_id`, `prev_log_id`, `purge_upto`, `last_purged_log_id` and `forward_to_leader`. |

The engine calls handlers that live outside these files (`VoteHandler`,
`FollowingHandler`, `LeaderHandler`, `ReplicationHandler`,
`ServerStateHandler`, `EstablishHandler`) and value types (`Vote`, `LogId`,
`Membership`). `spec.md` describes them; what the modules take from `spec.md`
instead of from source is marked `spec_modelled` in the map.

An engine is single-threaded: there is no interleaving inside a node. What is
hard about the system is the cluster: several engines that exchange vote and
append-entries messages over a network that delays, reorders, loses and
repeats them, nodes that restart, leaders that are cut off and replaced, and
membership changes that are in flight while all of that happens.

## Modules

| module | models | how |
| --- | --- | --- |
| `RaftTypes` | log ids, votes and their order, memberships, quorums, `next_safe` | pure operators over records; `None` of `Option<LogId>` is the record `(-1, -1)`, which the order puts below every log id |
| `MembershipState` | `membership_state.rs` | one operator per method, from a record `[committed, effective]` to the next one; the debug assertions of a method are the operator `...Asserts` beside it |
| `RaftEngine` | `engine_impl.rs`, the handlers it calls, and the runtime and network around the engines | state and actions below |
| `ReplicatedLog` | what the cluster promises: a sequence of chosen entries that only grows and, per node, a delivered prefix of it that only grows | the abstract specification; `RaftEngine` implements it under the mapping `chosen` (the history variable) and `Applied` (what each node has committed: `chosen` as far as the node has purged its log, its log beyond), stated as `ImplementsReplicatedLog` |
| `MCRaftEngine` | a cluster of three nodes | the values the runs give to the constants, the symmetry sets, the two definitions of the runs that hold the code against the words of `spec.md`, and the state constraint of `stale_membership` |
| `MCDurableLog` | the cluster over a log store that writes behind, and followers that crash | `MCRaftEngine` with one more variable, `flushed[n]` (how many entries of the log of `n` are durable), and two more events: `Flush(n, upto)` and `Crash(n)`, a restart from what the store had written (`Stored`) |
| `MCScenarioS5` | scenario S5 of `spec.md` | `RaftEngine` with one more event: `handle_commit_entries` called on a leader |

### State

`engine[n]` is the `Engine` of node `n`: `vote`, `last_seen_vote`, `log`
(the entries that are not purged, in full), `last_purged_log_id` (the entry
of index `i` is at position `i - last_purged_log_id.index` of `log`),
`purge_upto`, `snapshot_meta` (last log id and last membership of the
snapshot), `building_snapshot`, `committed`, `accepted`, `membership_state`,
`server_state`, `leader` (vote and `matching` per node, or `None`),
`candidate` (vote, last log id, quorum set, granted set, or `None`),
`seen_greater_log`, and `failed`, the set of debug assertions and unwraps
that have failed on this node. `messages` is the set of RPC requests and
replies in flight, and of the completions a state machine owes its engine.
`restarts` and `duplicates` count what the bounds cap.

`chosen` is a history variable: `chosen[i + 1]` is the entry that was first
committed at index `i`. No operator of the engine reads it. Every action
that changes an engine does so through `Step(n, e)`, which sets `engine[n]`
to `e` and appends to `chosen` the entries that `e` has committed and no
node had committed before, as `e` holds them. A purged log keeps of an entry
only the log id of the last one purged; once every holder of a committed
entry has purged it, the logs no longer say what was committed, and `chosen`
does. It adds no state: every run reaches as many distinct states as it does
without the variable, because what was first committed never differs
between two ways of reaching the same engines.

### Operators and actions

Each function of the engine is an operator from the engine record before the
call to the record after it, under the name the function has in the source;
a handler that calls other handlers is the composition of their operators, so
an action carries the whole handler, the trailing `update_server_state_if_changed`
or `update_internal_server_state` included. A failed `debug_assert!` or
`unwrap` does not stop the model: `Check` records the site in `failed`, and
`AssertionsHold` says that nothing is ever recorded.

| action | event | code |
| --- | --- | --- |
| `Initialize(n, m)` | operator initializes a node | `initialize`: `check_initialize`, `check_members_contain_me`, append of entry `(0, 0)`, `elect` |
| `Elect(n)` | election timer fires | `elect`: the precondition, `new_candidate`, `update_vote`, `SendVote` |
| `HandleVoteReq(n, req, inLease, again)` | vote request arrives | `handle_vote_req`: lease rejection, log rejection, `update_vote`; the reply carries the vote and last log id after the call |
| `HandleVoteResp(n, resp, again)` | vote reply arrives | `handle_vote_resp`: `update_last_seen`, the early return without a Candidate, grant counting and `establish_leader`, the greater-log flag |
| `ClientWrite(n)` | client proposes | `leader_handler` being `Ok`, then `leader_append_entries` |
| `ChangeMembership(n, goal, retain)` | operator changes the voters | `next_membership` and its three rejections, then `leader_append_entries` |
| `Replicate(n, target, kind)` | leader sends append-entries | request built from the leader's log and progress |
| `HandleAppendEntries(n, req, again)` | append-entries arrives | `handle_append_entries` (`append_entries`: `update_vote`, `ensure_log_consecutive`, truncate and append) and, when it returned true, `handle_commit_entries`; the reply is the `Respond` command |
| `HandleAppendResp(n, resp, again)` | reply arrives at the leader | progress update, the quorum commit of the leader's own term, and `try_purge_log` for what was put off |
| `BuildSnapshot(n)` | state machine starts to build a snapshot | the snapshot is of what is committed; its completion is in flight until `FinishBuildingSnapshot` |
| `FinishBuildingSnapshot(n, built)` | snapshot is built | `finish_building_snapshot`: the flag, `update_snapshot` and the early return, `schedule_policy_based_purge`, `try_purge_log` |
| `TriggerPurgeLog(n, index)` | operator asks for a purge | `trigger_purge_log`: the two early returns, the cap at the snapshot, the `unwrap`, `update_purge_upto`, `try_purge_log` |
| `ReplicateSnapshot(n, target)` | leader sends its snapshot | to a target whose matching log id is behind what the leader has purged |
| `HandleInstallFullSnapshot(n, req, again)` | snapshot arrives | `handle_install_full_snapshot`: `accept_vote`, `install_full_snapshot`, the `Respond` command |
| `HandleSnapshotResp(n, resp, again)` | reply arrives at the leader | progress update to the snapshot's last log id, `try_purge_log` |
| `LeaderStepDown(n)` | runtime calls `leader_step_down` | the commit guard and `update_internal_server_state` |
| `ResetGreaterLog(n)` | election timer is re-armed | `reset_greater_log` |
| `Restart(n)` | node stops and starts | `Engine::new` over the stored state, then `startup`; a snapshot that was being built is lost |

`Receive` is the step of the event loop that every handler of a message
shares: the message is of the handler's type and addressed to the node, the
engine becomes what the handler returns, and the reply is sent. `Candidacy`
is the same for the two events that end in `elect` and send vote requests.
`forward_to_leader` is not an event: it is what a node that refuses a write
(`get_leader_handler_or_reject`) tells the client, and
`RefusedWriteGoesElsewhere` reads it in every state.

The network is in `Deliver` and `Carried`: a message whose link is down is
lost when sent, a message in flight is delivered at any later step or never,
in any order, and a delivery with `again` leaves the message in flight to be
delivered once more.

### Decisions that the source leaves open

* **Vote order.** `Vote` is not in the source. `spec.md` section 3 words its
  order as lexicographic on (term, committed, node). Under that order a voter
  grants two candidates of one term (run `lexvote`). The model uses the
  partial order under which election safety holds: a higher term wins, a
  committed vote outranks the uncommitted one of its term, and two
  uncommitted votes of one term for different nodes are unordered.
* **`update_vote` raises `last_seen_vote`** to the granted vote, which is the
  least the invariant `last_seen_vote >= vote` of `spec.md` needs.
* **`accepted`** is reset when the vote moves to another leader, and a
  follower commits up to `min(leader_committed, accepted)`.
  `handle_commit_entries` reads `accepted`; `spec.md` says `last_log_id`,
  which is the faulty variant `handle_commit_entries_by_last_log_id` that
  `StateMachineSafety` rejects in `partition`. With the reset, a node that
  follows a new leader has committed more than it has accepted from it, so
  the `committed <= accepted` of `spec.md` section 8, invariant 2, is not an
  invariant of the model; `WatermarksOrdered` states the rest of invariant 2
  (`purge_upto <= snapshot <= committed <= last_log_id`) and does not claim
  that part.
* **`calc_server_state`** of the engine (`engine_impl.rs:717`) hands over to
  `RaftState::calc_server_state`, which is not in the source; the model's
  body follows `spec.md` section 4.7. No property reads `server_state` or
  `seen_greater_log`: they are kept because the handlers write them.
* **Append and commit are one step.** The runtime calls
  `handle_append_entries` and, when it returned true,
  `handle_commit_entries` with the committed log id of the same request. The
  model's `handle_append_entries` is that composition and
  `HandleAppendEntries` one action: no message of another node is handled
  between the two calls, which holds for an event loop that takes one
  message at a time.
* **Append reply.** `AppendEntriesResponse` is reduced to taken or refused,
  with the log id that a taken request makes match. A leader that is refused
  leaves its progress as it is and its next request is chosen anew by
  `Replicate`; the search backwards that the replication stream does on a
  conflict is not in the source.
* **`is_leading`** requires the node to be in the effective membership, which
  is what lets `leader_step_down` take the Leader away.
* **Self grant.** `elect` stores the vote locally; the grant of the node to
  itself arrives as a vote reply from itself, as in scenario S1 of `spec.md`.
* **Lease.** The clock belongs to the runtime. `HandleVoteReq` takes
  `inLease` as an input that is only possible while the vote is committed:
  every timing of the lease is explored and no property may depend on it.
* **Replication.** The progress search of a replication stream is abstracted
  to four kinds of request: `probe` (previous log id = the leader's last log
  id, no entry), `tail` (the last entry alone), `entries` (everything after
  what is known to match) and `heartbeat` (that request without the entries).
  One call per target is in flight; a second one is a retry and counts as a
  repeated delivery.
* **Membership change** is given by the voter set it asks for, the result of
  `changes.apply_to(last)`.
* **Snapshot installation.** `FollowingHandler::install_full_snapshot` is not
  in the source. The model follows `spec.md` section 4.1 and scenario S6
  (take the meta, commit the snapshot's last log id, `update_committed` with
  its membership, purge up to it) and adds what the code around it relies
  on: a snapshot at or below `committed` is not installed (the note above
  `finish_building_snapshot`), and the uncommitted entries are cut when the
  log holds a different entry at the snapshot's index, without which the
  entries left after the purge would be another leader's. Two terms never
  produce such a conflict; the three terms of `stale_membership` do.
  `accepted` is left as it is: `spec.md` names no update of it for a
  snapshot, and a follower that commits by a later heartbeat is bounded by
  what it accepted as entries.
* **`update_committed` of the membership state** returns whether the
  effective config changed, which the caller turns into a command for the
  runtime; the model keeps the new state and drops the flag.
* **Snapshot reply.** `SnapshotResponse` carries the vote alone. The
  `matching` field of the model's reply is what the leader's stream knows it
  sent; the leader uses it only if the reply's vote is its own.
* **Built snapshots.** A state machine snapshots what is applied, which the
  model takes to be everything committed, with the last membership at or
  below it.
* **`forward_to_leader`** is `RaftState`'s and not in the source; the cases
  of `raft_state_test.rs` fix it: the node of a committed vote if the
  effective membership has it, as voter or learner, and nobody otherwise.
* **Purge policy.** `schedule_policy_based_purge` keeps
  `MaxInSnapshotLogToKeep` entries below the snapshot; `try_purge_log` of a
  leader purges up to the least matching index over voters and learners
  (`spec.md` section 4.4). The doc comment of `try_purge_log`
  (`engine_impl.rs:569`) words the rule as "when no replication tasks are
  using them"; which entries a replication task is reading is known to the
  runtime alone, and the model takes the rule of `spec.md`: an entry that
  some target still lacks is in use.

## Runs

Every configuration has three nodes, all voters of the initial membership.

| run | bounds | checks | shows |
| --- | --- | --- | --- |
| `election` | terms <= 2; n1 and n2 initialize and elect; all links up; no replication | `TypeOK`, `ElectionSafety`, `LeadingStateFollowsVote` | competing candidates with delayed and lost votes never produce two leaders of a term |
| `replication` | term 1; log <= 3; all four request kinds; one repeated delivery | `TypeOK`, `LogMatching`, `MatchingIsReplicated` | duplicated, reordered and refused requests leave logs matching and progress true |
| `failover` | terms <= 2; log <= 3; n2 elects; all links up | `StateMachineSafety`, `LeaderCompleteness`, `ImplementsReplicatedLog` | a second leader never loses or rewrites what was committed; every step of the cluster is a step of the abstract replicated log |
| `partition` | terms <= 2; log <= 3; entries and heartbeats; link n1-n3 down; n1 and n2 elect | `AssertionsHold`, `LeaderCompleteness`, `StateMachineSafety` | a cut-off leader and its successor trip no assertion and lose nothing committed; a heartbeat commits only what was accepted from its leader |
| `membership` | terms <= 2; log <= 4; goals `{n1}` and `{n2}`; one restart; n2 elects; link n1-n3 down | `MembershipFollowsLog`, `CommittedMembershipIsCommitted`, `LeaderStaysUntilCommitted`, `AssertionsHold`, `RefusedWriteGoesElsewhere`, `StateMachineSafety`, `LogMatching` | joint changes, a leader that removes itself or everybody else, truncated membership entries and a restart in the middle of a change; a leader that stepped down keeps its committed vote and still sends no client back to itself; the voters of the old and of the new config never commit different entries, and a follower tells the old leader's entry from the new leader's entry at the same index |
| `snapshot` | terms <= 2; log <= 3; n2 and n3 build snapshots; the policy keeps 1 entry; purges asked for at indexes 1 and 2; one restart; n2 elects; link n1-n3 down | `TypeOK`, `WatermarksOrdered`, `AssertionsHold`, `StateMachineSafety`, `LeadingStateFollowsVote`, `ImplementsReplicatedLog`, `LeaderPurgeWaitsForFollowers` | snapshots built, reported late, sent and installed, logs purged by policy and on request, and a restart at any point, of a leader too; every step is a step of the abstract replicated log although the logs forget what they purge |
| `progress` | `FairSpec`; term 1; log <= 3; n1 is initialized and builds snapshots; goal `{n1, n2}`; probes and entries; all links up | `WritesReachEveryNode`, `ScheduledPurgeHappens`, `MembershipChangeCompletes` | under fairness the election that `initialize` starts is won, every entry of the leader is committed everywhere, every scheduled purge is done, and a joint config becomes the committed membership of the leader that appended it |
| `lexvote` | term 1 | `ElectionSafety` is **violated** | the vote order of `spec.md` section 3 gives two leaders in one term |
| `elect_precondition` | terms <= 2; every node initializes and elects | `LastSeenVoteCoversVote` is **violated** | the assertion at the head of `elect` can fail |
| `reply_before_flush` | `MCDurableLog`; terms <= 2; log <= 2; n2 elects and may crash once; link n1-n3 down | `StateMachineSafety` is **violated** | a follower that answers before its store has written, and then crashes, is elected without an entry the leader committed on its answer |
| `stale_membership` | terms <= 3; log <= 5; goal `{n1, n2}`; n3 builds snapshots; n2 and n3 elect; links n1-n2, n2-n3 and n3 to n1; constraint `NarrowSearch` | `MembershipFollowsLog` is **violated** | a snapshot leaves an uncommitted, purged config in effect |
| `s5` | term 1; `MCScenarioS5` | `AssertionsHold` is **violated** | scenario S5 of `spec.md` trips the assertion of `following_handler` |

`StateMachineSafety`, `LeaderCompleteness` and `ImplementsReplicatedLog` are
stated against `chosen`, so they compare a node with what was committed
earlier and not only with what other nodes hold now: a node that commits at
an index whose first committed entry every holder has purged is still held
to that entry, and the committed, snapshot and purge log ids of a node must
name entries of `chosen`. `ImplementsReplicatedLog` adds the step view: no
step shortens or changes what a node has committed, a purge, a restart and a
late snapshot included.

### Why the bounds are enough

* Three nodes are the least with a quorum that is not everybody; with the
  link n1-n3 down, n2 is in every quorum and both n1 and n2 can lead.
* Two terms give an old and a new leader, a stale reply of term 1 arriving in
  term 2, and a deposed leader whose uncommitted entries get truncated.
* A log of three entries holds the initial membership, a blank entry and one
  client write per leader; four entries hold the joint and the uniform config
  of a whole membership change, and they hold the entry of a deposed leader
  with the blank entry and a write of its successor at and after the same
  index, which is the least log in which a conflict that went unnoticed
  shows (`LogMatching` in `membership`; in `replication`, with one term,
  the property is about gaps and repeated requests only).
* The goals `{n1}` and `{n2}` are the two changes that matter for safety:
  towards the leader alone, whose new config has a quorum that no other
  node is part of, and towards the node that may be elected, which removes
  the leader. In both, one follower is removed. The joint config of either
  change needs a majority of all three nodes as well, and that is what
  `StateMachineSafety` rests on in this run.
* In the liveness run the log has room for the joint config and not for the
  uniform one after it: what is checked is that the entry of the change is
  committed as a membership, the step every later change waits for.
* One repeated delivery is enough for a request to arrive after a later one
  and for a reply to be counted twice.
* With one entry kept by the policy and purges asked for at indexes 1 and 2,
  a purge request falls below, at and above what is scheduled and at and
  above the snapshot. A follower that snapshots and purges and is then
  elected holds less than its targets need, so it sends its snapshot; a
  snapshot that was built or sent before a restart or an election arrives
  after it.
* `stale_membership` needs three terms: a leader never purges what a target
  lacks, so the snapshot that reaches a node with a conflicting log comes
  from a node that purged as a follower and was elected later. Three terms
  without a constraint are out of reach; `NarrowSearch` keeps at most three
  messages in flight, a log of at most three entries on n1, and lets n2
  stand in term 2 and n3 in term 3 only. A constraint can hide a violation
  and cannot make one: the trace TLC finds is a behaviour of `Spec`.
* Each mutant in `PROJECT.json` is a plausible bug in one mapped definition
  that TLC finds within the same bounds: the interesting cases do happen
  inside them.

The constants `Initializers`, `Electors`, `Requests`, `Links` and `Goals`
narrow what the environment does in a run; they never change what an engine
does with an event.

### Crashes and the log store

`Restart` of `RaftEngine` keeps everything the engine appended: it is a
process that stops and starts over a store that had written all of it.
`MCDurableLog` takes that away. `flushed[n]` counts the entries of the log
of `n` that are durable; every step of the cluster leaves it where it was,
or lower if the step cut the log below it (`Written`); `Flush(n, upto)`
raises it to any position of the log, so that a request that carried two
entries can be half written; and `Crash(n)` restarts `n` from `Stored(n)`:
the log up to `flushed[n]`, `committed` and `accepted` no further than its
end, the vote as it was (`spec.md` section 6 stores a vote before it is
answered). What the engine does is unchanged: `handle_append_entries`
answers in the step in which it appends, as its `Respond` command with
`when: None` says.

Only n2 crashes, and only while it does not lead. A leader counts its own
log as matching when it appends, in `LeaderHandler`, which is not in the
source; the crash of a follower asks the question of `engine_impl.rs:436`
alone. The run has neither snapshots nor purges, so positions of the log
and indexes coincide.

### Deadlock

Every configuration sets `CHECK_DEADLOCK FALSE`. The cluster is event driven:
with no message in flight, every election within `MaxTerm` held and the log
at `MaxLogLen`, no event is left, and a real cluster without client load and
with a stable leader is just as quiet.

### Fairness and liveness

`FairSpec` is `Spec` with what the runtime guarantees:

* **The event loop.** Each node runs one loop that takes events off a queue,
  so an event that has arrived is handled, whatever arrives after it. A
  handler is enabled exactly while its message is in flight to the node and
  is the only step that takes the message out of flight, so the weak fairness
  of a handler is written on the messages (`EventLoopFairness`: again and
  again the inbox is empty or a message leaves it), for each receiver,
  sender and type; a sender has one call of a type in flight.
* **The replication streams.** A leader runs one stream per target that
  sends what is due whenever it is idle. The model chooses the kind of
  request, and while a call is in flight no request is enabled, so a kind
  that is due again and again is sent again and again: strong fairness of
  `Replicate` for each kind, and of `ReplicateSnapshot`.
* **Nothing else.** Clients, operators, election timers and state machines
  that build snapshots owe no step.

The liveness run has no repeated delivery and no restart, and its links are
up: a message that was sent is in flight until it is handled. It starts
from three new nodes: `initialize` makes n1 a candidate, the fairness of
the event loop has the vote requests and the replies handled, and n1 leads
without any timer. `WritesReachEveryNode`, `ScheduledPurgeHappens` and
`MembershipChangeCompletes` are recurrences (`[]<>`): again and again every
node has committed all that any node holds, every log is purged as far as
scheduled, and the effective membership of a leader is its committed one.
The first fails if requests carry entries only, because the commit index
reaches a follower on the request after the one that carried the entries:
the probes of the stream are what carries it. The third is about the last
entry of a log: an operator may ask for a change and nothing after it, so
`MembershipState::commit` has to take the commit of the membership entry
itself; a comparison that waits for a later entry passes every safety
property and leaves the change, and `next_membership` with it (`InProgress`),
waiting for ever.

A restart is left out of this run for a reason the code gives: `Engine::new`
drops the Candidate, `handle_vote_resp` ignores the replies that arrive
after it, and only an election timer makes the node stand again. Whether a
cluster without a leader elects one depends on those timers, which the
runtime owns, as it owns the reading of `seen_greater_log`, which the
engine only sets and clears; no property is stated about it. Two things
stand in the way of stating one. With terms bounded, the last election may
fail, so the property needs an escape for behaviours that have used the
terms up without a leader. And with weak fairness of `Elect`, two terms and one restart, the state
graph of the liveness run has more than four million states, which a
liveness check does not finish in minutes.

## Findings

1. **Vote order (`lexvote`).** The lexicographic order of `spec.md` section 3
   contradicts election safety (section 8, invariant 8).
2. **Precondition of `elect` (`elect_precondition`).** Under the order that
   election safety needs, `last_seen_vote >= vote` is not an invariant: a
   reply and a grant for two candidates of one term leave the two votes
   unordered, and the `debug_assert!` at the head of `elect` fails.
3. **Follower commit.** `spec.md` bounds the commit by `last_log_id`; the
   code reads `accepted`. The wording of `spec.md` commits an entry that the
   new leader overwrites: it is the variant
   `handle_commit_entries_by_last_log_id`, under which `partition` violates
   `StateMachineSafety`.
4. **Scenario S5 (`s5`).** `handle_commit_entries` on a leader fails the
   assertion of `following_handler`.
5. **Stale membership after a snapshot (`stale_membership`).**
   `update_committed` (`membership_state.rs:149`) replaces the effective
   config only by one of an index at least as high. A node that holds an
   uncommitted joint config of a deposed leader at (1,2) and installs a
   snapshot at (2,3), whose last membership is still the initial config at
   (0,0), keeps the joint config in effect: its entry is purged and was
   never committed, and no later truncation reverts it. The node counts
   quorums by a config the cluster never agreed on.
6. **Reply before flush (`reply_before_flush`).** `handle_append_entries`
   pushes `Respond` with `when: None` (`engine_impl.rs:435`); `spec.md`
   section 5 says the reply waits for the flush. Over a store that writes
   behind: n1 leads term 1 and sends the membership entry and its blank
   entry (1,1) to n2; n2 appends both and answers; n1 commits (1,1) on the
   answer; the store of n2 has written the first entry only when n2
   crashes; n2 restarts with that entry, is elected for term 2 with the
   vote of n3, appends its own blank entry (2,1) and commits it. n1 even
   accepts it: `has_log_id` takes every log id at or below its committed
   index as present. Two nodes have committed different entries at index 1.
   Whether the runtime holds the reply back by other means is outside the
   source.
7. **Learners grant votes.** `handle_vote_req` has no membership check;
   `spec.md` says only voters grant.
8. **Doc comment of `commit`.** The comment above `MembershipState::commit`
   (`membership_state.rs:126`) says the state is updated if the committed
   log id is *greater than* that of the effective config. The code compares
   with `>=` (line 128), and the assertion below it and `spec.md` section
   4.1 agree with the code. The comment's rule is the faulty variant
   `MSCommitByLaterEntry`: every safety property holds under it and
   `MembershipChangeCompletes` fails in `progress`, because a membership
   entry that is the last of the log is never taken as committed.

## Not modelled

* `handle_begin_receiving_snapshot`, which pushes a command for the state
  machine and changes nothing in the engine, and the transfer of a snapshot
  in chunks: a snapshot arrives whole.
* `LogIdList`, the compressed list of log ids behind `get_log_id` and
  `prev_log_id`: the model keeps every entry that is not purged.
* The output command queue as a queue: commands are modelled by their
  effect. The one wait condition the source sets, the `None` of the reply
  of `handle_append_entries`, is what `MCDurableLog` is about; the order of
  commands within a handler is not modelled.
* A leader that crashes with entries its store had not written, and the
  write-behind store together with snapshots and purges: `LeaderHandler`,
  which counts the leader's own log as matching, is not in the source.
* The accessors that only hand out a handler or a reference
  (`vote_handler`, `log_handler`, `snapshot_handler`, `candidate_ref`,
  `candidate_mut`, `testing_new_leader`): they change no state.
  `replication_handler` and `following_handler` are modelled, because they
  assert.
* The lease clock and the election timers as clocks, and with them the
  liveness of elections (see "Fairness and liveness" for what was tried).
* What is left of `engine_impl.rs` and `membership_state.rs` outside the
  map: imports, doc comments, `tracing` calls, the `MessageSummary` of a
  membership state, the accessors that return a field or build a handler,
  and the test-only constructors. Every function of the two files that changes the state of
  an engine is an operator of `RaftEngine` or `MembershipState`.
* Learners that are added to a cluster, and the replies to clients other
  than `forward_to_leader`.
* Tracing, display and metrics.

## Plan

1. **Durability of the leader**: the leader's own append counted as
   matching only when flushed, and a leader that crashes; the write-behind
   store under purge and snapshot installation.
2. **Log ids as keys**: `LogIdList` and the accessors of `RaftState` as pure
   operators, checked against the full log and against the cases of
   `raft_state_test.rs`.
3. **Learners**: learners added to a cluster by a membership change, and
   their part in `try_purge_log` and `forward_to_leader`.
4. **Timers**: the lease and the election timeout as counters, and the
   property that a connected quorum eventually has a leader.
5. **Restarts during elections**: `election` has no restart, because one
   restart triples its state graph; `snapshot` and `membership` restart a
   node while n2 stands, with one elector.
6. **Elections after a purge**: in `snapshot` the one elector is in every
   quorum, so it holds whatever was committed; a run in which both holders
   of a committed entry purge it before the third node stands would put the
   log check of `handle_vote_req` against `last_purged_log_id` alone.

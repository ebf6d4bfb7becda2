---------------------------- MODULE MCDurableLog ----------------------------
(***************************************************************************)
(* The cluster of RaftEngine over a log store that writes behind.  The     *)
(* engine changes its log in memory and queues the change for the store;   *)
(* spec.md section 5 leaves any waiting for a durable write to a wait      *)
(* condition on a command, and handle_append_entries pushes its reply with *)
(* none.  A node that crashes starts again from what its store had         *)
(* written.  Votes are stored before they are answered (spec.md section    *)
(* 6), so they survive as they are.  Logs are neither purged nor replaced  *)
(* by snapshots here.                                                      *)
(***************************************************************************)
EXTENDS MCRaftEngine

\* The nodes that may crash.
CONSTANT Crashers

ASSUME Crashers \subseteq Nodes /\ Snapshotters = {} /\ PurgeIndexes = {}

\* flushed[n] is the number of entries of the log of n that are durable.
VARIABLE flushed

varsD == <<vars, flushed>>

InitD == Init /\ flushed = [n \in Nodes |-> 0]

\* What a step of the engines leaves durable: the store of a node holds
\* the entries it wrote for as long as the log is not cut below them.
Written(n) == Len(LongestCommonPrefix({SubSeq(Log(n), 1, flushed[n]), engine'[n].log}))

\* The store of node n has written the entries that were queued, up to
\* the one at position upto.
Flush(n, upto) ==
    /\ upto > flushed[n]
    /\ flushed' = [flushed EXCEPT ![n] = upto]
    /\ UNCHANGED vars

\* The state node n finds when it starts after a crash: the log ends with
\* the last durable entry, and nothing beyond it is committed or accepted.
Stored(n) ==
    LET cut == truncate_logs(engine[n], PurgedIndex(n) + flushed[n] + 1)
    IN  [cut EXCEPT !.committed = LogIdMin(@, last_log_id(cut)),
                    !.accepted = LogIdMin(@, last_log_id(cut)),
                    !.building_snapshot = FALSE,
                    !.failed = engine[n].failed]

\* A node that follows crashes with entries that are not durable, and
\* starts again.  A node that leads does not crash here: its own log counts
\* as matching when it appends (LeaderHandler, spec.md section 4.6), which
\* asks the same question of code that is not under src/.
Crash(n) ==
    /\ restarts < MaxRestarts
    /\ engine[n].leader = None
    /\ flushed[n] < Len(Log(n))
    /\ restarts' = restarts + 1
    /\ Step(n, startup(new(Stored(n)), n))
    /\ UNCHANGED <<messages, duplicates, flushed>>

NextD ==
    \/ Next /\ flushed' = [n \in Nodes |-> Written(n)]
    \/ \E n \in Nodes : \E upto \in DOMAIN Log(n) : Flush(n, upto)
    \/ \E n \in Crashers : Crash(n)

SpecD == InitD /\ [][NextD]_varsD
=============================================================================

---------------------------- MODULE MCScenarioS5 ----------------------------
(***************************************************************************)
(* Scenario S5 of spec.md section 8: handle_commit_entries is called on a  *)
(* node that is the leader, with the log id of a committed membership      *)
(* entry.  The cluster of RaftEngine is extended by that one event.        *)
(***************************************************************************)
EXTENDS MCRaftEngine

\* The runtime of leader n calls handle_commit_entries with what the leader
\* has committed.
CommitOnLeader(n) ==
    /\ leader_handler_ok(engine[n])
    /\ Step(n, handle_commit_entries(engine[n], n, engine[n].committed))
    /\ UNCHANGED <<messages, restarts, duplicates>>

NextS5 == Next \/ \E n \in Nodes : CommitOnLeader(n)

SpecS5 == Init /\ [][NextS5]_vars
=============================================================================

---------------------------- MODULE RaftElection ----------------------------
(***************************************************************************)
(* Leader election of pkg/raft/node.go in a formed cluster (clusterConfig  *)
(* holds every node of Node): the election timer, pre-vote, RequestVote,   *)
(* leadership transfer, the step-down paths of the replication RPCs, the   *)
(* term and vote kept in state.json, and process crashes.                  *)
(*                                                                         *)
(* A Go function is one action as long as it holds n.mu, and is cut where  *)
(* the code unlocks: between the campaign and its save, between the two    *)
(* field reads of an unlocked save, between the win check and              *)
(* becomeLeader, and between becomeLeader and its no-op.                   *)
(*                                                                         *)
(* The log is abstracted to the position of its last entry, which is all   *)
(* that an election reads.  What an accepted AppendEntries does to that    *)
(* position is a choice between leaving it and taking over the sender's    *)
(* (module RaftLog has a log itself).                                      *)
(***************************************************************************)
EXTENDS Integers, FiniteSets

CONSTANTS
  Node,          \* cluster members, the keys of clusterConfig.Nodes
  Nil,           \* the empty NodeID ""
  MaxTerm,       \* bound: no node campaigns beyond this term
  MaxCrashes,    \* bound: process crashes in a behaviour
  MaxTransfers,  \* bound: TransferLeadership calls in a behaviour
  MaxLeaderRPCs, \* bound: AppendEntries and InstallSnapshot calls
  DiskMayFail    \* TRUE: a write of state.json may fail

ASSUME NodeAssumption == IsFiniteSet(Node) /\ Nil \notin Node

ASSUME BoundAssumption ==
  /\ MaxTerm \in Nat
  /\ MaxCrashes \in Nat
  /\ MaxTransfers \in Nat
  /\ MaxLeaderRPCs \in Nat
  /\ DiskMayFail \in BOOLEAN

VARIABLES
  currentTerm,   \* Node.currentTerm
  votedFor,      \* Node.votedFor
  state,         \* Node.state
  leaderID,      \* Node.leaderID
  lastLog,       \* position of the last log entry
  timer,         \* is the election timer armed?
  election,      \* election[n][w]: the election goroutine w of node n
  save,          \* save[n][w]: an unlocked savePersistentState in progress
  transfer,      \* transferTarget and the term captured by TransferLeadership
  disk,          \* state.json
  msgs,          \* RPCs and replies in flight
  grants,        \* history: every vote cast; a candidate's own once it asks
  won,           \* history: the elections that passed the win check
  rolledBack,    \* history: nodes restarted from a state older than a vote cast
  used           \* how much of each bound is used up

vars == <<currentTerm, votedFor, state, leaderID, lastLog, timer, election,
          save, transfer, disk, msgs, grants, won, rolledBack, used>>

-----------------------------------------------------------------------------
(* Data *)

Term == Nat
Position == [index : Nat, term : Term]

\* Mutant of NoPosition: an empty log's last index as len(entries) - 1.
NoPositionBelowZero == [index |-> -1, term |-> 0]

\* LastIndex and LastTerm of a log without entries.
NoPosition == [index |-> 0, term |-> 0]

\* The two goroutines that can run an election on a node: runLoop
\* (startElection) and the one HandleTimeoutNow spawns.
Worker == {"loop", "now"}

\* Callers of savePersistentState without n.mu: the two above, and the
\* goroutine that handles a RequestVote reply.
Saver == Worker \cup {"reply"}

Phase == {"idle", "spawned", "prevote", "saving", "voting", "won", "noop"}

Idle == [phase |-> "idle", term |-> 0, pos |-> NoPosition, votes |-> {}]

NoSave == [step |-> "none", term |-> 0, vote |-> Nil]

NoTransfer == [step |-> "none", target |-> Nil, term |-> 0]

ElectionRecord == [phase : Phase, term : Term, pos : Position,
                   votes : SUBSET Node]

SaveRecord == [step : {"none", "readTerm", "readVote", "write"},
               term : Term, vote : Node \cup {Nil}]

TransferRecord == [step : {"catchUp", "sent"}, target : Node, term : Term]

DiskRecord == [term : Term, vote : Node \cup {Nil}]

VoteRecord == [voter : Node, term : Term, candidate : Node]

WinRecord == [node : Node, term : Term]

UsedRecord == [crashes : 0..MaxCrashes, transfers : 0..MaxTransfers,
               rpcs : 0..MaxLeaderRPCs]

\* One record for every RPC or reply; a field a kind does not use is fixed.
Message == [kind : {"RequestVote", "VoteReply", "AppendEntries",
                    "InstallSnapshot", "StaleReply", "TimeoutNow"},
            src : Node, dst : Node, worker : Worker,
            term : Term, asked : Term, pos : Position, granted : BOOLEAN]

Msg(kind, src, dst, term) ==
  [kind |-> kind, src |-> src, dst |-> dst, worker |-> "loop", term |-> term,
   asked |-> 0, pos |-> NoPosition, granted |-> FALSE]

\* Mutant of quorumSize: half the cluster.
quorumHalf == Cardinality(Node) \div 2

\* A majority of clusterConfig.Nodes.
quorumSize == (Cardinality(Node) \div 2) + 1

\* Is a candidate's last position at least as up to date as ours?
isLogUpToDate(theirs, ours) ==
  IF theirs.term # ours.term THEN theirs.term > ours.term
                             ELSE theirs.index >= ours.index

\* The vote c by v in term t.
Vote(v, t, c) == [voter |-> v, term |-> t, candidate |-> c]

-----------------------------------------------------------------------------
(* Saving the term and the vote *)

\* A savePersistentState that completes: state.json is replaced, or the
\* write fails, which every caller ignores.
Persist(n, t, v) ==
  \/ disk' = [disk EXCEPT ![n] = [term |-> t, vote |-> v]]
  \/ DiskMayFail /\ UNCHANGED disk

\* An unlocked savePersistentState is called: n.mu is free again before it
\* reads the fields.
BeginSave(n, w) == save' = [save EXCEPT ![n][w].step = "readTerm"]

ReadTerm(n, w) ==
  /\ save[n][w].step = "readTerm"
  /\ save' = [save EXCEPT ![n][w] = [step |-> "readVote",
                                     term |-> currentTerm[n], vote |-> Nil]]
  /\ UNCHANGED <<currentTerm, votedFor, state, leaderID, lastLog, timer,
                 election, transfer, disk, msgs, grants, won, rolledBack, used>>

ReadVote(n, w) ==
  /\ save[n][w].step = "readVote"
  /\ save' = [save EXCEPT ![n][w].step = "write", ![n][w].vote = votedFor[n]]
  /\ UNCHANGED <<currentTerm, votedFor, state, leaderID, lastLog, timer,
                 election, transfer, disk, msgs, grants, won, rolledBack, used>>

\* Write the temporary file and rename it over state.json.  An election
\* goroutine then asks every peer for its vote.
WriteState(n, w) ==
  /\ save[n][w].step = "write"
  /\ Persist(n, save[n][w].term, save[n][w].vote)
  /\ save' = [save EXCEPT ![n][w] = NoSave]
  /\ IF w \in Worker
       THEN LET e == election[n][w]
            IN  /\ election' = [election EXCEPT ![n][w].phase = "voting"]
                /\ msgs' = msgs \cup
                     {[Msg("RequestVote", n, p, e.term) EXCEPT
                         !.worker = w, !.pos = e.pos] : p \in Node \ {n}}
                /\ grants' = grants \cup {Vote(n, e.term, n)}
       ELSE UNCHANGED <<election, msgs, grants>>
  /\ UNCHANGED <<currentTerm, votedFor, state, leaderID, lastLog, timer,
                 transfer, won, rolledBack, used>>

-----------------------------------------------------------------------------
(* Elections *)

\* runLoop receives from electionTimer.C; startElection reads the term and
\* the log position and opens the pre-vote round for term + 1.
StartElection(n) ==
  /\ timer[n]
  /\ election[n]["loop"].phase = "idle"
  /\ currentTerm[n] < MaxTerm
  /\ timer' = [timer EXCEPT ![n] = FALSE]
  /\ election' = [election EXCEPT ![n]["loop"] =
       [phase |-> "prevote", term |-> currentTerm[n] + 1, pos |-> lastLog[n],
        votes |-> {n}]]
  /\ UNCHANGED <<currentTerm, votedFor, state, leaderID, lastLog, save,
                 transfer, disk, msgs, grants, won, rolledBack, used>>

\* HandlePreVote on p grants, and runPreVote counts it.  The handler changes
\* nothing on p and a refusal changes nothing on n.
HandlePreVote(p, n) ==
  LET e == election[n]["loop"] IN
  /\ e.phase = "prevote"
  /\ p \notin e.votes
  /\ e.term >= currentTerm[p]
  /\ isLogUpToDate(e.pos, lastLog[p])
  /\ election' = [election EXCEPT ![n]["loop"].votes = @ \cup {p}]
  /\ UNCHANGED <<currentTerm, votedFor, state, leaderID, lastLog, timer, save,
                 transfer, disk, msgs, grants, won, rolledBack, used>>

\* Mutant of Campaign: the candidate does not record its own vote.
CampaignUnrecorded(n, w, pos) ==
  /\ currentTerm[n] < MaxTerm
  /\ state' = [state EXCEPT ![n] = "Candidate"]
  /\ currentTerm' = [currentTerm EXCEPT ![n] = @ + 1]
  /\ votedFor' = [votedFor EXCEPT ![n] = Nil]
  /\ election' = [election EXCEPT ![n][w] =
       [phase |-> "saving", term |-> currentTerm[n] + 1, pos |-> pos,
        votes |-> {n}]]
  /\ BeginSave(n, w)

\* Become a candidate of the next term, vote for oneself, unlock, and call
\* savePersistentState.
Campaign(n, w, pos) ==
  LET t == currentTerm[n] + 1 IN
  /\ currentTerm[n] < MaxTerm
  /\ state' = [state EXCEPT ![n] = "Candidate"]
  /\ currentTerm' = [currentTerm EXCEPT ![n] = t]
  /\ votedFor' = [votedFor EXCEPT ![n] = n]
  /\ election' = [election EXCEPT ![n][w] =
       [phase |-> "saving", term |-> t, pos |-> pos, votes |-> {n}]]
  /\ BeginSave(n, w)

\* The pre-vote round ends with a quorum: the real election begins, with the
\* log position read before the pre-vote round.
PreVoteWon(n) ==
  LET e == election[n]["loop"] IN
  /\ e.phase = "prevote"
  /\ Cardinality(e.votes) >= quorumSize
  /\ Campaign(n, "loop", e.pos)
  /\ UNCHANGED <<leaderID, lastLog, timer, transfer, disk, msgs, grants, won,
                 rolledBack, used>>

\* The pre-vote round ends (every answer in, or 100 ms) without a quorum.
PreVoteLost(n) ==
  /\ election[n]["loop"].phase = "prevote"
  /\ Cardinality(election[n]["loop"].votes) < quorumSize
  /\ election' = [election EXCEPT ![n]["loop"] = Idle]
  /\ timer' = [timer EXCEPT ![n] = TRUE]
  /\ UNCHANGED <<currentTerm, votedFor, state, leaderID, lastLog, save,
                 transfer, disk, msgs, grants, won, rolledBack, used>>

\* startImmediateElection: no pre-vote.
StartImmediateElection(n) ==
  /\ election[n]["now"].phase = "spawned"
  /\ Campaign(n, "now", lastLog[n])
  /\ UNCHANGED <<leaderID, lastLog, timer, transfer, disk, msgs, grants, won,
                 rolledBack, used>>

\* A handled RequestVote: the new state of the voter p, and its answer.
HandleRequestVote(m) ==
  LET p       == m.dst
      newer   == m.term > currentTerm[p]
      vote    == IF newer THEN Nil ELSE votedFor[p]
      granted == /\ vote \in {Nil, m.src}
                 /\ isLogUpToDate(m.pos, lastLog[p])
      vote2   == IF granted THEN m.src ELSE vote
      answer(t, g) == [m EXCEPT !.kind = "VoteReply", !.src = p, !.dst = m.src,
                                !.term = t, !.asked = m.term, !.granted = g,
                                !.pos = NoPosition]
  IN
  /\ m.kind = "RequestVote"
  /\ \/ /\ m.term < currentTerm[p]
        /\ msgs' = (msgs \ {m}) \cup {answer(currentTerm[p], FALSE)}
        /\ UNCHANGED <<currentTerm, state, votedFor, grants, timer, disk>>
     \/ /\ m.term >= currentTerm[p]
        /\ currentTerm' = [currentTerm EXCEPT ![p] = m.term]
        /\ state' = [state EXCEPT ![p] = IF newer THEN "Follower" ELSE @]
        /\ votedFor' = [votedFor EXCEPT ![p] = vote2]
        /\ grants' = IF granted THEN grants \cup {Vote(p, m.term, m.src)}
                                ELSE grants
        /\ timer' = [timer EXCEPT ![p] = @ \/ granted]
        /\ Persist(p, m.term, vote2)
        /\ msgs' = (msgs \ {m}) \cup
                     (IF granted THEN {answer(m.term, TRUE)} ELSE {})
  /\ UNCHANGED <<leaderID, lastLog, election, save, transfer, won, rolledBack,
                 used>>

\* The goroutine waiting for a RequestVote answer: step down on a newer term
\* (saving after the unlock), else count a granted vote.  A vote that arrives
\* after the round has been counted goes nowhere.
HandleVoteReply(m) ==
  LET n == m.dst
      e == election[n][m.worker]
  IN
  /\ m.kind = "VoteReply"
  /\ msgs' = msgs \ {m}
  /\ IF m.term > currentTerm[n]
       THEN /\ save[n]["reply"] = NoSave   \* bound: one such save at a time
            /\ currentTerm' = [currentTerm EXCEPT ![n] = m.term]
            /\ state' = [state EXCEPT ![n] = "Follower"]
            /\ votedFor' = [votedFor EXCEPT ![n] = Nil]
            /\ BeginSave(n, "reply")
            /\ UNCHANGED election
       ELSE /\ election' =
                 IF m.granted /\ e.phase = "voting" /\ e.term = m.asked
                   THEN [election EXCEPT ![n][m.worker].votes = @ \cup {m.src}]
                   ELSE election
            /\ UNCHANGED <<currentTerm, state, votedFor, save>>
  /\ UNCHANGED <<leaderID, lastLog, timer, transfer, disk, grants, won,
                 rolledBack, used>>

\* The round ends (every answer in, or 100 ms) and the win check succeeds;
\* n.mu is released before becomeLeader is called.
CountVotesWon(n, w) ==
  LET e == election[n][w] IN
  /\ e.phase = "voting"
  /\ state[n] = "Candidate"
  /\ currentTerm[n] = e.term
  /\ Cardinality(e.votes) >= quorumSize
  /\ won' = won \cup {[node |-> n, term |-> e.term]}
  /\ election' = [election EXCEPT ![n][w] = [Idle EXCEPT !.phase = "won"]]
  /\ UNCHANGED <<currentTerm, votedFor, state, leaderID, lastLog, timer, save,
                 transfer, disk, msgs, grants, rolledBack, used>>

\* The round ends and the win check fails.
CountVotesLost(n, w) ==
  LET e == election[n][w] IN
  /\ e.phase = "voting"
  /\ ~ /\ state[n] = "Candidate"
       /\ currentTerm[n] = e.term
       /\ Cardinality(e.votes) >= quorumSize
  /\ election' = [election EXCEPT ![n][w] = Idle]
  /\ timer' = [timer EXCEPT ![n] = TRUE]
  /\ UNCHANGED <<currentTerm, votedFor, state, leaderID, lastLog, save,
                 transfer, disk, msgs, grants, won, rolledBack, used>>

\* becomeLeader up to its unlock.  It does not look at the state again, and
\* leads whatever term the node is in by now.
BecomeLeader(n, w) ==
  /\ election[n][w].phase = "won"
  /\ state' = [state EXCEPT ![n] = "Leader"]
  /\ leaderID' = [leaderID EXCEPT ![n] = n]
  /\ election' = [election EXCEPT ![n][w].phase = "noop"]
  /\ UNCHANGED <<currentTerm, votedFor, lastLog, timer, save, transfer, disk,
                 msgs, grants, won, rolledBack, used>>

\* The end of becomeLeader: Propose(LogNoop), refused if no longer leader.
ProposeNoop(n, w) ==
  /\ election[n][w].phase = "noop"
  /\ election' = [election EXCEPT ![n][w] = Idle]
  /\ lastLog' = [lastLog EXCEPT ![n] =
       IF state[n] = "Leader"
         THEN [index |-> @.index + 1, term |-> currentTerm[n]] ELSE @]
  /\ UNCHANGED <<currentTerm, votedFor, state, leaderID, timer, save, transfer,
                 disk, msgs, grants, won, rolledBack, used>>

-----------------------------------------------------------------------------
(* Replication RPCs, as far as an election can see them *)

\* sendHeartbeats and replicateTo / sendSnapshot: a leader calls p.
SendLeaderRPC(n, p, kind) ==
  /\ state[n] = "Leader"
  /\ p # n
  /\ used.rpcs < MaxLeaderRPCs
  /\ used' = [used EXCEPT !.rpcs = @ + 1]
  /\ msgs' = msgs \cup {[Msg(kind, n, p, currentTerm[n]) EXCEPT
                 !.pos = IF kind = "AppendEntries" THEN lastLog[n] ELSE @]}
  /\ UNCHANGED <<currentTerm, votedFor, state, leaderID, lastLog, timer,
                 election, save, transfer, disk, grants, won, rolledBack>>

\* Mutant of FollowLeader: the vote is cleared in an unchanged term too.
FollowLeaderForgetting(m) ==
  LET p == m.dst IN
  /\ currentTerm' = [currentTerm EXCEPT ![p] = m.term]
  /\ votedFor' = [votedFor EXCEPT ![p] = Nil]
  /\ state' = [state EXCEPT ![p] = "Follower"]
  /\ leaderID' = [leaderID EXCEPT ![p] = m.src]
  /\ timer' = [timer EXCEPT ![p] = TRUE]

\* The common head of HandleAppendEntries and HandleInstallSnapshot for a
\* term that is not older: adopt the term, follow the sender.
FollowLeader(m) ==
  LET p == m.dst IN
  /\ currentTerm' = [currentTerm EXCEPT ![p] = m.term]
  /\ votedFor' = [votedFor EXCEPT ![p] =
                    IF m.term > currentTerm[p] THEN Nil ELSE @]
  /\ state' = [state EXCEPT ![p] = "Follower"]
  /\ leaderID' = [leaderID EXCEPT ![p] = m.src]
  /\ timer' = [timer EXCEPT ![p] = TRUE]

\* Either call carries an older term: the answer makes its sender step down.
RejectLeaderRPC(m) ==
  /\ m.kind \in {"AppendEntries", "InstallSnapshot"}
  /\ m.term < currentTerm[m.dst]
  /\ msgs' = (msgs \ {m}) \cup
               {Msg("StaleReply", m.dst, m.src, currentTerm[m.dst])}
  /\ UNCHANGED <<currentTerm, votedFor, state, leaderID, lastLog, timer,
                 election, save, transfer, disk, grants, won, rolledBack, used>>

\* The previous-entry check fails, or the state machine cannot restore the
\* snapshot: an early return, before the save.
EarlyReturn(m) ==
  /\ m.kind \in {"AppendEntries", "InstallSnapshot"}
  /\ m.term >= currentTerm[m.dst]
  /\ FollowLeader(m)
  /\ msgs' = msgs \ {m}
  /\ UNCHANGED <<lastLog, election, save, transfer, disk, grants, won,
                 rolledBack, used>>

\* The entries are accepted: the log ends where the leader's did, or is left
\* as it is (nothing new to append); the term and vote are saved.
AppendEntriesAccept(m) ==
  LET p == m.dst IN
  /\ m.kind = "AppendEntries"
  /\ m.term >= currentTerm[p]
  /\ FollowLeader(m)
  /\ \E pos \in {lastLog[p], m.pos} :
       lastLog' = [lastLog EXCEPT ![p] = pos]
  /\ Persist(p, m.term, votedFor'[p])
  /\ msgs' = msgs \ {m}
  /\ UNCHANGED <<election, save, transfer, grants, won, rolledBack, used>>

\* A snapshot is installed: TruncateAll leaves no last entry.
HandleInstallSnapshot(m) ==
  LET p == m.dst IN
  /\ m.kind = "InstallSnapshot"
  /\ m.term >= currentTerm[p]
  /\ FollowLeader(m)
  /\ lastLog' = [lastLog EXCEPT ![p] = NoPosition]
  /\ Persist(p, m.term, votedFor'[p])
  /\ msgs' = msgs \ {m}
  /\ UNCHANGED <<election, save, transfer, grants, won, rolledBack, used>>

\* replicateTo or sendSnapshot reads the answer of a peer in a newer term.
HandleStaleReply(m) ==
  LET n == m.dst IN
  /\ m.kind = "StaleReply"
  /\ msgs' = msgs \ {m}
  /\ IF m.term > currentTerm[n]
       THEN /\ currentTerm' = [currentTerm EXCEPT ![n] = m.term]
            /\ state' = [state EXCEPT ![n] = "Follower"]
            /\ votedFor' = [votedFor EXCEPT ![n] = Nil]
            /\ timer' = [timer EXCEPT ![n] = TRUE]
            /\ Persist(n, m.term, Nil)
       ELSE UNCHANGED <<currentTerm, state, votedFor, timer, disk>>
  /\ UNCHANGED <<leaderID, lastLog, election, save, transfer, grants, won,
                 rolledBack, used>>

-----------------------------------------------------------------------------
(* Leadership transfer *)

\* TransferLeadership up to its unlock.
TransferLeadership(n, p) ==
  /\ state[n] = "Leader"
  /\ transfer[n] = NoTransfer
  /\ p # n
  /\ used.transfers < MaxTransfers
  /\ used' = [used EXCEPT !.transfers = @ + 1]
  /\ transfer' = [transfer EXCEPT ![n] =
                    [step |-> "catchUp", target |-> p, term |-> currentTerm[n]]]
  /\ UNCHANGED <<currentTerm, votedFor, state, leaderID, lastLog, timer,
                 election, save, disk, msgs, grants, won, rolledBack>>

\* The target has caught up (the wait loop still sees a leader): TimeoutNow
\* is sent with the term read at the start, and the call waits on.
SendTimeoutNow(n) ==
  /\ transfer[n].step = "catchUp"
  /\ state[n] = "Leader"
  /\ msgs' = msgs \cup {Msg("TimeoutNow", n, transfer[n].target,
                            transfer[n].term)}
  /\ transfer' = [transfer EXCEPT ![n].step = "sent"]
  /\ UNCHANGED <<currentTerm, votedFor, state, leaderID, lastLog, timer,
                 election, save, disk, grants, won, rolledBack, used>>

\* The call returns: no longer leader, or its timeout has passed.
TransferReturn(n) ==
  /\ transfer[n] # NoTransfer
  /\ transfer' = [transfer EXCEPT ![n] = NoTransfer]
  /\ UNCHANGED <<currentTerm, votedFor, state, leaderID, lastLog, timer,
                 election, save, disk, msgs, grants, won, rolledBack, used>>

\* HandleTimeoutNow spawns an election when it comes from the leader the
\* node follows, in a term that is not older.
HandleTimeoutNow(m) ==
  LET n == m.dst IN
  /\ m.kind = "TimeoutNow"
  /\ msgs' = msgs \ {m}
  /\ IF m.term >= currentTerm[n] /\ m.src = leaderID[n]
       THEN /\ election[n]["now"] = Idle   \* bound: one spawned at a time
            /\ election' = [election EXCEPT ![n]["now"].phase = "spawned"]
       ELSE UNCHANGED election
  /\ UNCHANGED <<currentTerm, votedFor, state, leaderID, lastLog, timer, save,
                 transfer, disk, grants, won, rolledBack, used>>

-----------------------------------------------------------------------------
(* Crash and restart *)

\* Does the saved state d still know every vote that n has cast?
Covers(d, n) ==
  \A g \in grants :
    g.voter = n => \/ g.term < d.term
                   \/ g.term = d.term /\ g.candidate = d.vote

\* The process dies at any point and starts again: NewNode reads state.json,
\* runLoop arms the timer.  Answers to calls of the dead process are lost.
CrashRestart(n) ==
  /\ used.crashes < MaxCrashes
  /\ used' = [used EXCEPT !.crashes = @ + 1]
  /\ currentTerm' = [currentTerm EXCEPT ![n] = disk[n].term]
  /\ votedFor' = [votedFor EXCEPT ![n] = disk[n].vote]
  /\ state' = [state EXCEPT ![n] = "Follower"]
  /\ leaderID' = [leaderID EXCEPT ![n] = Nil]
  /\ timer' = [timer EXCEPT ![n] = TRUE]
  /\ election' = [election EXCEPT ![n] = [w \in Worker |-> Idle]]
  /\ save' = [save EXCEPT ![n] = [w \in Saver |-> NoSave]]
  /\ transfer' = [transfer EXCEPT ![n] = NoTransfer]
  /\ msgs' = {m \in msgs : ~ (m.dst = n /\ m.kind \in {"VoteReply",
                                                       "StaleReply"})}
  /\ rolledBack' = IF Covers(disk[n], n) THEN rolledBack
                                         ELSE rolledBack \cup {n}
  /\ UNCHANGED <<lastLog, disk, grants, won>>

-----------------------------------------------------------------------------

Init ==
  /\ currentTerm = [n \in Node |-> 0]
  /\ votedFor = [n \in Node |-> Nil]
  /\ state = [n \in Node |-> "Follower"]
  /\ leaderID = [n \in Node |-> Nil]
  /\ lastLog = [n \in Node |-> NoPosition]
  /\ timer = [n \in Node |-> TRUE]
  /\ election = [n \in Node |-> [w \in Worker |-> Idle]]
  /\ save = [n \in Node |-> [w \in Saver |-> NoSave]]
  /\ transfer = [n \in Node |-> NoTransfer]
  /\ disk = [n \in Node |-> [term |-> 0, vote |-> Nil]]
  /\ msgs = {}
  /\ grants = {}
  /\ won = {}
  /\ rolledBack = {}
  /\ used = [crashes |-> 0, transfers |-> 0, rpcs |-> 0]

Elect(n) ==
  \/ StartElection(n)
  \/ \E p \in Node : HandlePreVote(p, n)
  \/ PreVoteWon(n)
  \/ PreVoteLost(n)
  \/ StartImmediateElection(n)
  \/ \E w \in Worker : \/ CountVotesWon(n, w)
                       \/ CountVotesLost(n, w)
                       \/ BecomeLeader(n, w)
                       \/ ProposeNoop(n, w)
  \/ \E w \in Saver : ReadTerm(n, w) \/ ReadVote(n, w) \/ WriteState(n, w)

Lead(n) ==
  \/ \E p \in Node, kind \in {"AppendEntries", "InstallSnapshot"} :
       SendLeaderRPC(n, p, kind)
  \/ \E p \in Node : TransferLeadership(n, p)
  \/ SendTimeoutNow(n)
  \/ TransferReturn(n)

Receive(m) ==
  \/ HandleRequestVote(m)
  \/ HandleVoteReply(m)
  \/ RejectLeaderRPC(m)
  \/ EarlyReturn(m)
  \/ AppendEntriesAccept(m)
  \/ HandleInstallSnapshot(m)
  \/ HandleStaleReply(m)
  \/ HandleTimeoutNow(m)

Next ==
  \/ \E n \in Node : Elect(n) \/ Lead(n) \/ CrashRestart(n)
  \/ \E m \in msgs : Receive(m)

Spec == Init /\ [][Next]_vars

-----------------------------------------------------------------------------
(* Properties *)

\* Every variable keeps its type.
TypeOK ==
  /\ currentTerm \in [Node -> Term]
  /\ votedFor \in [Node -> Node \cup {Nil}]
  /\ state \in [Node -> {"Follower", "Candidate", "Leader"}]
  /\ leaderID \in [Node -> Node \cup {Nil}]
  /\ lastLog \in [Node -> Position]
  /\ timer \in [Node -> BOOLEAN]
  /\ election \in [Node -> [Worker -> ElectionRecord]]
  /\ save \in [Node -> [Saver -> SaveRecord]]
  /\ transfer \in [Node -> TransferRecord \cup {NoTransfer}]
  /\ disk \in [Node -> DiskRecord]
  /\ msgs \subseteq Message
  /\ grants \subseteq VoteRecord
  /\ won \subseteq WinRecord
  /\ rolledBack \subseteq Node
  /\ used \in UsedRecord

\* No process votes for two candidates in one term: HandleRequestVote and the
\* two election goroutines share votedFor correctly, and a restart keeps the
\* vote unless state.json had fallen behind it.
VotesUnique ==
  \A g, h \in grants :
    (g.voter = h.voter /\ g.term = h.term /\ g.voter \notin rolledBack)
      => g.candidate = h.candidate

\* The win check of startElection and startImmediateElection lets at most one
\* node through per term, as long as no restart has lost a vote.
WinnersUnique ==
  rolledBack = {} =>
    \A a, b \in won : a.term = b.term => a.node = b.node

\* A cast vote is either of a term already left behind, or is votedFor.
VotesRemembered ==
  \A g \in grants :
    g.voter \notin rolledBack =>
      /\ g.term <= currentTerm[g.voter]
      /\ g.term = currentTerm[g.voter] => votedFor[g.voter] = g.candidate

\* An election goroutine in the middle of savePersistentState has not asked
\* for votes yet.
SavesPrecedeVoting ==
  \A n \in Node, w \in Worker :
    save[n][w].step # "none" => election[n][w].phase = "saving"

\* A candidate that has not yet asked anyone has its own vote of that term to
\* give: no other candidate got it, and none will.
CandidaciesPending ==
  \A n \in Node, w \in Worker :
    LET e == election[n][w] IN
    e.phase = "saving" =>
      /\ e.votes = {n}
      /\ n \notin rolledBack =>
           /\ e.term <= currentTerm[n]
           /\ e.term = currentTerm[n] => votedFor[n] = n
           /\ \A g \in grants :
                (g.voter = n /\ g.term = e.term) => g.candidate = n

\* Every vote counted, and every granted answer in flight, was cast.
VotesReal ==
  /\ \A n \in Node, w \in Worker :
       election[n][w].phase = "voting" =>
         \A v \in election[n][w].votes :
           Vote(v, election[n][w].term, n) \in grants
  /\ \A m \in msgs :
       (m.kind = "VoteReply" /\ m.granted) =>
         Vote(m.src, m.asked, m.dst) \in grants

\* Every election won was won with the votes of a quorum.
WinnersBacked ==
  \A a \in won :
    \E Q \in SUBSET Node :
      /\ Cardinality(Q) >= quorumSize
      /\ \A v \in Q : Vote(v, a.term, a.node) \in grants

\* The inductive invariant behind WinnersUnique: single votes per node and
\* term, remembered across handlers, are what the tallies are made of.
ElectionInv ==
  /\ TypeOK
  /\ VotesUnique
  /\ VotesRemembered
  /\ SavesPrecedeVoting
  /\ CandidaciesPending
  /\ VotesReal
  /\ WinnersBacked

\* docs/CLUSTERING.md:304, "Raft guarantees at most one leader per term."
LeaderPerTerm ==
  \A a, b \in Node :
    (state[a] = "Leader" /\ state[b] = "Leader"
       /\ currentTerm[a] = currentTerm[b]) => a = b

=============================================================================

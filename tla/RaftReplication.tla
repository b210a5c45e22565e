--------------------------- MODULE RaftReplication ---------------------------
(***************************************************************************)
(* Log replication of pkg/raft: the AppendEntries and InstallSnapshot RPCs *)
(* between the nodes of a cluster of fixed members, with the replies that  *)
(* come late, twice or never, changes of leader, crashes and compaction.   *)
(*                                                                         *)
(* An election is one step (RaftElection has it in full): a quorum of      *)
(* nodes, none of which has a log more up to date, grants the vote.  The   *)
(* node that leads a term it did not win is an action of its own.  A       *)
(* leader appends its no-op when it begins, so an entry is known by its    *)
(* index and its term, and a log is the sequence of the terms.             *)
(*                                                                         *)
(* A goroutine of replicateTo takes a step for every time it holds a lock: *)
(* sendHeartbeats notes the term and the commit index; NextIndex,          *)
(* FirstIndex, TermAt, LastIndex and GetRange are read one by one, while   *)
(* the log may grow, be cut or be compacted; the reply is applied to       *)
(* whatever the node is by then, a leader of a later term too.             *)
(*                                                                         *)
(* What the code does that ends the promise of ReplicatedLog is recorded   *)
(* in harm, each with the line it happens at:                              *)
(*   unwon      becomeLeader in a term the node did not win                *)
(*   torn       entries sent that do not follow the entry of PrevLogTerm   *)
(*   counted    a reply of an earlier leadership moves MatchIndex          *)
(*   installed  a snapshot empties the log of a follower                   *)
(*   emptied    a compaction leaves nothing in a log                       *)
(*   shifted    an AppendEntries reaches back behind a compaction          *)
(***************************************************************************)
EXTENDS Integers, Sequences, FiniteSets, FiniteSetsExt

CONSTANTS
  Node,       \* the members
  Budgets     \* bounds, one set of them for each initial state: who campaigns
              \* with which votes, in their order, how many RPCs may be under way at
              \* a time, and how many proposals, lost RPCs, crashes, compactions
              \* and leaders of a term they did not win there may be

VARIABLES
  term,      \* currentTerm
  leads,     \* state = Leader
  log,       \* Log: firstIdx, the terms of the entries, the snapshot saved
  commit,    \* commitIndex
  applied,   \* lastApplied
  fsm,       \* the entries applied to the state machine
  next,      \* leaderState.NextIndex
  match,     \* leaderState.MatchIndex
  rpc,       \* the goroutines of replicateTo
  chosen,    \* history: the entries some node has known to be committed
  harm,      \* history: what happened that ends the promise
  left       \* what is left of the budget

vars == <<term, leads, log, commit, applied, fsm, next, match, rpc, chosen,
          harm, left>>

-----------------------------------------------------------------------------
(* The log *)

\* firstIdx, the terms of the entries, and the last snapshot on disk.
NewLog == [first |-> 1, entries |-> <<>>, saved |-> <<>>]

LastIndex(l) == IF l.entries = <<>> THEN 0 ELSE l.first + Len(l.entries) - 1

Has(l, i) == i >= l.first /\ i < l.first + Len(l.entries)

TermAt(l, i) == IF Has(l, i) THEN l.entries[i - l.first + 1] ELSE 0

LastTerm(l) == TermAt(l, LastIndex(l))

\* GetRange with its clamping.
GetRange(l, from, to) ==
  SubSeq(l.entries, Max({from - l.first + 1, 1}), Min({to - l.first + 1, Len(l.entries)}))

TruncateAfter(l, i) ==
  [l EXCEPT !.entries = SubSeq(@, 1, Min({Max({i - l.first + 1, 0}), Len(@)}))]

Extend(l, es) == [l EXCEPT !.entries = @ \o es]

-----------------------------------------------------------------------------

Spend(what) == left[what] > 0 /\ left' = [left EXCEPT ![what] = @ - 1]

\* clusterSize and quorumSize of RaftElection, with fixed members.
Quorum == {Q \in SUBSET Node : Cardinality(Q) = Cardinality(Node) \div 2 + 1}

\* isLogUpToDate
isLogUpToDate(mine, other) ==
  \/ LastTerm(other) > LastTerm(mine)
  \/ LastTerm(other) = LastTerm(mine) /\ LastIndex(other) >= LastIndex(mine)

\* What a commit index c over the log l makes of the chosen entries.
Chosen(l, c) == IF c > Len(chosen) THEN SubSeq(l.saved \o l.entries, 1, c) ELSE chosen

\* The leaderState of a node that does not lead, which nobody reads.
NoNext == [p \in Node |-> 1]
NoMatch == [p \in Node |-> 0]

Begun(n) == {r \in rpc : r.kind = "begun" /\ r.from = n}

\* leaderState outlives the leadership: a goroutine that has begun reads it.
Kept(n) == IF Begun(n) = {} THEN NoNext ELSE next[n]

Init ==
  /\ term = [n \in Node |-> 0]
  /\ leads = [n \in Node |-> FALSE]
  /\ log = [n \in Node |-> NewLog]
  /\ commit = [n \in Node |-> 0]
  /\ applied = [n \in Node |-> 0]
  /\ fsm = [n \in Node |-> <<>>]
  /\ next = [n \in Node |-> NoNext]
  /\ match = [n \in Node |-> NoMatch]
  /\ rpc = {}
  /\ chosen = <<>>
  /\ harm = {}
  /\ left \in Budgets

-----------------------------------------------------------------------------
(* Leaders *)

\* An election, becomeLeader and its no-op.  The voters take the new term, and
\* a leader among them steps down.
BecomeLeader(n, Q) ==
  LET t == 1 + Max({term[m] : m \in Q}) IN
  /\ n \in Q
  /\ Q \in Quorum
  /\ left.elections # <<>>
  /\ <<n, Q>> \in Head(left.elections)
  /\ left' = [left EXCEPT !.elections = Tail(@)]
  /\ \A m \in Q : isLogUpToDate(log[m], log[n])
  /\ term' = [m \in Node |-> IF m \in Q THEN t ELSE term[m]]
  /\ leads' = [m \in Node |-> IF m \in Q THEN m = n ELSE leads[m]]
  /\ next' = [m \in Node |-> IF m = n THEN [p \in Node |-> LastIndex(log[n]) + 1]
                             ELSE IF m \in Q THEN Kept(m) ELSE next[m]]
  /\ match' = [m \in Node |-> IF m \in Q THEN NoMatch ELSE match[m]]
  /\ log' = [log EXCEPT ![n] = Extend(@, <<t>>)]
  /\ UNCHANGED <<commit, applied, fsm, rpc, chosen, harm>>

\* becomeLeader asks nothing again: a node whose votes were for an earlier term
\* leads the term it has taken since from another, which may lead it too.
LeadUnwon(n) ==
  /\ ~ leads[n]
  /\ \E m \in Node \ {n} : term[m] = term[n] /\ term[n] > 1
  /\ Spend("unwon")
  /\ leads' = [leads EXCEPT ![n] = TRUE]
  /\ next' = [next EXCEPT ![n] = [p \in Node |-> LastIndex(log[n]) + 1]]
  /\ match' = [match EXCEPT ![n] = NoMatch]
  /\ log' = [log EXCEPT ![n] = Extend(@, <<term[n]>>)]
  /\ harm' = harm \cup {"unwon"}
  /\ UNCHANGED <<term, commit, applied, fsm, rpc, chosen>>

\* processBatch: the queued proposals of ProposeAsync are appended together, or
\* all refused.  Propose is a batch of one.
processBatch(n, k) ==
  /\ leads[n]
  /\ k <= left.proposals
  /\ left' = [left EXCEPT !.proposals = @ - k]
  /\ log' = [log EXCEPT ![n] = Extend(@, [i \in 1..k |-> term[n]])]
  /\ UNCHANGED <<term, leads, commit, applied, fsm, next, match, rpc, chosen, harm>>

Between(n, p) == {r \in rpc : r.from = n /\ r.to = p}

\* sendHeartbeats starts a goroutine for every peer; one that is under way does
\* not keep the next from starting.  A heartbeat to a peer that is known to have
\* everything changes nothing but its election timer and is left out.
sendHeartbeats(n, p) ==
  /\ leads[n] /\ p # n
  /\ \/ match[n][p] < LastIndex(log[n])
     \/ commit[p] < commit[n]
     \/ term[p] # term[n]
  /\ Cardinality(rpc) < left.rpcs
  /\ rpc' = rpc \cup {[kind |-> "begun", from |-> n, to |-> p, term |-> term[n],
                       commit |-> commit[n], next |-> 0, prevTerm |-> 0, last |-> 0]}
  /\ UNCHANGED <<term, leads, log, commit, applied, fsm, next, match, chosen,
                 harm, left>>

Replace(r, new) == rpc' = (rpc \ {r}) \cup new

\* A goroutine of replicateTo goes on with what it has read.
Goes(r, from, new) ==
  /\ r.kind = from
  /\ Replace(r, {new})
  /\ UNCHANGED <<term, leads, log, commit, applied, fsm, next, match, chosen, left>>

ReadNextIndex(r) ==
  /\ Goes(r, "begun", [r EXCEPT !.kind = "next", !.next = next[r.from][r.to]])
  /\ UNCHANGED harm

\* What was compacted is not there to send: the state machine is taken instead.
ReadFirstIndex(r) ==
  /\ Goes(r, "next", IF r.next < log[r.from].first
                       THEN [kind |-> "snapshot", from |-> r.from, to |-> r.to,
                             term |-> r.term, state |-> fsm[r.from]]
                       ELSE [r EXCEPT !.kind = "first"])
  /\ UNCHANGED harm

ReadTermAt(r) ==
  /\ Goes(r, "first", [r EXCEPT !.kind = "prev",
                                !.prevTerm = TermAt(log[r.from], r.next - 1)])
  /\ UNCHANGED harm

ReadLastIndex(r) ==
  /\ Goes(r, "prev", [r EXCEPT !.kind = "last", !.last = LastIndex(log[r.from])])
  /\ UNCHANGED harm

\* The entry before the next is not, or not any more, the one whose term was
\* read, or what came after it was compacted.
Torn(l, r) ==
  \/ r.next < l.first
  \/ /\ r.prevTerm # TermAt(l, r.next - 1)
     /\ ~ (r.next - 1 \in 1..Len(l.saved) /\ r.prevTerm = l.saved[r.next - 1])

\* GetRange, and the AppendEntries is sent.  GetRange begins later than asked
\* when the log was compacted meanwhile.
ReadRange(r) ==
  LET l == log[r.from] IN
  /\ Goes(r, "last", [kind |-> "append", from |-> r.from, to |-> r.to, term |-> r.term,
                      commit |-> r.commit, prev |-> r.next - 1, prevTerm |-> r.prevTerm,
                      start |-> Max({r.next, l.first}),
                      entries |-> GetRange(l, r.next, r.last)])
  /\ harm' = IF Torn(l, r) THEN harm \cup {"torn"} ELSE harm

\* replicateTo up to the call of the transport.
replicateTo(r) ==
  \/ ReadNextIndex(r) \/ ReadFirstIndex(r) \/ ReadTermAt(r)
  \/ ReadLastIndex(r) \/ ReadRange(r)

\* sendSnapshot reads lastApplied after it has taken the state machine.
sendSnapshot(r) ==
  /\ r.kind = "snapshot"
  /\ Replace(r, {[kind |-> "install", from |-> r.from, to |-> r.to, term |-> r.term,
                  state |-> r.state, last |-> applied[r.from]]})
  /\ UNCHANGED <<term, leads, log, commit, applied, fsm, next, match, chosen,
                 harm, left>>

-----------------------------------------------------------------------------
(* Followers *)

\* A node takes a term and follows.
Follow(n, t) ==
  /\ term' = [term EXCEPT ![n] = t]
  /\ leads' = [leads EXCEPT ![n] = FALSE]
  /\ next' = [next EXCEPT ![n] = Kept(n)]
  /\ match' = [match EXCEPT ![n] = NoMatch]

\* The reply of a handler; a newer term than its own has ended the sender's.
Reply(r, t, success, index, conflict) ==
  [kind |-> "reply", from |-> r.from, to |-> r.to, term |-> t, success |-> success,
   last |-> index, conflictTerm |-> conflict.term, conflictIndex |-> conflict.index]

NoConflict == [term |-> 0, index |-> 0]

\* HandleAppendEntries: where the logs part.  The search for the first entry of
\* the conflicting term says 0 when it reaches the beginning of the log.
ConflictAt(l, prev) ==
  LET t == TermAt(l, prev)
      before == {i \in 1..(prev - 1) : TermAt(l, i) # t}
  IN  [term |-> t, index |-> IF before = {} THEN 0 ELSE Max(before) + 1]

Conflict(l, r) ==
  IF r.prev > LastIndex(l) THEN [term |-> 0, index |-> LastIndex(l) + 1]
                           ELSE ConflictAt(l, r.prev)

Consistent(l, r) ==
  r.prev = 0 \/ (r.prev <= LastIndex(l) /\ TermAt(l, r.prev) = r.prevTerm)

\* HandleAppendEntries: an entry that conflicts cuts the log, what is there
\* already stays.
Merged(l, r) ==
  LET new == {k \in 1..Len(r.entries) :
                \/ r.start - 1 + k > LastIndex(l)
                \/ TermAt(l, r.start - 1 + k) # r.entries[k]}
  IN  IF new = {} THEN l
      ELSE LET k == Min(new) IN
           Extend(TruncateAfter(l, r.start - 1 + k - 1), SubSeq(r.entries, k, Len(r.entries)))

\* An entry whose index was compacted counts as one that conflicts: the log is
\* emptied, and the entries appended to it have other indexes than they had.
ReachesBack(l, r) == r.entries # <<>> /\ r.start < l.first

HandleAppendEntries(r) ==
  LET n == r.to
      l == Merged(log[n], r)
      last == IF r.entries = <<>> THEN 0 ELSE r.start - 1 + Len(r.entries)
      c == IF r.commit > commit[n] THEN Min({r.commit, LastIndex(l)}) ELSE commit[n]
  IN
  /\ r.kind = "append"
  /\ IF r.term < term[n]
       THEN /\ Replace(r, {Reply(r, term[n], FALSE, 0, NoConflict)})
            /\ UNCHANGED <<term, leads, next, match, log, commit, chosen, harm>>
       ELSE /\ Follow(n, r.term)
            /\ IF Consistent(log[n], r)
                 THEN /\ log' = [log EXCEPT ![n] = l]
                      /\ commit' = [commit EXCEPT ![n] = c]
                      /\ chosen' = Chosen(l, c)
                      /\ harm' = IF ReachesBack(log[n], r) THEN harm \cup {"shifted"} ELSE harm
                      /\ Replace(r, {Reply(r, r.term, TRUE, last, NoConflict)})
                 ELSE /\ Replace(r, {Reply(r, r.term, FALSE, 0, Conflict(log[n], r))})
                      /\ UNCHANGED <<log, commit, chosen, harm>>
  /\ UNCHANGED <<applied, fsm, left>>

\* HandleInstallSnapshot empties the log, whatever it held.
HandleInstallSnapshot(r) ==
  LET n == r.to IN
  /\ r.kind = "install"
  /\ IF r.term < term[n]
       THEN UNCHANGED <<term, leads, next, match, log, commit, applied, fsm, harm>>
       ELSE /\ Follow(n, r.term)
            /\ fsm' = [fsm EXCEPT ![n] = r.state]
            /\ log' = [log EXCEPT ![n] = [NewLog EXCEPT !.saved = log[n].saved]]
            /\ commit' = [commit EXCEPT ![n] = r.last]
            /\ applied' = [applied EXCEPT ![n] = r.last]
            /\ harm' = harm \cup {"installed"}
  /\ Replace(r, {[kind |-> "installed", from |-> r.from, to |-> n, sent |-> r.term,
                  term |-> term'[n], last |-> r.last]})
  /\ UNCHANGED <<chosen, left>>

-----------------------------------------------------------------------------
(* Replies *)

\* Only an entry of the leader's own term is committed by counting.
MayCommit(n, i) == TermAt(log[n], i) = term[n]

\* Mutant: half of the nodes are enough.
updateCommitIndexHalf(n, m) ==
  LET on(i) == {p \in Node \ {n} : m[p] >= i}
      good  == {i \in (commit[n] + 1)..LastIndex(log[n]) :
                  MayCommit(n, i) /\ Cardinality(on(i)) + 1 >= Cardinality(Node) \div 2}
  IN  IF good = {} THEN commit[n] ELSE Max(good)

\* updateCommitIndex: the highest entry on a quorum.
updateCommitIndex(n, m) ==
  LET on(i) == {p \in Node \ {n} : m[p] >= i}
      good  == {i \in (commit[n] + 1)..LastIndex(log[n]) :
                  MayCommit(n, i) /\ Cardinality(on(i)) + 1 >= Cardinality(Node) \div 2 + 1}
  IN  IF good = {} THEN commit[n] ELSE Max(good)

\* Mutant: one entry too far.
BackUpShort(n, r) == r.conflictIndex + 1

\* Where replicateTo goes on after a conflict.
BackUp(n, r) ==
  LET same == {i \in 1..LastIndex(log[n]) : TermAt(log[n], i) = r.conflictTerm} IN
  IF r.conflictTerm > 0 /\ same # {} THEN Max(same) + 1 ELSE r.conflictIndex

\* A newer term in a reply: leaderState is gone, and the goroutines that have
\* begun return.
StepDown(r) ==
  /\ Follow(r.from, r.term)
  /\ rpc' = (rpc \ {r}) \ Begun(r.from)

\* MatchIndex is moved by the answer to what the node sent in an earlier term.
Counted(late) == harm' = IF late THEN harm \cup {"counted"} ELSE harm

\* The rest of replicateTo.  A reply of an AppendEntries that carried nothing
\* moves no index.  A reply that says yes has the term it was asked in.
ApplyReply(r) ==
  LET n == r.from
      p == r.to
      m == IF r.success /\ r.last > 0 THEN [match[n] EXCEPT ![p] = r.last] ELSE match[n]
      c == updateCommitIndex(n, m)
  IN
  /\ r.kind = "reply"
  /\ Counted(leads[n] /\ r.success /\ r.last > 0 /\ r.term < term[n])
  /\ IF r.term > term[n] THEN StepDown(r) /\ UNCHANGED <<commit, chosen>>
     ELSE /\ Replace(r, {})
          /\ UNCHANGED <<term, leads>>
          /\ IF ~ leads[n] THEN UNCHANGED <<next, match, commit, chosen>>
             ELSE IF r.success
               THEN /\ next' = IF r.last > 0 THEN [next EXCEPT ![n][p] = r.last + 1] ELSE next
                    /\ match' = [match EXCEPT ![n] = m]
                    /\ commit' = [commit EXCEPT ![n] = c]
                    /\ chosen' = Chosen(log[n], c)
               ELSE /\ next' = [next EXCEPT ![n][p] = BackUp(n, r)]
                    /\ UNCHANGED <<match, commit, chosen>>
  /\ UNCHANGED <<log, applied, fsm, left>>

\* The rest of sendSnapshot, which does not ask whether the snapshot was taken.
ApplyInstalled(r) ==
  LET n == r.from IN
  /\ r.kind = "installed"
  /\ Counted(leads[n] /\ r.term <= term[n] /\ r.sent < term[n])
  /\ IF r.term > term[n] THEN StepDown(r)
     ELSE /\ Replace(r, {})
          /\ UNCHANGED <<term, leads>>
          /\ IF ~ leads[n] THEN UNCHANGED <<next, match>>
             ELSE /\ next' = [next EXCEPT ![n][r.to] = r.last + 1]
                  /\ match' = [match EXCEPT ![n][r.to] = r.last]
  /\ UNCHANGED <<log, commit, applied, fsm, chosen, left>>

\* A request or a reply is lost, or comes after the timeout: the transport says
\* that the call failed, and replicateTo and sendSnapshot return.
LoseRPC(r) ==
  /\ Spend("losses")
  /\ Replace(r, {})
  /\ UNCHANGED <<term, leads, log, commit, applied, fsm, next, match, chosen, harm>>

-----------------------------------------------------------------------------
(* The apply goroutine, and the end of a process *)

applyCommitted(n) ==
  /\ applied[n] < commit[n]
  /\ fsm' = [fsm EXCEPT ![n] = @ \o GetRange(log[n], applied[n] + 1, commit[n])]
  /\ applied' = [applied EXCEPT ![n] = commit[n]]
  /\ UNCHANGED <<term, leads, log, commit, next, match, rpc, chosen, harm, left>>

\* maybeCompactLog.  A log that it empties has no last index any more.
maybeCompactLog(n) ==
  /\ Has(log[n], applied[n])
  /\ Spend("compactions")
  /\ log' = [log EXCEPT ![n] =
               [first |-> applied[n] + 1, saved |-> fsm[n],
                entries |-> GetRange(log[n], applied[n] + 1, LastIndex(log[n]))]]
  /\ harm' = IF LastIndex(log'[n]) > 0 THEN harm ELSE harm \cup {"emptied"}
  /\ UNCHANGED <<term, leads, commit, applied, fsm, next, match, rpc, chosen>>

\* The process ends and another begins: with the log and the snapshot on disk.
Crash(n) ==
  /\ Spend("crashes")
  /\ leads' = [leads EXCEPT ![n] = FALSE]
  /\ commit' = [commit EXCEPT ![n] = 0]
  /\ applied' = [applied EXCEPT ![n] = 0]
  /\ fsm' = [fsm EXCEPT ![n] = log[n].saved]
  /\ log' = [log EXCEPT ![n].first = Len(log[n].saved) + 1]
  /\ rpc' = {r \in rpc : r.from # n}
  /\ next' = [next EXCEPT ![n] = NoNext]
  /\ match' = [match EXCEPT ![n] = NoMatch]
  /\ UNCHANGED <<term, chosen, harm>>

-----------------------------------------------------------------------------

\* The steps of a goroutine, and the handler the transport calls at its peer.
RPCStep(r) ==
  \/ replicateTo(r) \/ sendSnapshot(r) \/ HandleAppendEntries(r)
  \/ HandleInstallSnapshot(r) \/ ApplyReply(r) \/ ApplyInstalled(r)

Next ==
  \/ \E n \in Node, Q \in Quorum : BecomeLeader(n, Q)
  \/ \E n \in Node : LeadUnwon(n)
  \/ \E n \in Node, k \in 1..2 : processBatch(n, k)
  \/ \E n, p \in Node : sendHeartbeats(n, p)
  \/ \E r \in rpc : RPCStep(r) \/ LoseRPC(r)
  \/ \E n \in Node : applyCommitted(n) \/ maybeCompactLog(n) \/ Crash(n)

Spec == Init /\ [][Next]_vars

\* The heartbeat timer and the apply ticker of every node go on, and RPCs end.
\* SF, since the bound on the RPCs under way, which the code has not, would let
\* some peers keep another from its turn.
Fairness ==
  /\ \A n \in Node : \A p \in Node \ {n} :
       /\ SF_vars(sendHeartbeats(n, p))
       /\ WF_vars(\E r \in Between(n, p) : RPCStep(r))
  /\ \A n \in Node : WF_vars(applyCommitted(n))

FairSpec == Spec /\ Fairness

-----------------------------------------------------------------------------
(* Properties *)

\* pkg/raft keeps the promise of ReplicatedLog: what is chosen stays chosen
\* through changes of leader, crashes and RPCs that are lost, late and repeated,
\* and no node applies anything else, until one of the things happens that harm
\* records.
Promise ==
  INSTANCE ReplicatedLog WITH learned <- fsm, intact <- harm = {}

KeepsPromise == Promise!Spec

\* n leads, and nobody knows of a later term.
Leads(n) == leads[n] /\ \A m \in Node : term[m] <= term[n]

Replicated ==
  \A n, m \in Node : Leads(n) => fsm[m] = log[n].saved \o log[n].entries

\* Nothing was compacted, every state machine has applied what its index says
\* (sendSnapshot reads the two apart), and the leader has what was chosen (a
\* snapshot empties the log that a follower votes by).
Sound ==
  \A n \in Node :
    /\ log[n].first = 1 /\ Len(fsm[n]) = applied[n]
    /\ Leads(n) => SubSeq(log[n].entries, 1, Len(chosen)) = chosen

\* Once nobody campaigns any more and no RPC is lost, every node comes to have
\* applied the whole log of the leader, wherever their logs had parted, also by
\* a snapshot, which a conflict back to index 1 ends in.
CatchesUp == <>[](harm \subseteq {"installed"} /\ Sound => Replicated)

\* docs/CLUSTERING.md:24, "replicates to followers": the same after a compaction
\* that left entries in the log.
CatchesUpCompacted == <>[](harm = {} => Replicated)

\* docs/CLUSTERING.md:3, "State is replicated across all nodes": what two nodes
\* have applied at the same index is the same.
AppliedAgree ==
  \A n, m \in Node : applied[n] = applied[m] => fsm[n] = fsm[m]

=============================================================================

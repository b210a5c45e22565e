------------------------- MODULE RaftElectionProofs -------------------------
(***************************************************************************)
(* Proofs about RaftElection, for every finite set of nodes and every      *)
(* value of the bounds.                                                    *)
(***************************************************************************)
EXTENDS RaftElection, FiniteSetTheorems, TLAPS

-----------------------------------------------------------------------------

\* Idle values have their types.
LEMMA ConstantTypes ==
  /\ NoPosition \in Position
  /\ Idle \in ElectionRecord
  /\ NoSave \in SaveRecord
  /\ \A k \in {"RequestVote", "VoteReply", "AppendEntries", "InstallSnapshot",
               "StaleReply", "TimeoutNow"}, a, b \in Node, t \in Term :
       Msg(k, a, b, t) \in Message
BY DEF NoPosition, Position, Idle, ElectionRecord, NoSave, SaveRecord,
       Phase, Term, Msg, Message, Worker

\* The fields of an election record.
LEMMA ElectionFields ==
  ASSUME NEW e \in ElectionRecord
  PROVE  /\ e.phase \in Phase
         /\ e.term \in Term
         /\ e.pos \in Position
         /\ e.votes \in SUBSET Node
BY DEF ElectionRecord

\* A goroutine moves on to the next phase of its election.
LEMMA ElectionPhase ==
  ASSUME NEW e \in ElectionRecord, NEW x \in Phase
  PROVE  [e EXCEPT !.phase = x] \in ElectionRecord
BY DEF ElectionRecord

\* A goroutine counts a vote.
LEMMA ElectionTally ==
  ASSUME NEW e \in ElectionRecord, NEW v \in Node
  PROVE  [e EXCEPT !.votes = e.votes \cup {v}] \in ElectionRecord
BY DEF ElectionRecord

\* The fields of a save record, and its steps.
LEMMA SaveFields ==
  ASSUME NEW s \in SaveRecord
  PROVE  /\ s.term \in Term
         /\ s.vote \in Node \cup {Nil}
         /\ [s EXCEPT !.step = "readTerm"] \in SaveRecord
         /\ \A v \in Node \cup {Nil} :
              [s EXCEPT !.step = "write", !.vote = v] \in SaveRecord
BY DEF SaveRecord

\* The answer to a RequestVote is a message.
LEMMA AnswerType ==
  ASSUME NEW m \in Message, NEW t \in Term, NEW g \in {TRUE, FALSE}
  PROVE  [m EXCEPT !.kind = "VoteReply", !.src = m.dst, !.dst = m.src,
                   !.term = t, !.asked = m.term, !.granted = g,
                   !.pos = NoPosition] \in Message
<1>1. NoPosition \in Position
  BY ConstantTypes
<1> QED BY <1>1 DEF Message

\* Using up one unit of a bound.
LEMMA Spend ==
  ASSUME NEW u \in UsedRecord
  PROVE  /\ u.rpcs < MaxLeaderRPCs =>
              [u EXCEPT !.rpcs = u.rpcs + 1] \in UsedRecord
         /\ u.transfers < MaxTransfers =>
              [u EXCEPT !.transfers = u.transfers + 1] \in UsedRecord
         /\ u.crashes < MaxCrashes =>
              [u EXCEPT !.crashes = u.crashes + 1] \in UsedRecord
BY BoundAssumption DEF UsedRecord

\* Every step keeps the types: one case per action of node.go.
LEMMA TypeStep == TypeOK /\ [Next]_vars => TypeOK'
<1> SUFFICES ASSUME TypeOK, [Next]_vars PROVE TypeOK'
  OBVIOUS
<1> USE DEF TypeOK
<1>1. ASSUME NEW n \in Node, StartElection(n) PROVE TypeOK'
  <2>1. [phase |-> "prevote", term |-> currentTerm[n] + 1,
         pos |-> lastLog[n], votes |-> {n}] \in ElectionRecord
    BY DEF ElectionRecord, Phase, Term
  <2> QED BY <1>1, <2>1 DEF StartElection, Worker
<1>2. ASSUME NEW n \in Node, NEW p \in Node, HandlePreVote(p, n) PROVE TypeOK'
  <2>1. election[n] \in [Worker -> ElectionRecord]
    OBVIOUS
  <2>2. [election[n]["loop"] EXCEPT
           !.votes = election[n]["loop"].votes \cup {p}] \in ElectionRecord
    BY <2>1, ElectionTally DEF Worker
  <2> QED BY <1>2, <2>1, <2>2 DEF HandlePreVote, Worker
<1>3. ASSUME NEW n \in Node, NEW w \in Worker, NEW pos \in Position,
             Campaign(n, w, pos),
             UNCHANGED <<leaderID, lastLog, timer, transfer, disk, msgs, grants,
                         won, rolledBack, used>>
      PROVE TypeOK'
  <2>1. save' \in [Node -> [Saver -> SaveRecord]]
    <3>1. save[n][w] \in SaveRecord
      BY DEF Worker, Saver
    <3>2. [save[n][w] EXCEPT !.step = "readTerm"] \in SaveRecord
      BY <3>1, SaveFields
    <3> QED BY <1>3, <3>2 DEF Campaign, BeginSave, Worker, Saver
  <2>2. election' \in [Node -> [Worker -> ElectionRecord]]
    <3>1. [phase |-> "saving", term |-> currentTerm[n] + 1, pos |-> pos,
           votes |-> {n}] \in ElectionRecord
      BY DEF ElectionRecord, Phase, Term
    <3> QED BY <1>3, <3>1 DEF Campaign
  <2> QED BY <1>3, <2>1, <2>2 DEF Campaign, Term
<1>4. ASSUME NEW n \in Node, PreVoteWon(n) PROVE TypeOK'
  <2>1. election[n]["loop"].pos \in Position
    BY ElectionFields DEF Worker
  <2> QED BY <1>3, <1>4, <2>1 DEF PreVoteWon, Worker
<1>5. ASSUME NEW n \in Node, PreVoteLost(n) PROVE TypeOK'
  BY <1>5, ConstantTypes DEF PreVoteLost, Worker
<1>6. ASSUME NEW n \in Node, StartImmediateElection(n) PROVE TypeOK'
  BY <1>3, <1>6 DEF StartImmediateElection, Worker
<1>7. ASSUME NEW n \in Node, NEW w \in Worker, CountVotesWon(n, w) PROVE TypeOK'
  <2>1. [Idle EXCEPT !.phase = "won"] \in ElectionRecord
    BY ConstantTypes, ElectionPhase DEF Phase
  <2>2. election[n][w].term \in Term
    BY ElectionFields
  <2> QED BY <1>7, <2>1, <2>2 DEF CountVotesWon, WinRecord
<1>8. ASSUME NEW n \in Node, NEW w \in Worker, CountVotesLost(n, w) PROVE TypeOK'
  BY <1>8, ConstantTypes DEF CountVotesLost
<1>9. ASSUME NEW n \in Node, NEW w \in Worker, BecomeLeader(n, w) PROVE TypeOK'
  <2>1. [election[n][w] EXCEPT !.phase = "noop"] \in ElectionRecord
    <3>1. election[n][w] \in ElectionRecord /\ "noop" \in Phase
      BY DEF Phase
    <3> QED BY <3>1, ElectionPhase
  <2> QED BY <1>9, <2>1 DEF BecomeLeader
<1>10. ASSUME NEW n \in Node, NEW w \in Worker, ProposeNoop(n, w) PROVE TypeOK'
  <2>1. lastLog' \in [Node -> Position]
    BY <1>10 DEF ProposeNoop, Position, Term
  <2> QED BY <1>10, <2>1, ConstantTypes DEF ProposeNoop
<1>11. ASSUME NEW n \in Node, NEW w \in Saver, ReadTerm(n, w) PROVE TypeOK'
  <2>1. [step |-> "readVote", term |-> currentTerm[n], vote |-> Nil]
          \in SaveRecord
    BY DEF SaveRecord
  <2> QED BY <1>11, <2>1 DEF ReadTerm
<1>12. ASSUME NEW n \in Node, NEW w \in Saver, ReadVote(n, w) PROVE TypeOK'
  <2>1. [save[n][w] EXCEPT !.step = "write", !.vote = votedFor[n]]
          \in SaveRecord
    <3>1. save[n][w] \in SaveRecord /\ votedFor[n] \in Node \cup {Nil}
      OBVIOUS
    <3> QED BY <3>1, SaveFields
  <2>2. save' = [save EXCEPT ![n][w].step = "write",
                             ![n][w].vote = votedFor[n]]
    BY <1>12 DEF ReadVote
  <2>3. save' \in [Node -> [Saver -> SaveRecord]]
    BY <2>1, <2>2
  <2> QED BY <1>12, <2>3 DEF ReadVote
<1>13. ASSUME NEW n \in Node, NEW w \in Saver, WriteState(n, w) PROVE TypeOK'
  <2>1. disk' \in [Node -> DiskRecord]
    <3>1. save[n][w].term \in Term /\ save[n][w].vote \in Node \cup {Nil}
      <4>1. save[n][w] \in SaveRecord
        OBVIOUS
      <4> QED BY <4>1, SaveFields
    <3>2. [term |-> save[n][w].term, vote |-> save[n][w].vote] \in DiskRecord
      BY <3>1 DEF DiskRecord
    <3> QED BY <1>13, <3>2 DEF WriteState, Persist
  <2>2. save' \in [Node -> [Saver -> SaveRecord]]
    BY <1>13, ConstantTypes DEF WriteState
  <2>3. CASE w \notin Worker
    BY <1>13, <2>1, <2>2, <2>3 DEF WriteState
  <2>4. CASE w \in Worker
    <3> DEFINE e == election[n][w]
               Ask(p) == [Msg("RequestVote", n, p, e.term) EXCEPT
                            !.worker = w, !.pos = e.pos]
    <3>1. /\ e.term \in Term
          /\ e.pos \in Position
          /\ [e EXCEPT !.phase = "voting"] \in ElectionRecord
      <4>1. e \in ElectionRecord /\ "voting" \in Phase
        BY <2>4 DEF Phase
      <4> HIDE DEF e
      <4> QED BY <4>1, ElectionFields, ElectionPhase
    <3>2. ASSUME NEW p \in Node PROVE Ask(p) \in Message
      <4>1. Msg("RequestVote", n, p, e.term) \in Message
        BY <3>1, ConstantTypes
      <4> HIDE DEF e
      <4> QED BY <2>4, <3>1, <4>1 DEF Message
    <3>3. /\ msgs' = msgs \cup {Ask(p) : p \in Node \ {n}}
          /\ election' = [election EXCEPT ![n][w].phase = "voting"]
          /\ grants' = grants \cup {Vote(n, e.term, n)}
      BY <1>13, <2>4 DEF WriteState
    <3>4. msgs' \subseteq Message
      BY <3>2, <3>3
    <3>5. election' \in [Node -> [Worker -> ElectionRecord]]
      BY <2>4, <3>1, <3>3
    <3>6. grants' \subseteq VoteRecord
      <4>1. Vote(n, e.term, n) \in VoteRecord
        BY <3>1 DEF Vote, VoteRecord
      <4> QED BY <3>3, <4>1
    <3> QED BY <1>13, <2>1, <2>2, <3>4, <3>5, <3>6 DEF WriteState
  <2> QED BY <2>3, <2>4
<1>14. ASSUME NEW n \in Node, NEW p \in Node,
              NEW k \in {"AppendEntries", "InstallSnapshot"},
              SendLeaderRPC(n, p, k)
       PROVE TypeOK'
  <2>1. used' \in UsedRecord
    BY <1>14, Spend, BoundAssumption DEF SendLeaderRPC
  <2>2. msgs' \subseteq Message
    <3>1. Msg(k, n, p, currentTerm[n]) \in Message
      BY ConstantTypes
    <3>2. [Msg(k, n, p, currentTerm[n]) EXCEPT
             !.pos = IF k = "AppendEntries" THEN lastLog[n] ELSE @] \in Message
      BY <3>1 DEF Message
    <3> QED BY <1>14, <3>2 DEF SendLeaderRPC
  <2> QED BY <1>14, <2>1, <2>2 DEF SendLeaderRPC
<1>15. ASSUME NEW n \in Node, NEW p \in Node, TransferLeadership(n, p)
       PROVE TypeOK'
  <2>1. used' \in UsedRecord
    BY <1>15, Spend, BoundAssumption DEF TransferLeadership
  <2> QED BY <1>15, <2>1 DEF TransferLeadership, TransferRecord
<1>16. ASSUME NEW n \in Node, SendTimeoutNow(n) PROVE TypeOK'
  <2> DEFINE m == Msg("TimeoutNow", n, transfer[n].target, transfer[n].term)
  <2>1. transfer[n] \in TransferRecord
    BY <1>16 DEF SendTimeoutNow, NoTransfer
  <2>2. transfer[n].term \in Term /\ transfer[n].target \in Node
    BY <2>1 DEF TransferRecord
  <2>3. m \in Message
    BY <2>2, ConstantTypes
  <2>4. [transfer[n] EXCEPT !.step = "sent"] \in TransferRecord
    BY <2>1 DEF TransferRecord
  <2> QED BY <1>16, <2>3, <2>4 DEF SendTimeoutNow
<1>17. ASSUME NEW n \in Node, TransferReturn(n) PROVE TypeOK'
  BY <1>17, ConstantTypes DEF TransferReturn
<1>18. ASSUME NEW n \in Node, CrashRestart(n) PROVE TypeOK'
  <2>1. used' \in UsedRecord
    BY <1>18, Spend, BoundAssumption DEF CrashRestart
  <2>2. disk[n].term \in Term /\ disk[n].vote \in Node \cup {Nil}
    BY DEF DiskRecord
  <2> QED BY <1>18, <2>1, <2>2, ConstantTypes DEF CrashRestart
<1>19. ASSUME NEW m \in msgs, HandleRequestVote(m) PROVE TypeOK'
  <2> DEFINE p == m.dst
             newer == m.term > currentTerm[p]
             vote == IF newer THEN Nil ELSE votedFor[p]
             granted == vote \in {Nil, m.src} /\ isLogUpToDate(m.pos, lastLog[p])
             vote2 == IF granted THEN m.src ELSE vote
             answer(t, g) ==
               [m EXCEPT !.kind = "VoteReply", !.src = p, !.dst = m.src,
                         !.term = t, !.asked = m.term, !.granted = g,
                         !.pos = NoPosition]
  <2>1. m.dst \in Node /\ m.src \in Node /\ m.term \in Term
    BY DEF Message
  <2>2. ASSUME NEW t \in Term, NEW g \in {TRUE, FALSE}
        PROVE answer(t, g) \in Message
    BY AnswerType
  <2>3. vote2 \in Node \cup {Nil}
    BY <2>1
  <2>4. Vote(p, m.term, m.src) \in VoteRecord
    BY <2>1 DEF Vote, VoteRecord
  <2>5. [term |-> m.term, vote |-> vote2] \in DiskRecord
    BY <2>1, <2>3 DEF DiskRecord
  <2>6. CASE m.term < currentTerm[p]
    <3>1. m.term \in Int /\ currentTerm[p] \in Int
      BY <2>1 DEF Term
    <3>2. /\ msgs' = (msgs \ {m}) \cup {answer(currentTerm[p], FALSE)}
          /\ UNCHANGED <<currentTerm, state, votedFor, grants, timer, disk>>
      BY <1>19, <2>6, <3>1 DEF HandleRequestVote
    <3>3. answer(currentTerm[p], FALSE) \in Message
      BY <2>1, <2>2
    <3> QED BY <1>19, <3>2, <3>3 DEF HandleRequestVote
  <2>7. CASE ~ (m.term < currentTerm[p])
    <3>1. /\ currentTerm' = [currentTerm EXCEPT ![p] = m.term]
          /\ state' = [state EXCEPT ![p] = IF newer THEN "Follower" ELSE @]
          /\ votedFor' = [votedFor EXCEPT ![p] = vote2]
          /\ grants' = IF granted THEN grants \cup {Vote(p, m.term, m.src)}
                                  ELSE grants
          /\ timer' = [timer EXCEPT ![p] = @ \/ granted]
          /\ Persist(p, m.term, vote2)
          /\ msgs' = (msgs \ {m}) \cup
                       (IF granted THEN {answer(m.term, TRUE)} ELSE {})
      BY <1>19, <2>7 DEF HandleRequestVote
    <3> HIDE DEF answer, granted, vote2, newer, vote
    <3>2. answer(m.term, TRUE) \in Message
      BY <2>1, <2>2
    <3>3. msgs' \subseteq Message /\ grants' \subseteq VoteRecord
      BY <2>4, <3>1, <3>2
    <3>4. disk' \in [Node -> DiskRecord]
      BY <2>1, <2>5, <3>1 DEF Persist
    <3>5. /\ currentTerm' \in [Node -> Term]
          /\ votedFor' \in [Node -> Node \cup {Nil}]
          /\ state' \in [Node -> {"Follower", "Candidate", "Leader"}]
      BY <2>1, <2>3, <3>1
    <3>6. timer' \in [Node -> BOOLEAN]
      BY <2>1, <3>1
    <3> QED BY <1>19, <3>3, <3>4, <3>5, <3>6 DEF HandleRequestVote
  <2> QED BY <2>6, <2>7
<1>20. ASSUME NEW m \in msgs, HandleVoteReply(m) PROVE TypeOK'
  <2>1. /\ m.dst \in Node /\ m.src \in Node /\ m.term \in Term
        /\ m.worker \in Worker
    BY DEF Message
  <2>2. CASE m.term > currentTerm[m.dst]
    <3>1. save[m.dst]["reply"] \in SaveRecord
      BY <2>1 DEF Saver
    <3>2. [save[m.dst]["reply"] EXCEPT !.step = "readTerm"] \in SaveRecord
      BY <3>1, SaveFields
    <3>3. save' = [save EXCEPT ![m.dst]["reply"].step = "readTerm"]
      BY <1>20, <2>2 DEF HandleVoteReply, BeginSave
    <3>4. save' \in [Node -> [Saver -> SaveRecord]]
      BY <2>1, <3>2, <3>3 DEF Saver
    <3> QED BY <1>20, <2>1, <2>2, <3>4 DEF HandleVoteReply
  <2>3. CASE ~ (m.term > currentTerm[m.dst])
    <3>1. election[m.dst][m.worker] \in ElectionRecord
      BY <2>1
    <3>2. [election[m.dst][m.worker] EXCEPT
             !.votes = election[m.dst][m.worker].votes \cup {m.src}]
            \in ElectionRecord
      BY <2>1, <3>1, ElectionTally
    <3>3. \/ election' = election
          \/ election' = [election EXCEPT ![m.dst][m.worker].votes =
                                             @ \cup {m.src}]
      BY <1>20, <2>3 DEF HandleVoteReply
    <3>4. election' \in [Node -> [Worker -> ElectionRecord]]
      <4>1. CASE election' = election
        BY <4>1
      <4>2. CASE election' = [election EXCEPT ![m.dst][m.worker].votes =
                                                @ \cup {m.src}]
        BY <2>1, <3>2, <4>2
      <4> QED BY <3>3, <4>1, <4>2
    <3> QED BY <1>20, <2>1, <2>3, <3>4 DEF HandleVoteReply
  <2> QED BY <2>2, <2>3
<1>21. ASSUME NEW m \in msgs, RejectLeaderRPC(m) PROVE TypeOK'
  <2>1. m.dst \in Node /\ m.src \in Node
    BY DEF Message
  <2>2. Msg("StaleReply", m.dst, m.src, currentTerm[m.dst]) \in Message
    BY <2>1, ConstantTypes
  <2> QED BY <1>21, <2>2 DEF RejectLeaderRPC
<1>22. ASSUME NEW m \in msgs, FollowLeader(m)
       PROVE /\ currentTerm' \in [Node -> Term]
             /\ votedFor' \in [Node -> Node \cup {Nil}]
             /\ state' \in [Node -> {"Follower", "Candidate", "Leader"}]
             /\ leaderID' \in [Node -> Node \cup {Nil}]
             /\ timer' \in [Node -> BOOLEAN]
             /\ m.dst \in Node
             /\ m.term \in Term
             /\ m.pos \in Position
             /\ [term |-> m.term, vote |-> votedFor'[m.dst]] \in DiskRecord
  <2>1. /\ m.dst \in Node /\ m.src \in Node /\ m.term \in Term
        /\ m.pos \in Position
    BY DEF Message
  <2>2. votedFor' \in [Node -> Node \cup {Nil}]
    BY <1>22, <2>1 DEF FollowLeader
  <2>3. [term |-> m.term, vote |-> votedFor'[m.dst]] \in DiskRecord
    BY <2>1, <2>2 DEF DiskRecord
  <2> QED BY <1>22, <2>1, <2>2, <2>3 DEF FollowLeader
<1>23. ASSUME NEW m \in msgs, EarlyReturn(m) PROVE TypeOK'
  BY <1>22, <1>23 DEF EarlyReturn
<1>24. ASSUME NEW m \in msgs, AppendEntriesAccept(m) PROVE TypeOK'
  <2>1. FollowLeader(m)
    BY <1>24 DEF AppendEntriesAccept
  <2>2. disk' \in [Node -> DiskRecord]
    <3>1. Persist(m.dst, m.term, votedFor'[m.dst])
      BY <1>24 DEF AppendEntriesAccept
    <3> QED BY <1>22, <2>1, <3>1 DEF Persist
  <2>3. lastLog' \in [Node -> Position]
    BY <1>22, <1>24, <2>1 DEF AppendEntriesAccept
  <2> QED BY <1>22, <1>24, <2>1, <2>2, <2>3 DEF AppendEntriesAccept
<1>25. ASSUME NEW m \in msgs, HandleInstallSnapshot(m) PROVE TypeOK'
  <2>1. FollowLeader(m)
    BY <1>25 DEF HandleInstallSnapshot
  <2>2. disk' \in [Node -> DiskRecord]
    <3>1. Persist(m.dst, m.term, votedFor'[m.dst])
      BY <1>25 DEF HandleInstallSnapshot
    <3> QED BY <1>22, <2>1, <3>1 DEF Persist
  <2>3. lastLog' \in [Node -> Position]
    BY <1>22, <1>25, <2>1, ConstantTypes DEF HandleInstallSnapshot
  <2> QED BY <1>22, <1>25, <2>1, <2>2, <2>3 DEF HandleInstallSnapshot
<1>26. ASSUME NEW m \in msgs, HandleStaleReply(m) PROVE TypeOK'
  <2>1. m.dst \in Node /\ m.term \in Term
    BY DEF Message
  <2>2. [term |-> m.term, vote |-> Nil] \in DiskRecord
    BY <2>1 DEF DiskRecord
  <2>3. disk' \in [Node -> DiskRecord]
    BY <1>26, <2>1, <2>2 DEF HandleStaleReply, Persist
  <2> QED BY <1>26, <2>1, <2>3 DEF HandleStaleReply
<1>27. ASSUME NEW m \in msgs, HandleTimeoutNow(m) PROVE TypeOK'
  <2>1. m.dst \in Node
    BY DEF Message
  <2>2. election[m.dst]["now"] \in ElectionRecord /\ "spawned" \in Phase
    BY <2>1 DEF Worker, Phase
  <2>3. [election[m.dst]["now"] EXCEPT !.phase = "spawned"] \in ElectionRecord
    BY <2>2, ElectionPhase
  <2>4. \/ election' = election
        \/ election' = [election EXCEPT ![m.dst]["now"].phase = "spawned"]
    BY <1>27 DEF HandleTimeoutNow
  <2>5. election' \in [Node -> [Worker -> ElectionRecord]]
    <3>1. CASE election' = election
      BY <3>1
    <3>2. CASE election' = [election EXCEPT ![m.dst]["now"].phase = "spawned"]
      BY <2>1, <2>3, <3>2 DEF Worker
    <3> QED BY <2>4, <3>1, <3>2
  <2> QED BY <1>27, <2>5 DEF HandleTimeoutNow
<1>28. CASE UNCHANGED vars
  BY <1>28 DEF vars
<1> HIDE DEF TypeOK
<1>29. ASSUME NEW n \in Node, Elect(n) PROVE TypeOK'
  BY <1>1, <1>2, <1>4, <1>5, <1>6, <1>7, <1>8, <1>9, <1>10, <1>11, <1>12,
     <1>13, <1>29 DEF Elect
<1>30. ASSUME NEW n \in Node, Lead(n) PROVE TypeOK'
  BY <1>14, <1>15, <1>16, <1>17, <1>30 DEF Lead
<1>31. ASSUME NEW m \in msgs, Receive(m) PROVE TypeOK'
  BY <1>19, <1>20, <1>21, <1>23, <1>24, <1>25, <1>26, <1>27, <1>31 DEF Receive
<1> QED
  BY <1>18, <1>28, <1>29, <1>30, <1>31 DEF Next

-----------------------------------------------------------------------------

\* No vote is forgotten unless the term rises.
QuietVotes ==
  \A n \in Node :
    \/ currentTerm'[n] > currentTerm[n]
    \/ currentTerm'[n] = currentTerm[n] /\ votedFor'[n] = votedFor[n]

\* An election changes only into a phase that holds no votes.
QuietElections ==
  \A n \in Node, w \in Worker :
    \/ election'[n][w] = election[n][w]
    \/ /\ election'[n][w].phase \notin {"saving", "voting"}
       /\ election[n][w].phase # "saving"

\* No election goroutine enters savePersistentState.
QuietSaves ==
  \A n \in Node, w \in Worker :
    save'[n][w].step # "none" => save[n][w].step # "none"

\* A step that casts no vote, answers no RequestVote and wins nothing.
Quiet ==
  /\ UNCHANGED <<grants, won, rolledBack>>
  /\ QuietVotes
  /\ \A m \in msgs' : m \in msgs \/ m.kind # "VoteReply"
  /\ QuietElections
  /\ QuietSaves

\* Quiet steps keep the invariant.
LEMMA QuietStep ==
  ASSUME ElectionInv, TypeOK', Quiet
  PROVE  ElectionInv'
<1> USE DEF Quiet, QuietVotes, QuietElections, QuietSaves
<1>1. VotesUnique'
  BY DEF ElectionInv, VotesUnique
<1>2. VotesRemembered'
  <2> SUFFICES ASSUME NEW g \in grants, g.voter \notin rolledBack
               PROVE  /\ g.term <= currentTerm'[g.voter]
                      /\ g.term = currentTerm'[g.voter] =>
                           votedFor'[g.voter] = g.candidate
    BY DEF VotesRemembered
  <2>1. g.voter \in Node /\ g.term \in Nat
    BY DEF ElectionInv, TypeOK, VoteRecord, Term
  <2>2. currentTerm[g.voter] \in Nat /\ currentTerm'[g.voter] \in Nat
    BY <2>1 DEF ElectionInv, TypeOK, Term
  <2>3. /\ g.term <= currentTerm[g.voter]
        /\ g.term = currentTerm[g.voter] => votedFor[g.voter] = g.candidate
    BY DEF ElectionInv, VotesRemembered
  <2> QED BY <2>1, <2>2, <2>3
<1>3. SavesPrecedeVoting'
  BY DEF ElectionInv, SavesPrecedeVoting
<1>4. CandidaciesPending'
  <2> SUFFICES ASSUME NEW n \in Node, NEW w \in Worker,
                      election'[n][w].phase = "saving"
               PROVE  /\ election'[n][w].votes = {n}
                      /\ n \notin rolledBack =>
                           /\ election'[n][w].term <= currentTerm'[n]
                           /\ election'[n][w].term = currentTerm'[n] =>
                                votedFor'[n] = n
                           /\ \A g \in grants :
                                (g.voter = n /\ g.term = election'[n][w].term)
                                  => g.candidate = n
    BY DEF CandidaciesPending
  <2>1. election'[n][w] = election[n][w]
    OBVIOUS
  <2>2. /\ election[n][w].votes = {n}
        /\ n \notin rolledBack =>
             /\ election[n][w].term <= currentTerm[n]
             /\ election[n][w].term = currentTerm[n] => votedFor[n] = n
             /\ \A g \in grants :
                  (g.voter = n /\ g.term = election[n][w].term)
                    => g.candidate = n
    BY <2>1 DEF ElectionInv, CandidaciesPending
  <2>3. /\ currentTerm[n] \in Nat /\ currentTerm'[n] \in Nat
        /\ election[n][w] \in ElectionRecord
    BY DEF ElectionInv, TypeOK, Term
  <2>4. election[n][w].term \in Nat
    BY <2>3, ElectionFields DEF Term
  <2> QED BY <2>1, <2>2, <2>3, <2>4
<1>5. VotesReal'
  BY DEF ElectionInv, VotesReal
<1>6. WinnersBacked'
  BY DEF ElectionInv, WinnersBacked
<1> QED BY <1>1, <1>2, <1>3, <1>4, <1>5, <1>6 DEF ElectionInv

\* A campaign opens a pending candidacy in a term no vote was cast in.
LEMMA CampaignStep ==
  ASSUME ElectionInv, TypeOK', NEW n \in Node, NEW w \in Worker, NEW pos,
         Campaign(n, w, pos), election[n][w].phase # "saving",
         UNCHANGED <<msgs, grants, won, rolledBack>>
  PROVE  ElectionInv'
<1> DEFINE t == currentTerm[n] + 1
           new == [phase |-> "saving", term |-> t, pos |-> pos, votes |-> {n}]
<1>1. /\ currentTerm' = [currentTerm EXCEPT ![n] = t]
      /\ votedFor' = [votedFor EXCEPT ![n] = n]
      /\ election' = [election EXCEPT ![n][w] = new]
      /\ save' = [save EXCEPT ![n][w].step = "readTerm"]
  BY DEF Campaign, BeginSave
<1>2. TypeOK
  BY DEF ElectionInv
<1>3. currentTerm[n] \in Nat
  BY <1>2 DEF TypeOK, Term
<1>4. /\ currentTerm'[n] = t
      /\ votedFor'[n] = n
      /\ \A m \in Node \ {n} : /\ currentTerm'[m] = currentTerm[m]
                              /\ votedFor'[m] = votedFor[m]
  BY <1>1, <1>2 DEF TypeOK
<1>5. /\ election'[n][w] = new
      /\ \A m \in Node, v \in Worker :
           (m # n \/ v # w) => /\ election'[m][v] = election[m][v]
                              /\ save'[m][v] = save[m][v]
  BY <1>1, <1>2 DEF TypeOK, Worker, Saver
<1> HIDE DEF new
<1>6. new.phase = "saving" /\ new.term = t /\ new.votes = {n}
  BY DEF new
<1>7. \A g \in grants : (g.voter = n /\ n \notin rolledBack) => g.term < t
  <2> SUFFICES ASSUME NEW g \in grants, g.voter = n, n \notin rolledBack
               PROVE  g.term < t
    OBVIOUS
  <2>1. g.term \in Nat
    BY <1>2 DEF TypeOK, VoteRecord, Term
  <2>2. g.term <= currentTerm[n]
    BY DEF ElectionInv, VotesRemembered
  <2> QED BY <1>3, <2>1, <2>2
<1>8. VotesUnique'
  BY DEF ElectionInv, VotesUnique
<1>9. VotesRemembered'
  <2> SUFFICES ASSUME NEW g \in grants, g.voter \notin rolledBack
               PROVE  /\ g.term <= currentTerm'[g.voter]
                      /\ g.term = currentTerm'[g.voter] =>
                           votedFor'[g.voter] = g.candidate
    BY DEF VotesRemembered
  <2>1. g.voter \in Node /\ g.term \in Nat
    BY <1>2 DEF TypeOK, VoteRecord, Term
  <2>2. CASE g.voter = n
    BY <1>3, <1>4, <1>7, <2>1, <2>2
  <2>3. CASE g.voter # n
    BY <1>4, <2>1, <2>3 DEF ElectionInv, VotesRemembered
  <2> QED BY <2>2, <2>3
<1>10. SavesPrecedeVoting'
  BY <1>5, <1>6 DEF ElectionInv, SavesPrecedeVoting
<1>11. CandidaciesPending'
  <2> SUFFICES ASSUME NEW m \in Node, NEW v \in Worker,
                      election'[m][v].phase = "saving"
               PROVE  /\ election'[m][v].votes = {m}
                      /\ m \notin rolledBack =>
                           /\ election'[m][v].term <= currentTerm'[m]
                           /\ election'[m][v].term = currentTerm'[m] =>
                                votedFor'[m] = m
                           /\ \A g \in grants :
                                (g.voter = m /\ g.term = election'[m][v].term)
                                  => g.candidate = m
    BY DEF CandidaciesPending
  <2>1. CASE m = n /\ v = w
    <3>1. \A g \in grants : g.term \in Nat
      BY <1>2 DEF TypeOK, VoteRecord, Term
    <3> QED BY <1>3, <1>4, <1>5, <1>6, <1>7, <2>1, <3>1
  <2>2. CASE m # n \/ v # w
    <3>1. election'[m][v] = election[m][v]
      BY <1>5, <2>2
    <3>2. election[m][v].term \in Nat /\ currentTerm[m] \in Nat
      <4>1. election[m][v] \in ElectionRecord
        BY <1>2 DEF TypeOK
      <4> QED BY <1>2, <4>1, ElectionFields DEF TypeOK, Term
    <3>3. /\ election[m][v].votes = {m}
          /\ m \notin rolledBack =>
               /\ election[m][v].term <= currentTerm[m]
               /\ election[m][v].term = currentTerm[m] => votedFor[m] = m
               /\ \A g \in grants :
                    (g.voter = m /\ g.term = election[m][v].term)
                      => g.candidate = m
      BY <3>1 DEF ElectionInv, CandidaciesPending
    <3>4. CASE m = n
      BY <1>3, <1>4, <3>1, <3>2, <3>3, <3>4
    <3>5. CASE m # n
      BY <1>4, <3>1, <3>3, <3>5
    <3> QED BY <3>4, <3>5
  <2> QED BY <2>1, <2>2
<1>12. VotesReal'
  BY <1>5, <1>6 DEF ElectionInv, VotesReal
<1>13. WinnersBacked'
  BY DEF ElectionInv, WinnersBacked
<1> QED BY <1>8, <1>9, <1>10, <1>11, <1>12, <1>13 DEF ElectionInv

\* A candidate's own vote is cast when it starts asking.
LEMMA AskStep ==
  ASSUME ElectionInv, TypeOK', NEW n \in Node, NEW w \in Worker,
         WriteState(n, w)
  PROVE  ElectionInv'
<1> DEFINE e == election[n][w]
           own == Vote(n, e.term, n)
<1>1. TypeOK
  BY DEF ElectionInv
<1>2. /\ save' = [save EXCEPT ![n][w] = NoSave]
      /\ election' = [election EXCEPT ![n][w].phase = "voting"]
      /\ grants' = grants \cup {own}
      /\ UNCHANGED <<currentTerm, votedFor, won, rolledBack>>
  BY DEF WriteState
<1>3. \A m \in msgs' : m \in msgs \/ m.kind # "VoteReply"
  <2> DEFINE Ask(p) == [Msg("RequestVote", n, p, e.term) EXCEPT
                          !.worker = w, !.pos = e.pos]
  <2>1. msgs' = msgs \cup {Ask(p) : p \in Node \ {n}}
    BY DEF WriteState
  <2>2. \A p \in Node : Ask(p).kind = "RequestVote"
    BY DEF Msg
  <2> HIDE DEF Ask
  <2> QED BY <2>1, <2>2
<1>4. e.phase = "saving" /\ e.votes = {n}
  <2>1. save[n][w].step = "write"
    BY DEF WriteState
  <2>2. e.phase = "saving"
    BY <2>1 DEF ElectionInv, SavesPrecedeVoting
  <2> QED BY <2>2 DEF ElectionInv, CandidaciesPending
<1>5. n \notin rolledBack =>
        /\ e.term <= currentTerm[n]
        /\ e.term = currentTerm[n] => votedFor[n] = n
        /\ \A g \in grants : (g.voter = n /\ g.term = e.term)
                               => g.candidate = n
  BY <1>4 DEF ElectionInv, CandidaciesPending
<1>6. own.voter = n /\ own.term = e.term /\ own.candidate = n
  BY DEF Vote
<1>7. e \in ElectionRecord
  BY <1>1 DEF TypeOK
<1>8. /\ election'[n][w].phase = "voting"
      /\ election'[n][w].term = e.term
      /\ election'[n][w].votes = e.votes
  BY <1>1, <1>2, <1>7 DEF TypeOK, ElectionRecord
<1>9. \A m \in Node, v \in Worker :
        (m # n \/ v # w) => /\ election'[m][v] = election[m][v]
                           /\ save'[m][v] = save[m][v]
  <2> SUFFICES ASSUME NEW m \in Node, NEW v \in Worker, m # n \/ v # w
               PROVE  /\ election'[m][v] = election[m][v]
                      /\ save'[m][v] = save[m][v]
    OBVIOUS
  <2>1. v \in Saver /\ w \in Saver
    BY DEF Saver
  <2>2. election'[m][v] = election[m][v]
    BY <1>1, <1>2 DEF TypeOK
  <2>3. save'[m][v] = save[m][v]
    BY <1>1, <1>2, <2>1 DEF TypeOK
  <2> QED BY <2>2, <2>3
<1>10. save'[n][w].step = "none"
  <2>1. w \in Saver
    BY DEF Saver
  <2>2. save'[n][w] = NoSave
    BY <1>1, <1>2, <2>1 DEF TypeOK
  <2> QED BY <2>2 DEF NoSave
<1> HIDE DEF own, e
<1>11. VotesUnique'
  BY <1>2, <1>5, <1>6 DEF ElectionInv, VotesUnique
<1>12. VotesRemembered'
  BY <1>2, <1>5, <1>6 DEF ElectionInv, VotesRemembered
<1>13. SavesPrecedeVoting'
  BY <1>9, <1>10 DEF ElectionInv, SavesPrecedeVoting
<1>14. CandidaciesPending'
  BY <1>2, <1>6, <1>8, <1>9 DEF ElectionInv, CandidaciesPending
<1>15. VotesReal'
  <2>1. \A m \in Node, v \in Worker :
          election'[m][v].phase = "voting" =>
            \A x \in election'[m][v].votes :
              Vote(x, election'[m][v].term, m) \in grants'
    <3> SUFFICES ASSUME NEW m \in Node, NEW v \in Worker,
                        election'[m][v].phase = "voting",
                        NEW x \in election'[m][v].votes
                 PROVE  Vote(x, election'[m][v].term, m) \in grants'
      OBVIOUS
    <3>1. CASE m = n /\ v = w
      BY <1>2, <1>4, <1>8, <3>1 DEF own
    <3>2. CASE m # n \/ v # w
      BY <1>2, <1>9, <3>2 DEF ElectionInv, VotesReal
    <3> QED BY <3>1, <3>2
  <2> QED BY <1>2, <1>3, <2>1 DEF ElectionInv, VotesReal
<1>16. WinnersBacked'
  BY <1>2 DEF ElectionInv, WinnersBacked
<1> QED BY <1>11, <1>12, <1>13, <1>14, <1>15, <1>16 DEF ElectionInv

\* HandleRequestVote casts at most one vote per term.
LEMMA VoteStep ==
  ASSUME ElectionInv, TypeOK', NEW m \in msgs, HandleRequestVote(m)
  PROVE  ElectionInv'
<1> DEFINE p == m.dst
           newer == m.term > currentTerm[p]
           vote == IF newer THEN Nil ELSE votedFor[p]
           granted == vote \in {Nil, m.src} /\ isLogUpToDate(m.pos, lastLog[p])
           vote2 == IF granted THEN m.src ELSE vote
           answer(t, g) ==
             [m EXCEPT !.kind = "VoteReply", !.src = p, !.dst = m.src,
                       !.term = t, !.asked = m.term, !.granted = g,
                       !.pos = NoPosition]
           cast == Vote(p, m.term, m.src)
<1>1. TypeOK
  BY DEF ElectionInv
<1>2. /\ p \in Node /\ m.src \in Node /\ m.term \in Nat
      /\ currentTerm[p] \in Nat
      /\ votedFor[p] \in Node \cup {Nil}
  BY <1>1 DEF TypeOK, Message, Term
<1>3. UNCHANGED <<election, save, won, rolledBack>>
  BY DEF HandleRequestVote
<1>4. \A t, g : /\ answer(t, g).granted = g
                /\ answer(t, g).src = p
                /\ answer(t, g).dst = m.src
                /\ answer(t, g).asked = m.term
  BY <1>1 DEF TypeOK, Message
<1>5. CASE m.term < currentTerm[p]
  <2>1. /\ msgs' = (msgs \ {m}) \cup {answer(currentTerm[p], FALSE)}
        /\ UNCHANGED <<currentTerm, votedFor, grants>>
    BY <1>2, <1>5 DEF HandleRequestVote
  <2>2. ~ answer(currentTerm[p], FALSE).granted
    BY <1>4
  <2> HIDE DEF answer
  <2>3. VotesReal'
    BY <1>3, <2>1, <2>2 DEF ElectionInv, VotesReal
  <2>4. VotesUnique' /\ VotesRemembered'
    BY <1>3, <2>1 DEF ElectionInv, VotesUnique, VotesRemembered
  <2>5. SavesPrecedeVoting' /\ CandidaciesPending'
    BY <1>3, <2>1 DEF ElectionInv, SavesPrecedeVoting, CandidaciesPending
  <2>6. WinnersBacked'
    BY <1>3, <2>1 DEF ElectionInv, WinnersBacked
  <2> QED BY <2>3, <2>4, <2>5, <2>6 DEF ElectionInv
<1>6. CASE ~ (m.term < currentTerm[p])
  <2>1. /\ currentTerm' = [currentTerm EXCEPT ![p] = m.term]
        /\ votedFor' = [votedFor EXCEPT ![p] = vote2]
        /\ grants' = IF granted THEN grants \cup {cast} ELSE grants
        /\ msgs' = (msgs \ {m}) \cup
                     (IF granted THEN {answer(m.term, TRUE)} ELSE {})
    BY <1>6 DEF HandleRequestVote
  <2>2. /\ currentTerm'[p] = m.term
        /\ votedFor'[p] = vote2
        /\ \A n \in Node \ {p} : /\ currentTerm'[n] = currentTerm[n]
                                /\ votedFor'[n] = votedFor[n]
    BY <1>1, <1>2, <2>1 DEF TypeOK
  <2>3. m.term >= currentTerm[p]
    BY <1>2, <1>6
  <2>4. cast.voter = p /\ cast.term = m.term /\ cast.candidate = m.src
    BY DEF Vote
  <2>5. ~ newer => m.term = currentTerm[p] /\ vote = votedFor[p]
    BY <1>2, <2>3
  <2>6. newer => m.term > currentTerm[p] /\ vote = Nil
    OBVIOUS
  <2>7. granted => vote \in {Nil, m.src} /\ vote2 = m.src
    OBVIOUS
  <2>8. ~ granted => vote2 = vote
    OBVIOUS
  <2> HIDE DEF newer, vote, granted, vote2, answer, cast
  <2>9. \A g \in grants :
          (g.voter = p /\ p \notin rolledBack) =>
            /\ g.term <= currentTerm[p]
            /\ g.term = currentTerm[p] => votedFor[p] = g.candidate
            /\ g.term \in Nat
            /\ g.candidate \in Node
    BY <1>1 DEF ElectionInv, VotesRemembered, TypeOK, VoteRecord, Term
  <2>10. \A g \in grants :
           (granted /\ g.voter = p /\ g.term = m.term /\ p \notin rolledBack)
             => g.candidate = m.src
    BY <1>2, <2>5, <2>6, <2>7, <2>9, NodeAssumption
  <2>11. VotesUnique'
    BY <1>3, <2>1, <2>4, <2>10 DEF ElectionInv, VotesUnique
  <2>12. VotesRemembered'
    <3> SUFFICES ASSUME NEW g \in grants', g.voter \notin rolledBack
                 PROVE  /\ g.term <= currentTerm'[g.voter]
                        /\ g.term = currentTerm'[g.voter] =>
                             votedFor'[g.voter] = g.candidate
      BY <1>3 DEF VotesRemembered
    <3>1. CASE g \in grants /\ g.voter = p
      <4>1. g.term <= currentTerm'[p]
        BY <1>2, <2>2, <2>3, <2>9, <3>1
      <4>2. ASSUME g.term = m.term PROVE vote2 = g.candidate
        <5>1. /\ g.term <= currentTerm[p]
              /\ g.term = currentTerm[p] => votedFor[p] = g.candidate
              /\ g.candidate \in Node
          BY <2>9, <3>1
        <5>2. m.term = currentTerm[p]
          BY <1>2, <2>3, <4>2, <5>1
        <5>3. ~ newer
          BY <1>2, <2>6, <5>2
        <5>4. vote = g.candidate /\ vote # Nil
          BY <2>5, <4>2, <5>1, <5>2, <5>3, NodeAssumption
        <5> QED BY <2>7, <2>8, <5>4
      <4> QED BY <2>2, <3>1, <4>1, <4>2
    <3>2. CASE g \in grants /\ g.voter # p
      <4>1. g.voter \in Node
        BY <1>1, <3>2 DEF TypeOK, VoteRecord
      <4> QED BY <2>2, <3>2, <4>1 DEF ElectionInv, VotesRemembered
    <3>3. CASE g = cast /\ granted
      BY <1>2, <2>2, <2>4, <2>7, <3>3
    <3> QED BY <2>1, <3>1, <3>2, <3>3
  <2>13. SavesPrecedeVoting'
    BY <1>3 DEF ElectionInv, SavesPrecedeVoting
  <2>14. CandidaciesPending'
    <3> SUFFICES ASSUME NEW n \in Node, NEW w \in Worker,
                        election[n][w].phase = "saving"
                 PROVE  /\ election[n][w].votes = {n}
                        /\ n \notin rolledBack =>
                             /\ election[n][w].term <= currentTerm'[n]
                             /\ election[n][w].term = currentTerm'[n] =>
                                  votedFor'[n] = n
                             /\ \A g \in grants' :
                                  (g.voter = n /\ g.term = election[n][w].term)
                                    => g.candidate = n
      BY <1>3 DEF CandidaciesPending
    <3>1. /\ election[n][w].votes = {n}
          /\ n \notin rolledBack =>
               /\ election[n][w].term <= currentTerm[n]
               /\ election[n][w].term = currentTerm[n] => votedFor[n] = n
               /\ \A g \in grants :
                    (g.voter = n /\ g.term = election[n][w].term)
                      => g.candidate = n
      BY DEF ElectionInv, CandidaciesPending
    <3>2. CASE n # p
      BY <2>1, <2>2, <2>4, <3>1, <3>2
    <3>3. CASE n = p
      <4>1. election[p][w].term \in Nat
        <5>1. election[p][w] \in ElectionRecord
          BY <1>1, <1>2 DEF TypeOK
        <5> QED BY <5>1, ElectionFields DEF Term
      <4>2. (p \notin rolledBack /\ election[p][w].term = m.term) =>
              vote2 = p /\ (granted => m.src = p)
        BY <1>2, <2>3, <2>5, <2>6, <2>7, <2>8, <3>1, <3>3, <4>1, NodeAssumption
      <4>3. p \notin rolledBack => election[p][w].term <= currentTerm'[p]
        BY <1>2, <2>2, <2>3, <3>1, <3>3, <4>1
      <4> QED BY <2>1, <2>2, <2>4, <3>1, <3>3, <4>2, <4>3
    <3> QED BY <3>2, <3>3
  <2>15. VotesReal'
    <3>1. grants \subseteq grants'
      BY <2>1
    <3>2. \A n \in Node, w \in Worker :
            election'[n][w].phase = "voting" =>
              \A v \in election'[n][w].votes :
                Vote(v, election'[n][w].term, n) \in grants'
      BY <1>3, <3>1 DEF ElectionInv, VotesReal
    <3>3. granted => Vote(p, m.term, m.src) \in grants'
      BY <2>1 DEF cast
    <3>4. ASSUME NEW a \in msgs', a.kind = "VoteReply", a.granted
          PROVE  Vote(a.src, a.asked, a.dst) \in grants'
      <4>1. CASE a \in msgs
        BY <3>1, <3>4, <4>1 DEF ElectionInv, VotesReal
      <4>2. CASE granted /\ a = answer(m.term, TRUE)
        BY <1>4, <3>3, <4>2
      <4> QED BY <2>1, <4>1, <4>2
    <3> QED BY <3>2, <3>4 DEF VotesReal
  <2>16. WinnersBacked'
    BY <1>3, <2>1 DEF ElectionInv, WinnersBacked
  <2> QED BY <2>11, <2>12, <2>13, <2>14, <2>15, <2>16 DEF ElectionInv
<1> QED BY <1>5, <1>6

\* A granted answer is counted in the election that asked for it.
LEMMA TallyStep ==
  ASSUME ElectionInv, TypeOK', NEW m \in msgs, HandleVoteReply(m)
  PROVE  ElectionInv'
<1> DEFINE n == m.dst
           e == election[n][m.worker]
<1>1. TypeOK
  BY DEF ElectionInv
<1>2. /\ n \in Node /\ m.src \in Node /\ m.worker \in Worker
      /\ m.term \in Nat /\ currentTerm[n] \in Nat
  BY <1>1 DEF TypeOK, Message, Term
<1>3. /\ msgs' = msgs \ {m}
      /\ m.kind = "VoteReply"
      /\ UNCHANGED <<grants, won, rolledBack>>
  BY DEF HandleVoteReply
<1>4. CASE m.term > currentTerm[n]
  <2>1. /\ currentTerm' = [currentTerm EXCEPT ![n] = m.term]
        /\ save' = [save EXCEPT ![n]["reply"].step = "readTerm"]
        /\ UNCHANGED election
    BY <1>4 DEF HandleVoteReply, BeginSave
  <2>2. votedFor' = [votedFor EXCEPT ![n] = Nil]
    BY <1>4 DEF HandleVoteReply
  <2>3. QuietVotes
    BY <1>1, <1>2, <1>4, <2>1, <2>2 DEF TypeOK, QuietVotes
  <2>4. QuietSaves
    <3> SUFFICES ASSUME NEW x \in Node, NEW w \in Worker
                 PROVE  save'[x][w] = save[x][w]
      BY DEF QuietSaves
    <3>1. w \in Saver /\ w # "reply"
      BY DEF Saver, Worker
    <3> QED BY <1>1, <1>2, <2>1, <3>1 DEF TypeOK
  <2>5. QuietElections
    BY <2>1 DEF QuietElections
  <2>6. Quiet
    BY <1>3, <2>3, <2>4, <2>5 DEF Quiet
  <2> QED BY <2>6, QuietStep
<1>5. CASE ~ (m.term > currentTerm[n])
  <2>1. UNCHANGED <<currentTerm, votedFor, save>>
    BY <1>5 DEF HandleVoteReply
  <2>2. CASE ~ (m.granted /\ e.phase = "voting" /\ e.term = m.asked)
    <3>1. UNCHANGED election
      BY <1>5, <2>2 DEF HandleVoteReply
    <3>2. QuietVotes /\ QuietElections /\ QuietSaves
      BY <2>1, <3>1 DEF QuietVotes, QuietElections, QuietSaves
    <3>3. Quiet
      BY <1>3, <3>2 DEF Quiet
    <3> QED BY <3>3, QuietStep
  <2>3. CASE m.granted /\ e.phase = "voting" /\ e.term = m.asked
    <3>1. election' = [election EXCEPT ![n][m.worker].votes = @ \cup {m.src}]
      BY <1>5, <2>3 DEF HandleVoteReply
    <3>2. e \in ElectionRecord
      BY <1>1, <1>2 DEF TypeOK
    <3>3. /\ election'[n][m.worker].phase = "voting"
          /\ election'[n][m.worker].term = e.term
          /\ election'[n][m.worker].votes = e.votes \cup {m.src}
      BY <1>1, <1>2, <2>3, <3>1, <3>2 DEF TypeOK, ElectionRecord
    <3>4. \A x \in Node, w \in Worker :
            (x # n \/ w # m.worker) => election'[x][w] = election[x][w]
      BY <1>1, <1>2, <3>1 DEF TypeOK
    <3>5. Vote(m.src, e.term, n) \in grants
      BY <1>3, <2>3 DEF ElectionInv, VotesReal
    <3>6. \A v \in e.votes : Vote(v, e.term, n) \in grants
      BY <1>2, <2>3 DEF ElectionInv, VotesReal
    <3>7. save[n][m.worker].step = "none"
      BY <1>2, <2>3 DEF ElectionInv, SavesPrecedeVoting
    <3> HIDE DEF n, e
    <3>8. VotesUnique' /\ VotesRemembered'
      BY <1>3, <2>1 DEF ElectionInv, VotesUnique, VotesRemembered
    <3>9. SavesPrecedeVoting'
      BY <2>1, <3>4, <3>7 DEF ElectionInv, SavesPrecedeVoting
    <3>10. CandidaciesPending'
      BY <1>3, <2>1, <3>3, <3>4 DEF ElectionInv, CandidaciesPending
    <3>11. VotesReal'
      <4>1. ASSUME NEW x \in Node, NEW w \in Worker,
                   election'[x][w].phase = "voting",
                   NEW v \in election'[x][w].votes
            PROVE  Vote(v, election'[x][w].term, x) \in grants
        <5>1. CASE x = n /\ w = m.worker
          BY <3>3, <3>5, <3>6, <5>1
        <5>2. CASE x # n \/ w # m.worker
          BY <3>4, <4>1, <5>2 DEF ElectionInv, VotesReal
        <5> QED BY <5>1, <5>2
      <4> QED BY <1>3, <4>1 DEF ElectionInv, VotesReal
    <3>12. WinnersBacked'
      BY <1>3 DEF ElectionInv, WinnersBacked
    <3> QED BY <3>8, <3>9, <3>10, <3>11, <3>12 DEF ElectionInv
  <2> QED BY <2>2, <2>3
<1> QED BY <1>4, <1>5

\* A won election leaves the quorum that elected it behind as its witness.
LEMMA WinStep ==
  ASSUME ElectionInv, TypeOK', NEW n \in Node, NEW w \in Worker,
         CountVotesWon(n, w)
  PROVE  ElectionInv'
<1> DEFINE e == election[n][w]
           win == [node |-> n, term |-> e.term]
<1>1. TypeOK
  BY DEF ElectionInv
<1>2. /\ e.phase = "voting"
      /\ Cardinality(e.votes) >= quorumSize
      /\ won' = won \cup {win}
      /\ election' = [election EXCEPT ![n][w] = [Idle EXCEPT !.phase = "won"]]
      /\ UNCHANGED <<currentTerm, votedFor, save, msgs, grants, rolledBack>>
  BY DEF CountVotesWon
<1>3. /\ election'[n][w].phase = "won"
      /\ \A x \in Node, v \in Worker :
           (x # n \/ v # w) => election'[x][v] = election[x][v]
  BY <1>1, <1>2 DEF TypeOK, Idle
<1>4. save[n][w].step = "none"
  BY <1>2 DEF ElectionInv, SavesPrecedeVoting
<1>5. e.votes \in SUBSET Node
  BY <1>1, ElectionFields DEF TypeOK
<1>6. \A v \in e.votes : Vote(v, e.term, n) \in grants
  BY <1>2 DEF ElectionInv, VotesReal
<1>7. win.node = n /\ win.term = e.term
  OBVIOUS
<1> HIDE DEF win, e
<1>8. VotesUnique' /\ VotesRemembered'
  BY <1>2 DEF ElectionInv, VotesUnique, VotesRemembered
<1>9. SavesPrecedeVoting'
  BY <1>2, <1>3, <1>4 DEF ElectionInv, SavesPrecedeVoting
<1>10. CandidaciesPending'
  BY <1>2, <1>3 DEF ElectionInv, CandidaciesPending
<1>11. VotesReal'
  BY <1>2, <1>3 DEF ElectionInv, VotesReal
<1>12. WinnersBacked'
  <2> SUFFICES ASSUME NEW a \in won'
               PROVE  \E Q \in SUBSET Node :
                        /\ Cardinality(Q) >= quorumSize
                        /\ \A v \in Q : Vote(v, a.term, a.node) \in grants
    BY <1>2 DEF WinnersBacked
  <2>1. CASE a \in won
    BY <2>1 DEF ElectionInv, WinnersBacked
  <2>2. CASE a = win
    BY <1>2, <1>5, <1>6, <1>7, <2>2
  <2> QED BY <1>2, <2>1, <2>2
<1> QED BY <1>8, <1>9, <1>10, <1>11, <1>12 DEF ElectionInv

\* A restart either still knows its votes from state.json, or is marked as
\* rolled back.
LEMMA CrashStep ==
  ASSUME ElectionInv, TypeOK', NEW n \in Node, CrashRestart(n)
  PROVE  ElectionInv'
<1>1. TypeOK
  BY DEF ElectionInv
<1>2. /\ currentTerm' = [currentTerm EXCEPT ![n] = disk[n].term]
      /\ votedFor' = [votedFor EXCEPT ![n] = disk[n].vote]
      /\ election' = [election EXCEPT ![n] = [w \in Worker |-> Idle]]
      /\ save' = [save EXCEPT ![n] = [w \in Saver |-> NoSave]]
      /\ msgs' \subseteq msgs
      /\ rolledBack' = IF Covers(disk[n], n) THEN rolledBack
                                             ELSE rolledBack \cup {n}
      /\ UNCHANGED <<grants, won>>
  BY DEF CrashRestart
<1>3. /\ currentTerm'[n] = disk[n].term
      /\ votedFor'[n] = disk[n].vote
      /\ \A x \in Node \ {n} : /\ currentTerm'[x] = currentTerm[x]
                              /\ votedFor'[x] = votedFor[x]
  BY <1>1, <1>2 DEF TypeOK
<1>4. \A w \in Worker : /\ election'[n][w].phase = "idle"
                        /\ save'[n][w].step = "none"
  BY <1>1, <1>2 DEF TypeOK, Idle, NoSave, Saver
<1>5. \A x \in Node \ {n} : election'[x] = election[x] /\ save'[x] = save[x]
  BY <1>1, <1>2 DEF TypeOK
<1>6. /\ rolledBack \subseteq rolledBack'
      /\ n \notin rolledBack' => Covers(disk[n], n)
  BY <1>2
<1>7. VotesUnique'
  BY <1>2, <1>6 DEF ElectionInv, VotesUnique
<1>8. VotesRemembered'
  <2> SUFFICES ASSUME NEW g \in grants, g.voter \notin rolledBack'
               PROVE  /\ g.term <= currentTerm'[g.voter]
                      /\ g.term = currentTerm'[g.voter] =>
                           votedFor'[g.voter] = g.candidate
    BY <1>2 DEF VotesRemembered
  <2>1. g.voter \in Node /\ g.term \in Nat
    BY <1>1 DEF TypeOK, VoteRecord, Term
  <2>2. CASE g.voter = n
    <3>1. disk[n].term \in Nat
      BY <1>1 DEF TypeOK, DiskRecord, Term
    <3>2. \/ g.term < disk[n].term
          \/ g.term = disk[n].term /\ g.candidate = disk[n].vote
      BY <1>6, <2>2 DEF Covers
    <3> QED BY <1>3, <2>1, <2>2, <3>1, <3>2
  <2>3. CASE g.voter # n
    BY <1>3, <1>6, <2>1, <2>3 DEF ElectionInv, VotesRemembered
  <2> QED BY <2>2, <2>3
<1>9. SavesPrecedeVoting'
  BY <1>4, <1>5 DEF ElectionInv, SavesPrecedeVoting
<1>10. CandidaciesPending'
  BY <1>2, <1>3, <1>4, <1>5, <1>6 DEF ElectionInv, CandidaciesPending
<1>11. VotesReal'
  BY <1>2, <1>4, <1>5 DEF ElectionInv, VotesReal
<1>12. WinnersBacked'
  BY <1>2 DEF ElectionInv, WinnersBacked
<1> QED BY <1>7, <1>8, <1>9, <1>10, <1>11, <1>12 DEF ElectionInv

\* A step that leaves the terms and votes alone forgets no vote.
LEMMA TermsKept ==
  UNCHANGED <<currentTerm, votedFor>> => QuietVotes
BY DEF QuietVotes

\* A handler that adopts a newer term, or follows the leader of its own,
\* forgets no vote.
LEMMA FollowStep ==
  ASSUME TypeOK, NEW m \in msgs, FollowLeader(m),
         m.term >= currentTerm[m.dst]
  PROVE  QuietVotes
<1>1. m.dst \in Node /\ m.term \in Nat /\ currentTerm[m.dst] \in Nat
  BY DEF TypeOK, Message, Term
<1>2. /\ currentTerm' = [currentTerm EXCEPT ![m.dst] = m.term]
      /\ votedFor' = [votedFor EXCEPT ![m.dst] =
                        IF m.term > currentTerm[m.dst] THEN Nil ELSE @]
  BY DEF FollowLeader
<1>3. CASE m.term > currentTerm[m.dst]
  BY <1>1, <1>2, <1>3 DEF QuietVotes, TypeOK
<1>4. CASE ~ (m.term > currentTerm[m.dst])
  <2>1. m.term = currentTerm[m.dst]
    BY <1>1, <1>4
  <2>2. votedFor' = votedFor /\ currentTerm' = currentTerm
    BY <1>1, <1>2, <1>4, <2>1 DEF TypeOK
  <2> QED BY <2>2, TermsKept
<1> QED BY <1>3, <1>4

\* The actions that cast no vote are quiet.
LEMMA QuietActions ==
  ASSUME TypeOK, SavesPrecedeVoting,
         \/ \E n \in Node :
              \/ StartElection(n)
              \/ \E p \in Node : HandlePreVote(p, n)
              \/ PreVoteLost(n)
              \/ \E w \in Worker : \/ CountVotesLost(n, w)
                                   \/ BecomeLeader(n, w)
                                   \/ ProposeNoop(n, w)
              \/ \E w \in Saver : ReadTerm(n, w) \/ ReadVote(n, w)
              \/ WriteState(n, "reply")
              \/ Lead(n)
         \/ \E m \in msgs :
              \/ RejectLeaderRPC(m)
              \/ EarlyReturn(m)
              \/ AppendEntriesAccept(m)
              \/ HandleInstallSnapshot(m)
              \/ HandleStaleReply(m)
              \/ HandleTimeoutNow(m)
  PROVE  Quiet
<1>1. ASSUME NEW n \in Node, StartElection(n) PROVE Quiet
  <2>1. QuietElections
    BY <1>1 DEF StartElection, QuietElections, TypeOK, Worker
  <2> QED BY <1>1, <2>1, TermsKept DEF StartElection, Quiet, QuietSaves
<1>2. ASSUME NEW n \in Node, NEW p \in Node, HandlePreVote(p, n) PROVE Quiet
  <2>1. election[n]["loop"] \in ElectionRecord
    BY DEF TypeOK, Worker
  <2>2. election' = [election EXCEPT ![n]["loop"].votes = @ \cup {p}]
    BY <1>2 DEF HandlePreVote
  <2>3. election'[n]["loop"].phase = "prevote"
    BY <1>2, <2>1, <2>2 DEF HandlePreVote, TypeOK, Worker, ElectionRecord
  <2>4. QuietElections
    <3>1. \A x \in Node, w \in Worker :
            (x # n \/ w # "loop") => election'[x][w] = election[x][w]
      BY <2>2 DEF TypeOK
    <3> QED BY <1>2, <2>3, <3>1 DEF QuietElections, HandlePreVote
  <2> QED BY <1>2, <2>4, TermsKept DEF HandlePreVote, Quiet, QuietSaves
<1>3. ASSUME NEW n \in Node, PreVoteLost(n) PROVE Quiet
  <2>1. QuietElections
    BY <1>3 DEF PreVoteLost, QuietElections, TypeOK, Idle
  <2> QED BY <1>3, <2>1, TermsKept DEF PreVoteLost, Quiet, QuietSaves
<1>4. ASSUME NEW n \in Node, NEW w \in Worker, CountVotesLost(n, w) PROVE Quiet
  <2>1. QuietElections
    BY <1>4 DEF CountVotesLost, QuietElections, TypeOK, Idle
  <2> QED BY <1>4, <2>1, TermsKept DEF CountVotesLost, Quiet, QuietSaves
<1>5. ASSUME NEW n \in Node, NEW w \in Worker, BecomeLeader(n, w) PROVE Quiet
  <2>1. election[n][w] \in ElectionRecord
    BY DEF TypeOK
  <2>2. election' = [election EXCEPT ![n][w].phase = "noop"]
    BY <1>5 DEF BecomeLeader
  <2>3. election'[n][w].phase = "noop"
    BY <2>1, <2>2 DEF TypeOK, ElectionRecord
  <2>4. QuietElections
    <3>1. \A x \in Node, v \in Worker :
            (x # n \/ v # w) => election'[x][v] = election[x][v]
      BY <2>2 DEF TypeOK
    <3> QED BY <1>5, <2>3, <3>1 DEF QuietElections, BecomeLeader
  <2> QED BY <1>5, <2>4, TermsKept DEF BecomeLeader, Quiet, QuietSaves
<1>6. ASSUME NEW n \in Node, NEW w \in Worker, ProposeNoop(n, w) PROVE Quiet
  <2>1. QuietElections
    BY <1>6 DEF ProposeNoop, QuietElections, TypeOK, Idle
  <2> QED BY <1>6, <2>1, TermsKept DEF ProposeNoop, Quiet, QuietSaves
<1>7. ASSUME NEW n \in Node, NEW w \in Saver, ReadTerm(n, w) PROVE Quiet
  <2>1. QuietSaves
    BY <1>7 DEF ReadTerm, QuietSaves, TypeOK, Saver
  <2> QED BY <1>7, <2>1, TermsKept DEF ReadTerm, Quiet, QuietElections
<1>8. ASSUME NEW n \in Node, NEW w \in Saver, ReadVote(n, w) PROVE Quiet
  <2>1. QuietSaves
    <3>1. /\ save' = [save EXCEPT ![n][w].step = "write",
                                  ![n][w].vote = votedFor[n]]
          /\ save[n][w].step # "none"
      BY <1>8 DEF ReadVote
    <3>2. \A x \in Node, v \in Saver :
            (x # n \/ v # w) => save'[x][v] = save[x][v]
      BY <3>1 DEF TypeOK
    <3> QED BY <3>1, <3>2 DEF QuietSaves, Saver
  <2> QED BY <1>8, <2>1, TermsKept DEF ReadVote, Quiet, QuietElections
<1>9. ASSUME NEW n \in Node, WriteState(n, "reply") PROVE Quiet
  <2>1. "reply" \notin Worker
    BY DEF Worker
  <2>2. save' = [save EXCEPT ![n]["reply"] = NoSave]
    BY <1>9 DEF WriteState
  <2>3. QuietSaves
    BY <2>1, <2>2 DEF QuietSaves, TypeOK, Saver
  <2> QED BY <1>9, <2>1, <2>3, TermsKept DEF WriteState, Quiet, QuietElections
<1>10. ASSUME NEW n \in Node, Lead(n) PROVE Quiet
  <2>1. UNCHANGED <<currentTerm, votedFor, election, save, grants, won,
                    rolledBack>>
    BY <1>10 DEF Lead, SendLeaderRPC, TransferLeadership, SendTimeoutNow,
                 TransferReturn
  <2>2. \A m \in msgs' : m \in msgs \/ m.kind # "VoteReply"
    <3>1. ASSUME NEW p \in Node, NEW k \in {"AppendEntries", "InstallSnapshot"},
                 SendLeaderRPC(n, p, k)
          PROVE  \A m \in msgs' : m \in msgs \/ m.kind # "VoteReply"
      BY <3>1 DEF SendLeaderRPC, Msg
    <3>2. ASSUME SendTimeoutNow(n)
          PROVE  \A m \in msgs' : m \in msgs \/ m.kind # "VoteReply"
      BY <3>2 DEF SendTimeoutNow, Msg
    <3>3. ASSUME NEW p \in Node, TransferLeadership(n, p)
          PROVE  \A m \in msgs' : m \in msgs \/ m.kind # "VoteReply"
      BY <3>3 DEF TransferLeadership
    <3>4. ASSUME TransferReturn(n)
          PROVE  \A m \in msgs' : m \in msgs \/ m.kind # "VoteReply"
      BY <3>4 DEF TransferReturn
    <3> QED BY <1>10, <3>1, <3>2, <3>3, <3>4 DEF Lead
  <2> QED BY <2>1, <2>2, TermsKept DEF Quiet, QuietElections, QuietSaves
<1>11. ASSUME NEW m \in msgs, RejectLeaderRPC(m) PROVE Quiet
  <2>1. \A x \in msgs' : x \in msgs \/ x.kind # "VoteReply"
    BY <1>11 DEF RejectLeaderRPC, Msg
  <2> QED BY <1>11, <2>1, TermsKept
          DEF RejectLeaderRPC, Quiet, QuietElections, QuietSaves
<1>12. ASSUME NEW m \in msgs, EarlyReturn(m) PROVE Quiet
  <2>1. QuietVotes
    BY <1>12, FollowStep DEF EarlyReturn
  <2> QED BY <1>12, <2>1
          DEF EarlyReturn, Quiet, QuietElections, QuietSaves
<1>13. ASSUME NEW m \in msgs, AppendEntriesAccept(m) PROVE Quiet
  <2>1. QuietVotes
    BY <1>13, FollowStep DEF AppendEntriesAccept
  <2> QED BY <1>13, <2>1
          DEF AppendEntriesAccept, Quiet, QuietElections, QuietSaves
<1>14. ASSUME NEW m \in msgs, HandleInstallSnapshot(m) PROVE Quiet
  <2>1. QuietVotes
    BY <1>14, FollowStep DEF HandleInstallSnapshot
  <2> QED BY <1>14, <2>1
          DEF HandleInstallSnapshot, Quiet, QuietElections, QuietSaves
<1>15. ASSUME NEW m \in msgs, HandleStaleReply(m) PROVE Quiet
  <2>1. QuietVotes
    <3>1. m.dst \in Node /\ m.term \in Nat /\ currentTerm[m.dst] \in Nat
      BY DEF TypeOK, Message, Term
    <3>2. CASE m.term > currentTerm[m.dst]
      BY <1>15, <3>1, <3>2 DEF HandleStaleReply, QuietVotes, TypeOK
    <3>3. CASE ~ (m.term > currentTerm[m.dst])
      BY <1>15, <3>3, TermsKept DEF HandleStaleReply
    <3> QED BY <3>2, <3>3
  <2> QED BY <1>15, <2>1
          DEF HandleStaleReply, Quiet, QuietElections, QuietSaves
<1>16. ASSUME NEW m \in msgs, HandleTimeoutNow(m) PROVE Quiet
  <2>1. m.dst \in Node
    BY DEF TypeOK, Message
  <2>2. QuietElections
    <3>1. CASE election' = election
      BY <3>1 DEF QuietElections
    <3>2. CASE /\ election[m.dst]["now"] = Idle
               /\ election' = [election EXCEPT ![m.dst]["now"].phase = "spawned"]
      <4>1. election'[m.dst]["now"].phase = "spawned"
        BY <2>1, <3>2 DEF TypeOK, Worker, Idle
      <4>2. \A x \in Node, w \in Worker :
              (x # m.dst \/ w # "now") => election'[x][w] = election[x][w]
        BY <2>1, <3>2 DEF TypeOK
      <4> QED BY <3>2, <4>1, <4>2 DEF QuietElections, Idle
    <3> QED BY <1>16, <3>1, <3>2 DEF HandleTimeoutNow
  <2> QED BY <1>16, <2>2, TermsKept DEF HandleTimeoutNow, Quiet, QuietSaves
<1> QED BY <1>1, <1>2, <1>3, <1>4, <1>5, <1>6, <1>7, <1>8, <1>9, <1>10, <1>11,
           <1>12, <1>13, <1>14, <1>15, <1>16

\* The invariant is inductive.
LEMMA InvStep == ElectionInv /\ [Next]_vars => ElectionInv'
<1> SUFFICES ASSUME ElectionInv, [Next]_vars PROVE ElectionInv'
  OBVIOUS
<1>1. TypeOK /\ SavesPrecedeVoting
  BY DEF ElectionInv
<1>2. TypeOK'
  BY <1>1, TypeStep
<1>3. ASSUME NEW n \in Node, Elect(n) PROVE ElectionInv'
  <2>1. CASE PreVoteWon(n)
    BY <1>2, <2>1, CampaignStep DEF PreVoteWon, Worker
  <2>2. CASE StartImmediateElection(n)
    BY <1>2, <2>2, CampaignStep DEF StartImmediateElection, Worker
  <2>3. ASSUME NEW w \in Worker, CountVotesWon(n, w) PROVE ElectionInv'
    BY <1>2, <2>3, WinStep
  <2>4. ASSUME NEW w \in Saver, WriteState(n, w) PROVE ElectionInv'
    <3>1. CASE w \in Worker
      BY <1>2, <2>4, <3>1, AskStep
    <3>2. CASE w = "reply"
      BY <1>1, <1>2, <2>4, <3>2, QuietActions, QuietStep
    <3> QED BY <3>1, <3>2 DEF Saver
  <2>5. CASE \/ StartElection(n)
             \/ \E p \in Node : HandlePreVote(p, n)
             \/ PreVoteLost(n)
             \/ \E w \in Worker : \/ CountVotesLost(n, w)
                                  \/ BecomeLeader(n, w)
                                  \/ ProposeNoop(n, w)
             \/ \E w \in Saver : ReadTerm(n, w) \/ ReadVote(n, w)
    BY <1>1, <1>2, <2>5, QuietActions, QuietStep
  <2> QED BY <1>3, <2>1, <2>2, <2>3, <2>4, <2>5 DEF Elect
<1>4. ASSUME NEW n \in Node, Lead(n) PROVE ElectionInv'
  BY <1>1, <1>2, <1>4, QuietActions, QuietStep
<1>5. ASSUME NEW n \in Node, CrashRestart(n) PROVE ElectionInv'
  BY <1>2, <1>5, CrashStep
<1>6. ASSUME NEW m \in msgs, Receive(m) PROVE ElectionInv'
  <2>1. CASE HandleRequestVote(m)
    BY <1>2, <2>1, VoteStep
  <2>2. CASE HandleVoteReply(m)
    BY <1>2, <2>2, TallyStep
  <2>3. CASE \/ RejectLeaderRPC(m)
             \/ EarlyReturn(m)
             \/ AppendEntriesAccept(m)
             \/ HandleInstallSnapshot(m)
             \/ HandleStaleReply(m)
             \/ HandleTimeoutNow(m)
    BY <1>1, <1>2, <2>3, QuietActions, QuietStep
  <2> QED BY <1>6, <2>1, <2>2, <2>3 DEF Receive
<1>7. CASE UNCHANGED vars
  <2>1. Quiet
    BY <1>7, TermsKept DEF vars, Quiet, QuietElections, QuietSaves
  <2> QED BY <1>2, <2>1, QuietStep
<1> QED BY <1>3, <1>4, <1>5, <1>6, <1>7 DEF Next

\* The first state satisfies the invariant.
LEMMA InvInit == Init => ElectionInv
<1> SUFFICES ASSUME Init PROVE ElectionInv
  OBVIOUS
<1>1. TypeOK
  <2>1. used \in UsedRecord
    BY BoundAssumption DEF Init, UsedRecord
  <2>2. disk \in [Node -> DiskRecord]
    BY DEF Init, DiskRecord, Term
  <2> QED BY <2>1, <2>2, ConstantTypes DEF Init, TypeOK, Term
<1>2. VotesUnique /\ VotesRemembered /\ WinnersBacked
  BY DEF Init, VotesUnique, VotesRemembered, WinnersBacked
<1>3. SavesPrecedeVoting /\ CandidaciesPending /\ VotesReal
  BY DEF Init, SavesPrecedeVoting, CandidaciesPending, VotesReal, NoSave, Idle,
         Saver
<1> QED BY <1>1, <1>2, <1>3 DEF ElectionInv

-----------------------------------------------------------------------------

\* Two quorums of quorumSize nodes share a node.
LEMMA QuorumsMeet ==
  ASSUME NEW P \in SUBSET Node, NEW Q \in SUBSET Node,
         Cardinality(P) >= quorumSize, Cardinality(Q) >= quorumSize
  PROVE  P \cap Q # {}
<1>1. /\ IsFiniteSet(P) /\ IsFiniteSet(Q)
      /\ Cardinality(P) \in Nat /\ Cardinality(Q) \in Nat
      /\ Cardinality(Node) \in Nat
  BY NodeAssumption, FS_Subset, FS_CardinalityType
<1>2. Cardinality(P) + Cardinality(Q) > Cardinality(Node)
  BY <1>1 DEF quorumSize
<1> QED BY <1>1, <1>2, NodeAssumption, FS_MajoritiesIntersect

\* Single votes and intersecting quorums make the winner of a term unique.
LEMMA WinnersFollow == ElectionInv => WinnersUnique
<1> SUFFICES ASSUME ElectionInv, rolledBack = {},
                    NEW a \in won, NEW b \in won, a.term = b.term
             PROVE  a.node = b.node
  BY DEF WinnersUnique
<1>1. PICK P \in SUBSET Node :
        /\ Cardinality(P) >= quorumSize
        /\ \A v \in P : Vote(v, a.term, a.node) \in grants
  BY DEF ElectionInv, WinnersBacked
<1>2. PICK Q \in SUBSET Node :
        /\ Cardinality(Q) >= quorumSize
        /\ \A v \in Q : Vote(v, b.term, b.node) \in grants
  BY DEF ElectionInv, WinnersBacked
<1>3. PICK v \in P : v \in Q
  BY <1>1, <1>2, QuorumsMeet
<1>4. Vote(v, a.term, a.node) \in grants /\ Vote(v, b.term, b.node) \in grants
  BY <1>1, <1>2, <1>3
<1>5. Vote(v, a.term, a.node).candidate = Vote(v, b.term, b.node).candidate
  <2>1. /\ Vote(v, a.term, a.node).voter = v
        /\ Vote(v, b.term, b.node).voter = v
        /\ Vote(v, a.term, a.node).term = Vote(v, b.term, b.node).term
    BY DEF Vote
  <2> QED BY <1>4, <2>1 DEF ElectionInv, VotesUnique
<1> QED BY <1>5 DEF Vote

\* The inductive invariant holds in every reachable state.
THEOREM ElectionInvariant == Spec => []ElectionInv
BY InvInit, InvStep, PTL DEF Spec

\* Every variable of the election keeps its type.
THEOREM TypeCorrect == Spec => []TypeOK
<1>1. ElectionInv => TypeOK
  BY DEF ElectionInv
<1> QED BY <1>1, ElectionInvariant, PTL

\* No process votes for two candidates in one term, whatever the interleaving
\* of handlers, saves, spawned elections and crashes, unless it restarted from
\* a state.json that had fallen behind its vote.
THEOREM VoteSafety == Spec => []VotesUnique
<1>1. ElectionInv => VotesUnique
  BY DEF ElectionInv
<1> QED BY <1>1, ElectionInvariant, PTL

\* At most one node passes the win check of a term while no restart has lost
\* a vote.
THEOREM ElectionSafety == Spec => []WinnersUnique
BY WinnersFollow, ElectionInvariant, PTL

=============================================================================

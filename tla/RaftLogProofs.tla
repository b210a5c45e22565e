---------------------------- MODULE RaftLogProofs ----------------------------
(***************************************************************************)
(* Proofs about RaftLog, for every number of commands and crashes, every   *)
(* compaction threshold, and disks that fail or do not.                    *)
(***************************************************************************)
EXTENDS RaftLog, WellFoundedInduction, NaturalsInduction, TLAPS

-----------------------------------------------------------------------------
(* The inductive invariant *)

\* What runs, runs in a process that is up.
Running ==
  /\ prop.phase = "append" \/ apply.phase # "idle" => up = "running"
  /\ prop.phase = "idle" => prop = NoProposal
  /\ apply.phase = "idle" => apply = Resting

\* The index of the last entry, also of a log that compaction emptied.
LogEnd == firstIdx + Len(entries) - 1

\* Entries are where their index says.
Consecutive(es, first) == \A i \in 1..Len(es) : es[i].index = first + i - 1

\* raft.log holds consecutive indexes, the last of which is the log's own, and
\* the entries in memory are its last records.
FileFollows ==
  /\ file.records # <<>> => Consecutive(file.records, file.records[1].index)
  /\ up = "running" =>
       /\ file.records # <<>> => file.records[Len(file.records)].index = LogEnd
       /\ Len(entries) <= Len(file.records)
       /\ \A i \in 1..Len(entries) :
            entries[i] = file.records[Len(file.records) - Len(entries) + i]

\* A proposal that has taken its index appends at the end of the log.
IndexTaken == prop.phase = "append" => prop.index = LogEnd + 1

\* What is applied was committed, and what is committed is in the log or was.
IndexesOrdered ==
  up = "running" =>
    /\ lastApplied <= commitIndex
    /\ commitIndex <= LogEnd
    /\ apply.to <= commitIndex
    /\ apply.phase \in {"apply", "applied"} => lastApplied <= apply.to
    /\ apply.phase \in {"check", "saved"} => apply.to = lastApplied

\* The index up to which entries have gone to the state machine.
AppliedTo == IF apply.phase = "applied" THEN apply.to ELSE lastApplied

\* A command that was taken from a client before the proposal under way.
Earlier(c) ==
  /\ c <= issued
  /\ prop.phase = "append" /\ prop.cmd # Noop => c < prop.cmd

\* Commands are in the log, the snapshot and the state machine in the order in
\* which they were proposed.
CommandsOrdered ==
  /\ prop.phase = "append" => prop.cmd \in {Noop, issued}
  /\ \A i \in 1..Len(file.records) : Earlier(file.records[i].cmd)
  /\ \A i \in 1..Len(fsm) : Earlier(fsm[i])
  /\ \A i \in 1..Len(snapshot.cmds) : Earlier(snapshot.cmds[i])
  /\ \A i, j \in 1..Len(file.records) :
       i < j /\ file.records[i].cmd # Noop /\ file.records[j].cmd # Noop
         => file.records[i].cmd < file.records[j].cmd
  /\ InOrder(fsm)
  /\ InOrder(snapshot.cmds)

\* The snapshot, and the state machine, hold earlier commands than the records
\* that come after them.
RestIsLater ==
  /\ \A i \in 1..Len(file.records), k \in 1..Len(snapshot.cmds) :
       file.records[i].index > snapshot.upTo /\ file.records[i].cmd # Noop
         => snapshot.cmds[k] < file.records[i].cmd
  /\ up = "running" =>
       \A i \in 1..Len(file.records), k \in 1..Len(fsm) :
         file.records[i].index > AppliedTo /\ file.records[i].cmd # Noop
           => fsm[k] < file.records[i].cmd

\* Is command c in the log in memory, in raft.log, in snapshot.json, in the
\* state machine?
InMemory(c) == \E i \in 1..Len(entries) : entries[i].cmd = c
InFile(c) == \E i \in 1..Len(file.records) : file.records[i].cmd = c
InSnapshot(c) == c \in ToSet(snapshot.cmds)
InFsm(c) == c \in ToSet(fsm)

\* No command that was accepted gets lost: compaction drops only what the
\* snapshot has.
NothingLost ==
  /\ \A c \in accepted : InSnapshot(c) \/ InFile(c)
  /\ up = "running" =>
       /\ \A c \in accepted : InSnapshot(c) \/ InMemory(c)
       /\ \A c \in Command : InSnapshot(c) => InFsm(c)
       /\ \A i \in 1..Len(entries) :
            entries[i].index <= AppliedTo /\ entries[i].cmd # Noop
              => InFsm(entries[i].cmd)
       /\ apply.phase = "saved" =>
            \A i \in 1..Len(entries) :
              entries[i].index <= apply.to /\ entries[i].cmd # Noop
                => InSnapshot(entries[i].cmd)

\* The state machine is past no accepted command that it has not taken.
NoneSkipped ==
  \A c \in accepted, i \in 1..Len(fsm) : c < fsm[i] => InFsm(c)

\* A log that nothing has put out of step.
Sound ==
  /\ Consecutive(entries, firstIdx)
  /\ FileFollows
  /\ IndexTaken
  /\ IndexesOrdered
  /\ CommandsOrdered
  /\ RestIsLater
  /\ NothingLost

\* What the properties rest on.
LogInv ==
  /\ TypeOK
  /\ Running
  /\ spoiled = {} => Sound /\ NoneSkipped

-----------------------------------------------------------------------------
(* Facts about the operators *)

\* A set of numbers that is not empty has a smallest one.
LEMMA LeastNumber ==
  ASSUME NEW S \in SUBSET Nat, S # {}
  PROVE  \E x \in S : \A y \in S : x <= y
<1>1. PICK x \in S : \A y \in S : ~ (<<y, x>> \in OpToRel(<, Nat))
  BY NatLessThanWellFounded, WFMin, Zenon
<1>2. ASSUME NEW y \in S PROVE x <= y
  <2>1. x \in Nat /\ y \in Nat
    OBVIOUS
  <2>2. ~ (y < x)
    BY <1>1, <2>1 DEF OpToRel
  <2> QED BY <2>1, <2>2
<1> QED BY <1>2

\* What a sequence of entries holds.
LEMMA EntryAt ==
  ASSUME NEW es \in Seq(Entry)
  PROVE  /\ Len(es) \in Nat
         /\ \A i \in 1..Len(es) :
              es[i] \in Entry /\ es[i].index \in Nat /\ es[i].cmd \in Command
<1>1. ASSUME NEW i \in 1..Len(es) PROVE es[i] \in Entry
  OBVIOUS
<1>2. ASSUME NEW e \in Entry PROVE e.index \in Nat /\ e.cmd \in Command
  BY DEF Entry
<1> QED BY <1>1, <1>2

\* One more entry of es for the state machine.
ApplyOne(es, cmds, i) ==
  IF es[i].cmd = Noop THEN cmds ELSE Append(cmds, es[i].cmd)

\* The state machine after each of the first n entries of es.
Applications(es, n) ==
  {g \in [0..n -> Seq(Command)] :
     /\ g[0] = <<>>
     /\ \A i \in 1..n : g[i] = ApplyOne(es, g[i - 1], i)}

\* Any log can be applied entry by entry.
LEMMA ApplicationsExist ==
  ASSUME NEW es \in Seq(Entry)
  PROVE  Applications(es, Len(es)) # {}
<1> DEFINE Bad == {n \in 0..Len(es) : Applications(es, n) = {}}
<1>1. Len(es) \in Nat /\ \A i \in 1..Len(es) : es[i].cmd \in Command
  BY EntryAt
<1>2. SUFFICES ASSUME Bad # {} PROVE FALSE
  BY <1>1
<1>3. PICK n \in Bad : \A m \in Bad : n <= m
  <2>1. Bad \in SUBSET Nat
    BY <1>1
  <2> QED BY <1>2, <2>1, LeastNumber, Zenon
<1>4. n # 0
  <2>1. [i \in 0..0 |-> <<>>] \in Applications(es, 0)
    BY DEF Applications
  <2> QED BY <1>3, <2>1
<1>5. n \in 1..Len(es) /\ n - 1 \in 0..Len(es) /\ n - 1 \notin Bad
  BY <1>1, <1>3, <1>4
<1>6. PICK g : g \in Applications(es, n - 1)
  BY <1>5
<1> DEFINE last == ApplyOne(es, g[n - 1], n)
           h == [i \in 0..n |-> IF i = n THEN last ELSE g[i]]
<1>7. g \in [0..(n - 1) -> Seq(Command)]
  BY <1>6 DEF Applications
<1>8. last \in Seq(Command)
  BY <1>1, <1>5, <1>7 DEF ApplyOne
<1> HIDE DEF last
<1>9. h \in [0..n -> Seq(Command)]
  BY <1>5, <1>7, <1>8
<1>10. h[0] = <<>>
  BY <1>5, <1>6 DEF Applications
<1>11. ASSUME NEW i \in 1..n PROVE h[i] = ApplyOne(es, h[i - 1], i)
  <2>1. h[i - 1] = g[i - 1]
    BY <1>5, <1>11
  <2>2. CASE i = n
    BY <1>5, <2>1, <2>2 DEF last
  <2>3. CASE i # n
    <3>1. i \in 1..(n - 1)
      BY <1>5, <2>3
    <3>2. g[i] = ApplyOne(es, g[i - 1], i)
      BY <1>6, <3>1 DEF Applications
    <3> QED BY <1>5, <2>1, <2>3, <3>2
  <2> QED BY <2>2, <2>3
<1>12. h \in Applications(es, n)
  BY <1>9, <1>10, <1>11 DEF Applications
<1> QED BY <1>3, <1>12

\* Commands is what the last of these applications leaves.
LEMMA CommandsApplied ==
  ASSUME NEW es \in Seq(Entry)
  PROVE  \E g \in Applications(es, Len(es)) : Commands(es) = g[Len(es)]
<1> DEFINE n == Len(es)
           Body(u) == [i \in 0..n |-> IF i = 0 THEN <<>>
                                      ELSE IF es[i].cmd = Noop THEN u[i - 1]
                                      ELSE Append(u[i - 1], es[i].cmd)]
           U == CHOOSE u : u = Body(u)
<1>1. n \in Nat
  OBVIOUS
<1>2. PICK g : g \in Applications(es, n)
  BY ApplicationsExist
<1>3. g = Body(g)
  <2>1. ASSUME NEW i \in 0..n PROVE g[i] = Body(g)[i]
    <3>1. CASE i = 0
      BY <1>2, <3>1 DEF Applications
    <3>2. CASE i # 0
      <4>1. i \in 1..n
        BY <1>1, <3>2
      <4>2. g[i] = ApplyOne(es, g[i - 1], i)
        BY <1>2, <4>1 DEF Applications
      <4> QED BY <3>2, <4>2 DEF ApplyOne
    <3> QED BY <3>1, <3>2
  <2> QED BY <1>2, <2>1 DEF Applications
<1>4. U = Body(U)
  BY <1>3
<1>5. Commands(es) = U[n]
  BY DEF Commands
<1> HIDE DEF U
<1>6. ASSUME NEW i \in 0..n PROVE U[i] = g[i]
  <2> DEFINE Bad == {k \in 0..n : U[k] # g[k]}
  <2>1. SUFFICES ASSUME Bad # {} PROVE FALSE
    OBVIOUS
  <2>2. PICK m \in Bad : \A k \in Bad : m <= k
    <3>1. Bad \in SUBSET Nat
      BY <1>1
    <3> QED BY <2>1, <3>1, LeastNumber, Zenon
  <2>3. U[m] = Body(U)[m] /\ g[m] = Body(g)[m]
    BY <1>3, <1>4
  <2>4. m # 0
    BY <2>2, <2>3
  <2>5. U[m - 1] = g[m - 1]
    BY <1>1, <2>2, <2>4
  <2> QED BY <2>2, <2>3, <2>4, <2>5
<1> QED BY <1>1, <1>2, <1>5, <1>6

\* Some cmds come from the first n entries of es, all their commands are in it
\* and, if those are in order, so are the cmds.
Collected(es, cmds, n) ==
  /\ cmds \in Seq(Command)
  /\ \A k \in 1..Len(cmds) :
       \E i \in 1..n : es[i].cmd # Noop /\ cmds[k] = es[i].cmd
  /\ \A i \in 1..n : es[i].cmd # Noop =>
       \E k \in 1..Len(cmds) : cmds[k] = es[i].cmd

Ordered(es) ==
  \A i, j \in 1..Len(es) :
    i < j /\ es[i].cmd # Noop /\ es[j].cmd # Noop => es[i].cmd < es[j].cmd

\* What FSM.Apply makes of a run of entries: their commands, all of them, in
\* their order.
LEMMA CommandsFacts ==
  ASSUME NEW es \in Seq(Entry)
  PROVE  /\ Collected(es, Commands(es), Len(es))
         /\ Ordered(es) => InOrder(Commands(es))
<1> DEFINE n == Len(es)
<1>1. n \in Nat /\ \A i \in 1..n : es[i].cmd \in Command
  BY EntryAt
<1>2. PICK g \in Applications(es, n) : Commands(es) = g[n]
  BY CommandsApplied
<1>3. /\ g[0] = <<>>
      /\ \A i \in 0..n : g[i] \in Seq(Command)
      /\ \A i \in 1..n : g[i] = ApplyOne(es, g[i - 1], i)
  BY <1>2 DEF Applications
<1> DEFINE Holds(k) == /\ Collected(es, g[k], k)
                       /\ Ordered(es) => InOrder(g[k])
           Bad == {k \in 0..n : ~ Holds(k)}
<1>4. Holds(0)
  BY <1>3 DEF Collected, InOrder
<1>5. ASSUME NEW m \in 1..n, Holds(m - 1) PROVE Holds(m)
  <2> DEFINE old == g[m - 1]
             c == es[m].cmd
  <2>1. old \in Seq(Command) /\ c \in Command /\ m - 1 \in 0..n
    BY <1>1, <1>3
  <2>2. Collected(es, old, m - 1)
    BY <1>5
  <2>3. CASE c = Noop
    <3>1. g[m] = old
      BY <1>3, <2>3 DEF ApplyOne
    <3>2. Collected(es, old, m)
      BY <2>1, <2>2, <2>3 DEF Collected
    <3> QED BY <1>5, <3>1, <3>2
  <2>4. CASE c # Noop
    <3>1. g[m] = Append(old, c)
      BY <1>3, <2>4 DEF ApplyOne
    <3> DEFINE new == Append(old, c)
    <3>2. /\ new \in Seq(Command)
          /\ Len(new) = Len(old) + 1
          /\ new[Len(old) + 1] = c
          /\ \A k \in 1..Len(old) : new[k] = old[k]
          /\ Len(old) \in Nat
      BY <2>1
    <3> HIDE DEF new
    <3>3. Collected(es, new, m)
      <4>1. ASSUME NEW k \in 1..Len(new)
            PROVE  \E i \in 1..m : es[i].cmd # Noop /\ new[k] = es[i].cmd
        <5>1. CASE k = Len(old) + 1
          BY <2>4, <3>2, <5>1
        <5>2. CASE k # Len(old) + 1
          <6>1. k \in 1..Len(old)
            BY <3>2, <5>2
          <6>2. PICK i \in 1..(m - 1) : es[i].cmd # Noop /\ old[k] = es[i].cmd
            BY <2>2, <6>1 DEF Collected
          <6> QED BY <3>2, <6>1, <6>2
        <5> QED BY <5>1, <5>2
      <4>2. ASSUME NEW i \in 1..m, es[i].cmd # Noop
            PROVE  \E k \in 1..Len(new) : new[k] = es[i].cmd
        <5>1. CASE i = m
          BY <3>2, <5>1
        <5>2. CASE i # m
          <6>1. PICK k \in 1..Len(old) : old[k] = es[i].cmd
            BY <2>2, <4>2, <5>2 DEF Collected
          <6> QED BY <3>2, <6>1
        <5> QED BY <5>1, <5>2
      <4> QED BY <3>2, <4>1, <4>2 DEF Collected
    <3>4. ASSUME Ordered(es) PROVE InOrder(new)
      <4> SUFFICES ASSUME NEW i \in 1..Len(new), NEW j \in 1..Len(new), i < j
                   PROVE  new[i] < new[j]
        BY DEF InOrder
      <4>1. i \in 1..Len(old)
        BY <3>2
      <4>2. CASE j = Len(old) + 1
        <5>1. PICK k \in 1..(m - 1) : es[k].cmd # Noop /\ old[i] = es[k].cmd
          BY <2>2, <4>1 DEF Collected
        <5>2. es[k].cmd < c
          BY <1>1, <2>4, <3>4, <5>1 DEF Ordered
        <5> QED BY <3>2, <4>1, <4>2, <5>1, <5>2
      <4>3. CASE j # Len(old) + 1
        BY <1>5, <3>2, <3>4, <4>1, <4>3 DEF InOrder
      <4> QED BY <4>2, <4>3
    <3> QED BY <3>1, <3>3, <3>4 DEF new
  <2> QED BY <2>3, <2>4
<1> HIDE DEF Holds
<1>6. Bad = {}
  <2>1. SUFFICES ASSUME Bad # {} PROVE FALSE
    OBVIOUS
  <2>2. PICK m \in Bad : \A k \in Bad : m <= k
    <3>1. Bad \in SUBSET Nat
      BY <1>1
    <3> QED BY <2>1, <3>1, LeastNumber, Zenon
  <2>3. m # 0
    BY <1>4, <2>2
  <2>4. m \in 1..n /\ Holds(m - 1)
    BY <1>1, <2>2, <2>3
  <2> QED BY <1>5, <2>2, <2>4
<1>7. Holds(n)
  BY <1>1, <1>6
<1> QED BY <1>2, <1>7 DEF Holds

\* GetRange leaves a run of the entries.
LEMMA GetRangeType ==
  ASSUME TypeOK, NEW start \in Nat, NEW end \in Nat
  PROVE  GetRange(start, end) \in Seq(Entry)
<1> DEFINE from == IF start < firstIdx THEN 1 ELSE start - firstIdx + 1
           to == IF end - firstIdx >= Len(entries) THEN Len(entries)
                                                  ELSE end - firstIdx + 1
<1>1. entries \in Seq(Entry) /\ Len(entries) \in Nat /\ firstIdx \in Nat
  BY DEF TypeOK
<1>2. from \in Nat \ {0} /\ to \in Int /\ to <= Len(entries)
  BY <1>1
<1>3. GetRange(start, end) = SubSeq(entries, from, to)
  BY DEF GetRange
<1> HIDE DEF from, to
<1>4. SubSeq(entries, from, to) \in Seq(Entry)
  BY <1>1, <1>2
<1> QED BY <1>3, <1>4

-----------------------------------------------------------------------------
(* Type correctness *)

FileType == [records : Seq(Entry), torn : BOOLEAN, open : BOOLEAN]

PropType == [phase : {"idle", "append"}, index : Nat, cmd : Command]

ApplyType ==
  [phase : {"idle", "apply", "applied", "check", "saved", "rewrite"}, to : Nat]

\* The first state is of the types.
LEMMA TypeInit == Init => TypeOK
<1> SUFFICES ASSUME Init PROVE TypeOK
  OBVIOUS
<1> USE LogAssumption
<1>1. <<>> \in Seq(Entry) /\ <<>> \in Seq(Command)
  OBVIOUS
<1>2. /\ up \in {"running", "down", "refused"}
      /\ leading \in BOOLEAN
      /\ entries \in Seq(Entry)
      /\ fsm \in Seq(Command)
  BY <1>1 DEF Init
<1>7. /\ firstIdx \in Nat \ {0}
      /\ meta \in Nat
      /\ commitIndex \in Nat
      /\ lastApplied \in Nat
  BY DEF Init, FirstAfter
<1>5. file \in [records : Seq(Entry), torn : BOOLEAN, open : BOOLEAN]
  <2>1. file = [records |-> <<>>, torn |-> FALSE, open |-> TRUE]
    BY DEF Init
  <2> QED BY <1>1, <2>1, Zenon
<1>6. snapshot \in [cmds : Seq(Command), upTo : Nat]
  <2>1. snapshot = [cmds |-> <<>>, upTo |-> 0] /\ 0 \in Nat
    BY DEF Init
  <2> QED BY <1>1, <2>1, Zenon
<1>3. /\ prop \in [phase : {"idle", "append"}, index : Nat, cmd : Command]
      /\ apply \in [phase : {"idle", "apply", "applied", "check", "saved",
                             "rewrite"}, to : Nat]
  BY DEF Init, NoProposal, Resting, Command, Noop
<1>4. /\ issued \in 0..MaxCommands
      /\ accepted \subseteq 1..MaxCommands
      /\ spoiled \subseteq Spoiling
      /\ crashes \in 0..MaxCrashes
  BY DEF Init
<1> QED BY <1>2, <1>3, <1>4, <1>5, <1>6, <1>7 DEF TypeOK

\* The proposal and the entry it makes.
LEMMA PropFacts ==
  ASSUME TypeOK
  PROVE  /\ NoProposal \in PropType
         /\ Resting \in ApplyType
         /\ [index |-> prop.index, cmd |-> prop.cmd] \in Entry
         /\ prop.cmd \in Command /\ prop.index \in Nat
         /\ LastIndex \in Nat
<1>1. prop.cmd \in Command /\ prop.index \in Nat
  BY DEF TypeOK
<1>2. NoProposal \in PropType /\ Resting \in ApplyType
  BY LogAssumption DEF NoProposal, Resting, PropType, ApplyType, Command, Noop
<1>3. LastIndex \in Nat
  <2>1. entries \in Seq(Entry) /\ firstIdx \in Nat \ {0}
    BY DEF TypeOK
  <2>2. Len(entries) \in Nat /\ (entries # <<>> => Len(entries) # 0)
    BY <2>1
  <2> QED BY <2>1, <2>2 DEF LastIndex
<1> QED BY <1>1, <1>2, <1>3 DEF Entry

\* Every step keeps the types.
LEMMA TypeStep ==
  ASSUME TypeOK, [Next]_vars
  PROVE  TypeOK'
<1> USE LogAssumption
<1> DEFINE e == [index |-> prop.index, cmd |-> prop.cmd]
<1>1. /\ e \in Entry
      /\ prop.index \in Nat
      /\ LastIndex + 1 \in Nat
      /\ prop.cmd \in Command
      /\ NoProposal \in PropType
      /\ Resting \in ApplyType
  BY PropFacts
<1>2. /\ up \in {"running", "down", "refused"}
      /\ leading \in BOOLEAN
      /\ entries \in Seq(Entry)
      /\ firstIdx \in Nat \ {0}
      /\ file \in FileType
      /\ meta \in Nat
      /\ snapshot \in [cmds : Seq(Command), upTo : Nat]
      /\ fsm \in Seq(Command)
      /\ commitIndex \in Nat
      /\ lastApplied \in Nat
      /\ prop \in PropType
      /\ apply \in ApplyType
      /\ issued \in 0..MaxCommands
      /\ accepted \subseteq 1..MaxCommands
      /\ spoiled \subseteq Spoiling
      /\ crashes \in 0..MaxCrashes
  BY DEF TypeOK, FileType, PropType, ApplyType
<1>3. /\ file.records \in Seq(Entry) /\ file.torn \in BOOLEAN /\ file.open \in BOOLEAN
      /\ \A x \in Seq(Entry), t, o \in BOOLEAN :
           [records |-> x, torn |-> t, open |-> o] \in FileType
      /\ \A x \in Seq(Entry) : [file EXCEPT !.records = x] \in FileType
      /\ \A t \in BOOLEAN : [file EXCEPT !.torn = t] \in FileType
                             /\ [file EXCEPT !.open = t] \in FileType
  BY <1>2 DEF FileType
<1>4. \A q \in Seq(Entry) : Append(q, e) \in Seq(Entry)
  BY <1>1
<1>5. /\ apply.to \in Nat
      /\ [apply EXCEPT !.phase = "applied"] \in ApplyType
      /\ [apply EXCEPT !.phase = "check"] \in ApplyType
      /\ [apply EXCEPT !.phase = "saved"] \in ApplyType
      /\ [apply EXCEPT !.phase = "rewrite"] \in ApplyType
      /\ \A n \in Nat : [phase |-> "apply", to |-> n] \in ApplyType
  BY <1>2 DEF ApplyType
<1>6. ASSUME NEW cmd \in Command, TakeIndex(cmd)
      PROVE  prop' \in PropType /\ spoiled' \subseteq Spoiling
  <2>1. prop' \in PropType
    BY <1>1, <1>6 DEF TakeIndex, PropType
  <2>2. spoiled' \subseteq Spoiling
    BY <1>2, <1>6 DEF TakeIndex, Spoiling
  <2> QED BY <2>1, <2>2
<1> HIDE DEF e
<1>10. CASE BecomeLeader
  <2>1. Noop \in Command
    BY DEF Noop, Command
  <2>2. prop' \in PropType /\ spoiled' \subseteq Spoiling
    BY <1>6, <1>10, <2>1 DEF BecomeLeader
  <2> QED BY <1>10, <2>2 DEF BecomeLeader, TypeOK, PropType
<1>11. CASE Propose
  <2>1. issued + 1 \in Command /\ issued' \in 0..MaxCommands
    BY <1>2, <1>11 DEF Propose, Command
  <2>2. prop' \in PropType /\ spoiled' \subseteq Spoiling
    BY <1>6, <1>11, <2>1 DEF Propose
  <2> QED BY <1>11, <2>1, <2>2 DEF Propose, TypeOK, PropType
<1>12. CASE AppendSucceeds
  <2>1. entries' \in Seq(Entry) /\ file' \in FileType
    BY <1>2, <1>3, <1>4, <1>12 DEF AppendSucceeds, e
  <2>2. accepted' \subseteq 1..MaxCommands
    BY <1>1, <1>2, <1>12 DEF AppendSucceeds, Command, Noop
  <2>3. commitIndex' \in Nat /\ prop' \in PropType
    BY <1>1, <1>12 DEF AppendSucceeds
  <2> QED BY <1>12, <2>1, <2>2, <2>3 DEF AppendSucceeds, TypeOK, FileType, PropType
<1>13. CASE AppendFails
  <2>1. entries' \in Seq(Entry) /\ file' \in FileType
    BY <1>2, <1>3, <1>4, <1>13 DEF AppendFails, e
  <2>2. prop' \in PropType
    BY <1>1, <1>13 DEF AppendFails
  <2> QED BY <1>13, <2>1, <2>2 DEF AppendFails, TypeOK, FileType, PropType
<1>14. CASE ReadCommit
  <2>1. apply' \in ApplyType
    BY <1>2, <1>5, <1>14 DEF ReadCommit
  <2> QED BY <1>14, <2>1 DEF ReadCommit, TypeOK, ApplyType
<1>15. CASE ApplyEntries
  <2> DEFINE new == Commands(GetRange(lastApplied + 1, apply.to))
  <2>1. new \in Seq(Command)
    <3>1. GetRange(lastApplied + 1, apply.to) \in Seq(Entry)
      <4>1. lastApplied + 1 \in Nat
        BY <1>2
      <4> QED BY <1>5, <4>1, GetRangeType
    <3> QED BY <3>1, CommandsFacts DEF Collected
  <2>2. fsm' = fsm \o new /\ apply' \in ApplyType
    BY <1>5, <1>15 DEF ApplyEntries
  <2> HIDE DEF new
  <2>3. fsm' \in Seq(Command)
    BY <1>2, <2>1, <2>2
  <2> QED BY <1>15, <2>2, <2>3 DEF ApplyEntries, TypeOK, ApplyType
<1>16. CASE ApplyDone
  <2>1. lastApplied' \in Nat /\ apply' \in ApplyType
    BY <1>5, <1>16 DEF ApplyDone
  <2> QED BY <1>16, <2>1 DEF ApplyDone, TypeOK, ApplyType
<1>17. CASE MaybeCompact
  <2>1. apply' \in ApplyType
    BY <1>1, <1>5, <1>17 DEF MaybeCompact
  <2>2. [cmds |-> fsm, upTo |-> lastApplied] \in [cmds : Seq(Command), upTo : Nat]
    BY <1>2
  <2>3. snapshot' \in [cmds : Seq(Command), upTo : Nat]
    <3>1. snapshot' = [cmds |-> fsm, upTo |-> lastApplied] \/ snapshot' = snapshot
      BY <1>17 DEF MaybeCompact
    <3> QED BY <1>2, <2>2, <3>1
  <2> QED BY <1>17, <2>1, <2>3 DEF MaybeCompact, TypeOK, ApplyType
<1>18. CASE Compact
  <2>1. apply' \in ApplyType /\ meta' \in Nat
    BY <1>1, <1>2, <1>5, <1>18 DEF Compact
  <2>2. entries' \in Seq(Entry) /\ firstIdx' \in Nat \ {0}
    <3>1. CASE entries' = CompactedEntries(apply.to) /\ firstIdx' = FirstAfter(apply.to)
               /\ firstIdx <= apply.to
      <4>1. apply.to - firstIdx + 2 \in Nat \ {0} /\ apply.to + 1 \in Nat \ {0}
        <5>1. apply.to \in Nat /\ firstIdx \in Nat /\ firstIdx <= apply.to
          BY <1>2, <1>5, <3>1
        <5> QED BY ONLY <5>1
      <4>2. SubSeq(entries, apply.to - firstIdx + 2, Len(entries)) \in Seq(Entry)
        BY <1>2, <4>1
      <4> QED BY <3>1, <4>1, <4>2 DEF CompactedEntries, FirstAfter
    <3>2. CASE UNCHANGED <<entries, firstIdx>>
      BY <1>2, <3>2
    <3> QED BY <1>18, <3>1, <3>2 DEF Compact
  <2> QED BY <1>18, <2>1, <2>2 DEF Compact, TypeOK, ApplyType
<1>19. CASE Rewrite
  <2>1. file' \in FileType
    BY <1>2, <1>3, <1>19 DEF Rewrite
  <2>2. apply' \in ApplyType
    BY <1>1, <1>19 DEF Rewrite
  <2> QED BY <1>19, <2>1, <2>2 DEF Rewrite, TypeOK, FileType, ApplyType
<1>20. CASE Crash
  <2>1. file' \in FileType
    <3>1. \/ file' = file
          \/ file' = [file EXCEPT !.torn = TRUE]
          \/ file' = [file EXCEPT !.records = Append(file.records, e)]
      BY <1>20 DEF Crash, e
    <3> QED BY <1>2, <1>3, <1>4, <3>1
  <2>2. crashes' \in 0..MaxCrashes /\ up' = "down"
    BY <1>2, <1>20 DEF Crash
  <2>3. prop' \in PropType /\ apply' \in ApplyType
    BY <1>1, <1>20 DEF Crash
  <2> QED BY <1>20, <2>1, <2>2, <2>3 DEF Crash, TypeOK, FileType, PropType, ApplyType
<1>21. CASE Restart
  <2>1. up' \in {"running", "refused"}
    BY <1>21 DEF Restart
  <2>2. entries' \in Seq(Entry) /\ firstIdx' \in Nat \ {0} /\ fsm' \in Seq(Command)
    BY <1>2, <1>3, <1>21 DEF Restart, FirstAfter
  <2>3. file' \in FileType
    BY <1>2, <1>3, <1>21 DEF Restart
  <2>4. spoiled' \subseteq Spoiling
    BY <1>2, <1>21 DEF Restart, Spoiling
  <2> QED BY <1>21, <2>1, <2>2, <2>3, <2>4 DEF Restart, TypeOK, FileType
<1>22. CASE UNCHANGED vars
  BY <1>22 DEF vars, TypeOK
<1> QED BY <1>10, <1>11, <1>12, <1>13, <1>14, <1>15, <1>16, <1>17, <1>18, <1>19,
           <1>20, <1>21, <1>22 DEF Next, ApplyStep

-----------------------------------------------------------------------------
(* Proposals keep the log sound *)

\* What the types say of the numbers and sequences that the invariant compares.
LEMMA Shapes ==
  ASSUME TypeOK
  PROVE  /\ entries \in Seq(Entry) /\ Len(entries) \in Nat
         /\ file.records \in Seq(Entry) /\ Len(file.records) \in Nat
         /\ fsm \in Seq(Command) /\ Len(fsm) \in Nat
         /\ snapshot.cmds \in Seq(Command) /\ Len(snapshot.cmds) \in Nat
         /\ firstIdx \in Nat \ {0} /\ LogEnd \in Nat
         /\ lastApplied \in Nat /\ commitIndex \in Nat /\ apply.to \in Nat
         /\ AppliedTo \in Nat /\ meta \in Nat /\ snapshot.upTo \in Nat
         /\ prop.index \in Nat /\ prop.cmd \in Command /\ issued \in Nat
         /\ \A i \in 1..Len(entries) :
              entries[i].index \in Nat /\ entries[i].cmd \in Command
         /\ \A i \in 1..Len(file.records) :
              file.records[i].index \in Nat /\ file.records[i].cmd \in Command
         /\ \A i \in 1..Len(fsm) : fsm[i] \in Command
         /\ \A i \in 1..Len(snapshot.cmds) : snapshot.cmds[i] \in Command
         /\ Command \subseteq Nat
<1>1. entries \in Seq(Entry) /\ file.records \in Seq(Entry)
  BY DEF TypeOK
<1>2. fsm \in Seq(Command) /\ snapshot.cmds \in Seq(Command)
  BY DEF TypeOK
<1>3. /\ \A i \in 1..Len(fsm) : fsm[i] \in Command
      /\ \A i \in 1..Len(snapshot.cmds) : snapshot.cmds[i] \in Command
      /\ Len(fsm) \in Nat /\ Len(snapshot.cmds) \in Nat
  BY <1>2
<1>4. /\ \A i \in 1..Len(entries) :
           entries[i].index \in Nat /\ entries[i].cmd \in Command
      /\ Len(entries) \in Nat
  BY <1>1, EntryAt
<1>5. /\ \A i \in 1..Len(file.records) :
           file.records[i].index \in Nat /\ file.records[i].cmd \in Command
      /\ Len(file.records) \in Nat
  BY <1>1, EntryAt
<1>6. /\ lastApplied \in Nat /\ commitIndex \in Nat /\ apply.to \in Nat
      /\ meta \in Nat /\ snapshot.upTo \in Nat
      /\ prop.index \in Nat /\ prop.cmd \in Command
      /\ firstIdx \in Nat \ {0}
  BY DEF TypeOK
<1>7. issued \in Nat /\ Command \subseteq Nat
  BY LogAssumption DEF TypeOK, Command
<1>8. LogEnd \in Nat
  BY <1>4, <1>6 DEF LogEnd
<1>9. AppliedTo \in Nat
  BY <1>6 DEF AppliedTo
<1> QED BY <1>1, <1>2, <1>3, <1>4, <1>5, <1>6, <1>7, <1>8, <1>9

\* A log is put in step by nothing once it is out of step.
LEMMA StaysSpoiled ==
  ASSUME [Next]_vars, spoiled' = {}
  PROVE  spoiled = {}
BY DEF Next, ApplyStep, vars, BecomeLeader, Propose, TakeIndex, AppendSucceeds,
   AppendFails, ReadCommit, ApplyEntries, ApplyDone, MaybeCompact, Compact, Rewrite,
   Crash, Restart

\* What one more entry makes of a sequence.
LEMMA AppendFacts ==
  ASSUME NEW q \in Seq(Entry), NEW e \in Entry
  PROVE  /\ Len(Append(q, e)) = Len(q) + 1
         /\ Append(q, e)[Len(q) + 1] = e
         /\ \A i \in 1..Len(q) : Append(q, e)[i] = q[i]
         /\ Append(q, e) # <<>>
OBVIOUS

\* A proposal takes its index while the log is in step.
LEMMA SoundTakeIndex ==
  ASSUME TypeOK, Running, Sound, NEW cmd \in Command, TakeIndex(cmd), spoiled' = {},
         (cmd = Noop /\ issued' = issued) \/ (cmd = issued + 1 /\ issued' = cmd),
         UNCHANGED <<up, entries, firstIdx, file, meta, snapshot, fsm,
                     commitIndex, lastApplied, apply, accepted>>
  PROVE  Sound'
<1> USE Shapes
<1>1. prop' = [phase |-> "append", index |-> LastIndex + 1, cmd |-> cmd]
  BY DEF TakeIndex
<1>2. prop'.phase = "append" /\ prop'.index = LastIndex + 1 /\ prop'.cmd = cmd
  BY <1>1
<1>3. LastIndex = LogEnd
  <2>1. entries = <<>> => firstIdx = 1
    <3>1. ~ (entries = <<>> /\ firstIdx > 1)
      BY DEF TakeIndex
    <3>2. firstIdx \in Nat \ {0}
      OBVIOUS
    <3> QED BY <3>1, <3>2
  <2> QED BY <2>1 DEF LastIndex, LogEnd
<1>4. Consecutive(entries, firstIdx)' /\ FileFollows'
  BY DEF Sound, Consecutive, FileFollows, LogEnd
<1>5. IndexTaken'
  BY <1>2, <1>3 DEF IndexTaken, LogEnd
<1>6. IndexesOrdered' /\ RestIsLater' /\ NothingLost'
  BY DEF Sound, IndexesOrdered, RestIsLater, NothingLost, AppliedTo, LogEnd, InMemory,
     InFile, InSnapshot, InFsm
<1>7. CommandsOrdered'
  <2>1. ASSUME NEW c \in Command, Earlier(c) PROVE Earlier(c)'
    BY <1>2, <2>1 DEF Earlier
  <2>2. prop'.cmd \in {Noop, issued'}
    BY <1>2
  <2> QED BY <2>1, <2>2 DEF Sound, CommandsOrdered, InOrder
<1> QED BY <1>4, <1>5, <1>6, <1>7 DEF Sound

\* The proposal ends without an entry.
LEMMA SoundGiveUp ==
  ASSUME TypeOK, Running, Sound, prop' = NoProposal, file'.records = file.records,
         UNCHANGED <<up, entries, firstIdx, meta, snapshot, fsm,
                     commitIndex, lastApplied, apply, issued, accepted>>
  PROVE  Sound'
<1> USE Shapes
<1>1. prop'.phase = "idle"
  BY DEF NoProposal
<1>4. Consecutive(entries, firstIdx)' /\ FileFollows'
  BY DEF Sound, Consecutive, FileFollows, LogEnd
<1>5. IndexTaken'
  BY <1>1 DEF IndexTaken
<1>6. IndexesOrdered' /\ RestIsLater' /\ NothingLost'
  BY DEF Sound, IndexesOrdered, RestIsLater, NothingLost, AppliedTo, LogEnd, InMemory,
     InFile, InSnapshot, InFsm
<1>7. CommandsOrdered'
  <2>1. ASSUME NEW c \in Command, Earlier(c) PROVE Earlier(c)'
    BY <1>1, <2>1 DEF Earlier
  <2> QED BY <1>1, <2>1 DEF Sound, CommandsOrdered, InOrder
<1> QED BY <1>4, <1>5, <1>6, <1>7 DEF Sound

\* The proposal ends with its entry in raft.log, and in memory unless the
\* process died: the file stays consecutive and in order.
LEMMA FileAppend ==
  ASSUME TypeOK, Running, Sound, prop.phase = "append",
         NEW e, e = [index |-> prop.index, cmd |-> prop.cmd],
         file'.records = Append(file.records, e), prop' = NoProposal,
         UNCHANGED <<snapshot, fsm, issued>>
  PROVE  /\ Consecutive(file.records, file.records[1].index)'
         /\ CommandsOrdered'
         /\ \A i \in 1..Len(file'.records), k \in 1..Len(snapshot.cmds) :
              file'.records[i].index > snapshot.upTo /\ file'.records[i].cmd # Noop
                => snapshot.cmds[k] < file'.records[i].cmd
<1>a. PICK R : R = file.records
  OBVIOUS
<1>b. PICK N : N = Append(R, e)
  OBVIOUS
<1>c. /\ R \in Seq(Entry) /\ Len(R) \in Nat /\ LogEnd \in Nat
      /\ \A i \in 1..Len(R) : R[i].index \in Nat /\ R[i].cmd \in Command
      /\ \A i \in 1..Len(fsm) : fsm[i] \in Command
      /\ \A i \in 1..Len(snapshot.cmds) : snapshot.cmds[i] \in Command
      /\ issued \in Nat
  BY <1>a, Shapes
<1>1. e \in Entry /\ e.index = prop.index /\ e.cmd = prop.cmd /\ e.cmd \in Command
  BY PropFacts
<1>2. /\ Len(N) = Len(R) + 1 /\ N[Len(R) + 1] = e
      /\ \A i \in 1..Len(R) : N[i] = R[i]
  BY <1>b, <1>c, <1>1, AppendFacts
<1>3. up = "running" /\ e.index = LogEnd + 1
  BY <1>1 DEF Running, Sound, IndexTaken
<1>4. R # <<>> => R[Len(R)].index = LogEnd /\ Consecutive(R, R[1].index)
  BY <1>a, <1>3 DEF Sound, FileFollows
<1>5. /\ prop.cmd \in {Noop, issued}
      /\ \A i \in 1..Len(R) : Earlier(R[i].cmd)
      /\ \A i \in 1..Len(fsm) : Earlier(fsm[i])
      /\ \A i \in 1..Len(snapshot.cmds) : Earlier(snapshot.cmds[i])
      /\ \A i, j \in 1..Len(R) : i < j /\ R[i].cmd # Noop /\ R[j].cmd # Noop
           => R[i].cmd < R[j].cmd
      /\ InOrder(fsm) /\ InOrder(snapshot.cmds)
  BY <1>a DEF Sound, CommandsOrdered
<1>6. /\ prop'.phase = "idle"
      /\ \A c \in Command : Earlier(c) => Earlier(c)'
      /\ Earlier(e.cmd)'
  <2>1. prop'.phase = "idle"
    BY DEF NoProposal
  <2>2. e.cmd <= issued
    BY <1>c, <1>1, <1>5 DEF Noop
  <2> QED BY <2>1, <2>2 DEF Earlier
<1>7. \A c \in Command : Earlier(c) /\ e.cmd # Noop => c < e.cmd
  BY <1>1 DEF Earlier
<1>8. file'.records = N
  BY <1>a, <1>b
<1>9. Consecutive(N, N[1].index)
  <2> SUFFICES ASSUME NEW i \in 1..Len(N) PROVE N[i].index = N[1].index + i - 1
    BY DEF Consecutive
  <2>1. CASE R = <<>>
    <3>1. Len(R) = 0
      BY <2>1
    <3>2. i = 1 /\ N[1] = e
      BY <1>2, <3>1
    <3>3. e.index \in Nat
      BY <1>1, PropFacts
    <3> QED BY <3>2, <3>3
  <2>2. CASE R # <<>>
    <3>1. Len(R) >= 1 /\ Len(R) \in Nat
      BY <1>c, <2>2
    <3>2. N[1] = R[1] /\ R[1].index \in Nat
      BY <1>c, <1>2, <3>1
    <3>3. CASE i = Len(R) + 1
      <4>1. R[Len(R)].index = R[1].index + Len(R) - 1
        BY <1>4, <2>2, <3>1 DEF Consecutive
      <4>2. N[i].index = LogEnd + 1 /\ R[Len(R)].index = LogEnd
        BY <1>2, <1>3, <1>4, <2>2, <3>3
      <4>3. /\ Len(R) \in Nat /\ LogEnd \in Nat /\ R[1].index \in Nat
            /\ N[1].index = R[1].index
        BY <1>c, <3>1, <3>2
      <4> QED BY ONLY <3>3, <4>1, <4>2, <4>3
    <3>4. CASE i # Len(R) + 1
      <4>1. i \in 1..Len(R)
        BY <1>2, <3>1, <3>4
      <4> QED BY <1>2, <1>4, <2>2, <3>2, <4>1 DEF Consecutive
    <3> QED BY <3>3, <3>4
  <2> QED BY <2>1, <2>2
<1>10. \A i \in 1..Len(N) : Earlier(N[i].cmd)'
  <2> SUFFICES ASSUME NEW i \in 1..Len(N) PROVE Earlier(N[i].cmd)'
    BY <1>8
  <2>1. CASE i = Len(R) + 1
    <3>1. N[i].cmd = e.cmd
      BY <1>2, <2>1
    <3> QED BY <1>6, <3>1
  <2>2. CASE i # Len(R) + 1
    <3>1. i \in 1..Len(R)
      BY <1>c, <1>2, <2>2
    <3>2. N[i].cmd = R[i].cmd /\ R[i].cmd \in Command /\ Earlier(R[i].cmd)
      BY <1>c, <1>2, <1>5, <3>1
    <3>3. PICK c \in Command : c = R[i].cmd
      BY <3>2
    <3> QED BY <1>6, <3>2, <3>3
  <2> QED BY <2>1, <2>2
<1>11. \A i, j \in 1..Len(N) : i < j /\ N[i].cmd # Noop /\ N[j].cmd # Noop
         => N[i].cmd < N[j].cmd
  <2> SUFFICES ASSUME NEW i \in 1..Len(N), NEW j \in 1..Len(N), i < j,
                      N[i].cmd # Noop, N[j].cmd # Noop
               PROVE  N[i].cmd < N[j].cmd
    OBVIOUS
  <2>1. i \in 1..Len(R) /\ N[i] = R[i]
    BY <1>c, <1>2
  <2>2. CASE j = Len(R) + 1
    BY <1>c, <1>2, <1>5, <1>7, <2>1, <2>2
  <2>3. CASE j # Len(R) + 1
    <3>1. j \in 1..Len(R) /\ N[j] = R[j]
      BY <1>c, <1>2, <2>3
    <3> QED BY <1>5, <2>1, <3>1
  <2> QED BY <2>2, <2>3
<1>12. ASSUME NEW i \in 1..Len(N), NEW k \in 1..Len(snapshot.cmds),
              N[i].index > snapshot.upTo, N[i].cmd # Noop
       PROVE  snapshot.cmds[k] < N[i].cmd
  <2>1. CASE i = Len(R) + 1
    BY <1>c, <1>2, <1>5, <1>7, <1>12, <2>1
  <2>2. CASE i # Len(R) + 1
    <3>1. i \in 1..Len(R) /\ N[i] = R[i]
      BY <1>c, <1>2, <2>2
    <3> QED BY <1>a, <1>12, <3>1 DEF Sound, RestIsLater
  <2> QED BY <2>1, <2>2
<1>13. CommandsOrdered'
  <2>1. /\ \A i \in 1..Len(fsm) : Earlier(fsm[i])'
        /\ \A i \in 1..Len(snapshot.cmds) : Earlier(snapshot.cmds[i])'
    BY <1>c, <1>5, <1>6
  <2>2. InOrder(fsm)' /\ InOrder(snapshot.cmds)'
    BY <1>5 DEF InOrder
  <2> QED BY <1>6, <1>8, <1>10, <1>11, <2>1, <2>2 DEF CommandsOrdered
<1> QED BY <1>8, <1>9, <1>12, <1>13 DEF Consecutive

\* The proposal ends with its entry in the log, accepted or not.
LEMMA SoundAppend ==
  ASSUME TypeOK, Running, Sound, prop.phase = "append",
         NEW e, e = [index |-> prop.index, cmd |-> prop.cmd],
         entries' = Append(entries, e), file'.records = Append(file.records, e),
         prop' = NoProposal, commitIndex' \in {commitIndex, prop.index},
         accepted' \subseteq accepted \cup ({prop.cmd} \ {Noop}),
         UNCHANGED <<up, firstIdx, meta, snapshot, fsm, lastApplied, apply, issued>>
  PROVE  Sound'
<1>a. PICK R : R = file.records
  OBVIOUS
<1>b. PICK N : N = Append(R, e)
  OBVIOUS
<1>c. PICK E : E = entries
  OBVIOUS
<1>d. PICK M : M = Append(E, e)
  OBVIOUS
<1>1. /\ R \in Seq(Entry) /\ Len(R) \in Nat
      /\ E \in Seq(Entry) /\ Len(E) \in Nat
      /\ firstIdx \in Nat \ {0} /\ LogEnd \in Nat
      /\ lastApplied \in Nat /\ commitIndex \in Nat /\ apply.to \in Nat
      /\ AppliedTo \in Nat
  BY <1>a, <1>c, Shapes
<1>2. e \in Entry /\ e.index = prop.index /\ e.cmd = prop.cmd /\ e.index \in Nat
  BY PropFacts
<1>3. /\ Len(N) = Len(R) + 1 /\ N[Len(R) + 1] = e /\ N # <<>>
      /\ \A i \in 1..Len(R) : N[i] = R[i]
  BY <1>b, <1>1, <1>2, AppendFacts
<1>4. /\ Len(M) = Len(E) + 1 /\ M[Len(E) + 1] = e /\ M # <<>>
      /\ \A i \in 1..Len(E) : M[i] = E[i]
  BY <1>d, <1>1, <1>2, AppendFacts
<1>5. file'.records = N /\ entries' = M
  BY <1>a, <1>b, <1>c, <1>d
<1>6. /\ up = "running" /\ e.index = LogEnd + 1
      /\ LogEnd = firstIdx + Len(E) - 1
      /\ LogEnd' = LogEnd + 1
  <2>1. up = "running" /\ e.index = LogEnd + 1
    BY <1>2 DEF Running, Sound, IndexTaken
  <2>2. LogEnd = firstIdx + Len(E) - 1 /\ LogEnd' = firstIdx + Len(M) - 1
    BY <1>c, <1>5 DEF LogEnd
  <2> QED BY <1>1, <1>4, <2>1, <2>2
<1>7. /\ Consecutive(E, firstIdx)
      /\ Len(E) <= Len(R)
      /\ \A i \in 1..Len(E) : E[i] = R[Len(R) - Len(E) + i]
  BY <1>a, <1>c, <1>6 DEF Sound, FileFollows
<1>8. Consecutive(entries, firstIdx)'
  <2>1. ASSUME NEW i \in 1..Len(M) PROVE M[i].index = firstIdx + i - 1
    <3>1. CASE i = Len(E) + 1
      BY <1>1, <1>4, <1>6, <3>1
    <3>2. CASE i # Len(E) + 1
      <4>1. i \in 1..Len(E) /\ M[i] = E[i]
        BY <1>1, <1>4, <3>2
      <4> QED BY <1>7, <4>1 DEF Consecutive
    <3> QED BY <3>1, <3>2
  <2> QED BY <1>5, <2>1 DEF Consecutive
<1>9. /\ Consecutive(file.records, file.records[1].index)'
      /\ CommandsOrdered'
      /\ \A i \in 1..Len(file'.records), k \in 1..Len(snapshot.cmds) :
           file'.records[i].index > snapshot.upTo /\ file'.records[i].cmd # Noop
             => snapshot.cmds[k] < file'.records[i].cmd
  BY FileAppend
<1>10. FileFollows'
  <2>1. N[Len(N)].index = LogEnd'
    BY <1>3, <1>6
  <2>2. Len(M) <= Len(N)
    BY <1>1, <1>3, <1>4, <1>7
  <2>3. ASSUME NEW i \in 1..Len(M) PROVE M[i] = N[Len(N) - Len(M) + i]
    <3>1. Len(N) - Len(M) = Len(R) - Len(E)
      BY <1>1, <1>3, <1>4
    <3>2. CASE i = Len(E) + 1
      <4>1. Len(R) - Len(E) + i = Len(R) + 1
        BY <1>1, <3>2
      <4> QED BY <1>3, <1>4, <3>1, <3>2, <4>1
    <3>3. CASE i # Len(E) + 1
      <4>1. i \in 1..Len(E) /\ Len(R) - Len(E) + i \in 1..Len(R)
        BY <1>1, <1>4, <1>7, <3>3
      <4> QED BY <1>3, <1>4, <1>7, <3>1, <4>1
    <3> QED BY <3>2, <3>3
  <2> QED BY <1>5, <1>9, <2>1, <2>2, <2>3 DEF FileFollows
<1>11. IndexTaken'
  BY DEF IndexTaken, NoProposal
<1>12. IndexesOrdered'
  <2>1. /\ lastApplied <= commitIndex /\ commitIndex <= LogEnd /\ apply.to <= commitIndex
        /\ apply.phase \in {"apply", "applied"} => lastApplied <= apply.to
        /\ apply.phase \in {"check", "saved"} => apply.to = lastApplied
    BY <1>6 DEF Sound, IndexesOrdered
  <2>2. commitIndex' \in {commitIndex, LogEnd + 1}
    BY <1>2, <1>6
  <2>3. commitIndex <= commitIndex' /\ commitIndex' <= LogEnd' /\ commitIndex' \in Nat
    BY <1>1, <1>6, <2>1, <2>2
  <2>4. lastApplied <= commitIndex' /\ apply.to <= commitIndex'
    BY <1>1, <2>1, <2>3
  <2> QED BY <2>1, <2>3, <2>4 DEF IndexesOrdered
<1>13. AppliedTo' = AppliedTo /\ AppliedTo <= LogEnd
  <2>1. lastApplied <= LogEnd /\ apply.to <= LogEnd
    BY <1>1, <1>6 DEF Sound, IndexesOrdered
  <2> QED BY <2>1 DEF AppliedTo
<1>14. RestIsLater'
  <2>1. ASSUME NEW i \in 1..Len(N), NEW k \in 1..Len(fsm),
               N[i].index > AppliedTo, N[i].cmd # Noop
        PROVE  fsm[k] < N[i].cmd
    <3>1. CASE i = Len(R) + 1
      <4>1. Earlier(fsm[k])
        BY DEF Sound, CommandsOrdered
      <4> QED BY <1>2, <1>3, <2>1, <3>1, <4>1 DEF Earlier
    <3>2. CASE i # Len(R) + 1
      <4>1. i \in 1..Len(R) /\ N[i] = R[i]
        BY <1>1, <1>3, <3>2
      <4> QED BY <1>a, <1>6, <2>1, <4>1 DEF Sound, RestIsLater
    <3> QED BY <3>1, <3>2
  <2> QED BY <1>5, <1>9, <1>13, <2>1 DEF RestIsLater
<1>15. NothingLost'
  <2>1. ASSUME NEW c, InFile(c) PROVE InFile(c)'
    <3>1. PICK i \in 1..Len(R) : R[i].cmd = c
      BY <1>a, <2>1 DEF InFile
    <3>2. i \in 1..Len(N) /\ N[i].cmd = c
      BY <1>1, <1>3, <3>1
    <3> QED BY <1>5, <3>2 DEF InFile
  <2>2. ASSUME NEW c, InMemory(c) PROVE InMemory(c)'
    <3>1. PICK i \in 1..Len(E) : E[i].cmd = c
      BY <1>c, <2>2 DEF InMemory
    <3>2. i \in 1..Len(M) /\ M[i].cmd = c
      BY <1>1, <1>4, <3>1
    <3> QED BY <1>5, <3>2 DEF InMemory
  <2>3. InFile(e.cmd)' /\ InMemory(e.cmd)'
    <3>1. /\ Len(R) + 1 \in 1..Len(N) /\ N[Len(R) + 1].cmd = e.cmd
          /\ Len(E) + 1 \in 1..Len(M) /\ M[Len(E) + 1].cmd = e.cmd
      BY <1>1, <1>3, <1>4
    <3> QED BY <1>5, <3>1 DEF InFile, InMemory
  <2>4. \A c : InSnapshot(c)' = InSnapshot(c) /\ InFsm(c)' = InFsm(c)
    BY DEF InSnapshot, InFsm
  <2>5. ASSUME NEW c \in accepted'
        PROVE  (InSnapshot(c) \/ InFile(c))' /\ (InSnapshot(c) \/ InMemory(c))'
    <3>1. CASE c \in accepted
      <4>1. (InSnapshot(c) \/ InFile(c)) /\ (InSnapshot(c) \/ InMemory(c))
        BY <1>6, <3>1 DEF Sound, NothingLost
      <4> QED BY <2>1, <2>2, <2>4, <4>1
    <3>2. CASE c = e.cmd
      BY <2>3, <3>2
    <3> QED BY <1>2, <3>1, <3>2
  <2>6. ASSUME NEW i \in 1..Len(M), M[i].index <= LogEnd
        PROVE  i \in 1..Len(E) /\ M[i] = E[i]
    BY <1>1, <1>4, <1>6, <2>6
  <2>7. ASSUME NEW i \in 1..Len(M), M[i].index <= AppliedTo, M[i].cmd # Noop
        PROVE  InFsm(M[i].cmd)
    <3>1. M[i].index \in Nat
      <4>1. M[i].index = firstIdx + i - 1
        BY <1>5, <1>8 DEF Consecutive
      <4> QED BY <1>1, <1>4, <4>1
    <3>2. i \in 1..Len(E) /\ M[i] = E[i]
      <4>1. M[i].index <= LogEnd
        BY <1>1, <1>13, <2>7, <3>1
      <4> QED BY <2>6, <4>1
    <3> QED BY <1>c, <1>6, <2>7, <3>2 DEF Sound, NothingLost
  <2>8. ASSUME apply.phase = "saved", NEW i \in 1..Len(M), M[i].index <= apply.to,
               M[i].cmd # Noop
        PROVE  InSnapshot(M[i].cmd)
    <3>1. M[i].index \in Nat
      <4>1. M[i].index = firstIdx + i - 1
        BY <1>5, <1>8 DEF Consecutive
      <4> QED BY <1>1, <1>4, <4>1
    <3>2. apply.to <= LogEnd
      BY <1>1, <1>6 DEF Sound, IndexesOrdered
    <3>3. i \in 1..Len(E) /\ M[i] = E[i]
      BY <1>1, <2>6, <2>8, <3>1, <3>2
    <3> QED BY <1>c, <1>6, <2>8, <3>3 DEF Sound, NothingLost
  <2>9. \A c \in Command : InSnapshot(c) => InFsm(c)
    BY <1>6 DEF Sound, NothingLost
  <2> QED BY <1>5, <1>13, <2>4, <2>5, <2>7, <2>8, <2>9 DEF NothingLost
<1> QED BY <1>8, <1>9, <1>10, <1>11, <1>12, <1>14, <1>15 DEF Sound

-----------------------------------------------------------------------------
(* The apply goroutine keeps the log sound *)

\* What only moves the apply goroutine on, to a phase that promises no more
\* than the invariant knows.
LEMMA SoundMove ==
  ASSUME TypeOK, Running, Sound, up = "running",
         lastApplied' \in Nat, apply'.to \in Nat,
         AppliedTo' = AppliedTo,
         lastApplied' <= commitIndex, apply'.to <= commitIndex,
         apply'.phase \in {"apply", "applied"} => lastApplied' <= apply'.to,
         apply'.phase \in {"check", "saved"} => apply'.to = lastApplied',
         apply'.phase # "saved", file'.records = file.records,
         UNCHANGED <<up, entries, firstIdx, snapshot, fsm, commitIndex, prop,
                     issued, accepted>>
  PROVE  Sound'
<1>1. Consecutive(entries, firstIdx)' /\ FileFollows' /\ IndexTaken'
  BY DEF Sound, Consecutive, FileFollows, IndexTaken, LogEnd
<1>2. IndexesOrdered'
  BY DEF Sound, IndexesOrdered, LogEnd
<1>3. CommandsOrdered'
  BY DEF Sound, CommandsOrdered, Earlier, InOrder
<1>4. RestIsLater'
  BY DEF Sound, RestIsLater
<1>5. NothingLost'
  BY DEF Sound, NothingLost, InMemory, InFile, InSnapshot, InFsm
<1> QED BY <1>1, <1>2, <1>3, <1>4, <1>5 DEF Sound

\* The apply goroutine reads the indexes, and writes lastApplied.
LEMMA SoundRead ==
  ASSUME TypeOK, Running, Sound, ReadCommit \/ ApplyDone
  PROVE  Sound'
<1>1. /\ lastApplied \in Nat /\ commitIndex \in Nat /\ apply.to \in Nat
  BY Shapes
<1>2. CASE ReadCommit
  <2>1. /\ apply'.phase = "apply" /\ apply'.to = commitIndex
        /\ apply.phase = "idle" /\ up = "running" /\ lastApplied < commitIndex
        /\ UNCHANGED <<up, entries, firstIdx, file, meta, snapshot, fsm, commitIndex,
                       lastApplied, prop, issued, accepted>>
    BY <1>2 DEF ReadCommit, Unapplied
  <2>2. AppliedTo' = AppliedTo
    BY <2>1 DEF AppliedTo
  <2>3. lastApplied <= commitIndex
    BY <1>1, <2>1
  <2> QED BY <1>1, <2>1, <2>2, <2>3, SoundMove
<1>3. CASE ApplyDone
  <2>1. /\ apply'.phase = "check" /\ apply'.to = apply.to /\ lastApplied' = apply.to
        /\ apply.phase = "applied"
        /\ UNCHANGED <<up, entries, firstIdx, file, meta, snapshot, fsm, commitIndex,
                       prop, issued, accepted>>
    BY <1>3 DEF ApplyDone, TypeOK
  <2>2. up = "running"
    BY <2>1 DEF Running
  <2>3. AppliedTo' = AppliedTo
    BY <2>1 DEF AppliedTo
  <2>4. apply.to <= commitIndex
    BY <2>2 DEF Sound, IndexesOrdered
  <2> QED BY <1>1, <2>1, <2>2, <2>3, <2>4, SoundMove
<1> QED BY <1>2, <1>3

\* What a run of a sequence holds.
LEMMA SubSeqFacts ==
  ASSUME NEW q \in Seq(Entry), NEW m \in Nat \ {0}, NEW n \in Int, n <= Len(q)
  PROVE  /\ SubSeq(q, m, n) \in Seq(Entry)
         /\ Len(SubSeq(q, m, n)) = IF m <= n THEN n - m + 1 ELSE 0
         /\ \A k \in 1..Len(SubSeq(q, m, n)) : SubSeq(q, m, n)[k] = q[m + k - 1]
<1>1. CASE m <= n
  <2>1. n - m + 1 \in Nat /\ n \in Nat
    BY <1>1
  <2>2. SubSeq(q, m, n) \in Seq(Entry) /\ Len(SubSeq(q, m, n)) = n - m + 1
    BY <1>1, <2>1
  <2>3. ASSUME NEW k \in 1..(n - m + 1) PROVE SubSeq(q, m, n)[k] = q[m + k - 1]
    BY <1>1, <2>1
  <2> QED BY <1>1, <2>2, <2>3
<1>2. CASE m > n
  <2>1. SubSeq(q, m, n) = <<>>
    BY <1>2
  <2> QED BY <1>2, <2>1
<1> QED BY <1>1, <1>2

\* es holds the entries from start to end, in their order.
RunOf(es, start, end) ==
  /\ es \in Seq(Entry)
  /\ \A k \in 1..Len(es) : \E i \in 1..Len(entries) :
       es[k] = entries[i] /\ start <= entries[i].index /\ entries[i].index <= end
  /\ \A i \in 1..Len(entries) :
       start <= entries[i].index /\ entries[i].index <= end
         => \E k \in 1..Len(es) : es[k] = entries[i]
  /\ \A k, l \in 1..Len(es) : k < l =>
       \E i, j \in 1..Len(entries) :
         i < j /\ es[k] = entries[i] /\ es[l] = entries[j]

\* GetRange finds the entries by their index.
LEMMA GetRangeFacts ==
  ASSUME TypeOK, Consecutive(entries, firstIdx), NEW start \in Nat, NEW end \in Nat
  PROVE  RunOf(GetRange(start, end), start, end)
<1>0. PICK es : es = GetRange(start, end)
  OBVIOUS
<1> DEFINE from == IF start < firstIdx THEN 1 ELSE start - firstIdx + 1
           to == IF end - firstIdx >= Len(entries) THEN Len(entries)
                                                  ELSE end - firstIdx + 1
<1>1. entries \in Seq(Entry) /\ Len(entries) \in Nat /\ firstIdx \in Nat \ {0}
  BY Shapes
<1>2. /\ from \in Nat \ {0} /\ to \in Int /\ to <= Len(entries)
      /\ from = 1 \/ from = start - firstIdx + 1
      /\ start <= firstIdx + from - 1
      /\ to = Len(entries) \/ to = end - firstIdx + 1
      /\ firstIdx + to - 1 <= end
  BY <1>1
<1>3. \A i \in 1..Len(entries) : entries[i].index = firstIdx + i - 1
  BY DEF Consecutive
<1>4. es = SubSeq(entries, from, to)
  BY <1>0 DEF GetRange
<1> HIDE DEF from, to
<1>5. /\ es \in Seq(Entry)
      /\ Len(es) = IF from <= to THEN to - from + 1 ELSE 0
      /\ \A k \in 1..Len(es) : es[k] = entries[from + k - 1]
  <2>1. /\ SubSeq(entries, from, to) \in Seq(Entry)
        /\ Len(SubSeq(entries, from, to)) = IF from <= to THEN to - from + 1 ELSE 0
        /\ \A k \in 1..Len(SubSeq(entries, from, to)) :
             SubSeq(entries, from, to)[k] = entries[from + k - 1]
    BY <1>1, <1>2, SubSeqFacts
  <2> QED BY <1>4, <2>1
<1>6. ASSUME NEW k \in 1..Len(es)
      PROVE  /\ from + k - 1 \in 1..Len(entries)
             /\ es[k] = entries[from + k - 1]
             /\ start <= entries[from + k - 1].index
             /\ entries[from + k - 1].index <= end
  <2>1. from + k - 1 \in 1..Len(entries) /\ from + k - 1 <= to
    BY <1>1, <1>2, <1>5
  <2>2. entries[from + k - 1].index = firstIdx + (from + k - 1) - 1
    BY <1>3, <2>1
  <2>3. /\ start <= firstIdx + (from + k - 1) - 1
        /\ firstIdx + (from + k - 1) - 1 <= end
    <3>1. /\ firstIdx \in Nat /\ from \in Nat /\ to \in Int /\ k \in Nat /\ k >= 1
          /\ start <= firstIdx + from - 1 /\ firstIdx + to - 1 <= end
          /\ from + k - 1 <= to /\ start \in Nat /\ end \in Nat
      BY <1>1, <1>2, <1>5, <2>1
    <3> QED BY ONLY <3>1
  <2> QED BY <1>5, <2>1, <2>2, <2>3
<1>7. ASSUME NEW i \in 1..Len(entries), start <= entries[i].index,
             entries[i].index <= end
      PROVE  \E k \in 1..Len(es) : es[k] = entries[i]
  <2>0. /\ start <= firstIdx + i - 1 /\ firstIdx + i - 1 <= end
        /\ i \in Nat /\ 1 <= i /\ i <= Len(entries)
    BY <1>1, <1>3, <1>7
  <2>1. from <= i /\ i <= to
    <3>1. /\ firstIdx \in Nat /\ Len(entries) \in Nat /\ start \in Nat /\ end \in Nat
          /\ from \in Nat /\ to \in Int
          /\ from = 1 \/ from = start - firstIdx + 1
          /\ to = Len(entries) \/ to = end - firstIdx + 1
      BY <1>1, <1>2
    <3> QED BY ONLY <2>0, <3>1
  <2>2. i - from + 1 \in 1..Len(es) /\ from + (i - from + 1) - 1 = i
    BY <1>1, <1>2, <1>5, <2>1
  <2> QED BY <1>5, <2>2
<1>8. ASSUME NEW k \in 1..Len(es), NEW l \in 1..Len(es), k < l
      PROVE  \E i, j \in 1..Len(entries) :
               i < j /\ es[k] = entries[i] /\ es[l] = entries[j]
  <2>1. from + k - 1 < from + l - 1
    BY <1>2, <1>8
  <2> QED BY <1>6, <2>1
<1>9. RunOf(es, start, end)
  <2>1. ASSUME NEW k \in 1..Len(es)
        PROVE  \E i \in 1..Len(entries) :
                 es[k] = entries[i] /\ start <= entries[i].index /\ entries[i].index <= end
    BY <1>6
  <2> QED BY <1>5, <1>7, <1>8, <2>1 DEF RunOf
<1> QED BY <1>0, <1>9

\* What the entries between lastApplied and apply.to are applied as: commands of
\* raft.log, in their order, all of them.
LEMMA NewCommands ==
  ASSUME TypeOK, Sound, up = "running",
         NEW new, new = Commands(GetRange(lastApplied + 1, apply.to))
  PROVE  /\ new \in Seq(Command)
         /\ InOrder(new)
         /\ \A k \in 1..Len(new) : \E j \in 1..Len(file.records) :
              /\ file.records[j].cmd = new[k] /\ new[k] # Noop
              /\ lastApplied < file.records[j].index
              /\ file.records[j].index <= apply.to
         /\ \A i \in 1..Len(entries) :
              entries[i].index > lastApplied /\ entries[i].index <= apply.to
                /\ entries[i].cmd # Noop
                => \E k \in 1..Len(new) : new[k] = entries[i].cmd
<1>1. /\ lastApplied \in Nat /\ apply.to \in Nat
      /\ Len(entries) \in Nat /\ Len(file.records) \in Nat
      /\ \A i \in 1..Len(entries) :
              entries[i].index \in Nat /\ entries[i].cmd \in Command
  BY Shapes
<1>2. PICK es : es = GetRange(lastApplied + 1, apply.to)
  OBVIOUS
<1>3. Consecutive(entries, firstIdx)
  BY DEF Sound
<1>4. /\ es \in Seq(Entry)
      /\ \A k \in 1..Len(es) : \E i \in 1..Len(entries) :
           /\ es[k] = entries[i]
           /\ lastApplied + 1 <= entries[i].index /\ entries[i].index <= apply.to
      /\ \A i \in 1..Len(entries) :
           lastApplied + 1 <= entries[i].index /\ entries[i].index <= apply.to
             => \E k \in 1..Len(es) : es[k] = entries[i]
      /\ \A k, l \in 1..Len(es) : k < l =>
           \E i, j \in 1..Len(entries) :
             i < j /\ es[k] = entries[i] /\ es[l] = entries[j]
  <2>1. lastApplied + 1 \in Nat /\ apply.to \in Nat
    BY <1>1
  <2>2. RunOf(GetRange(lastApplied + 1, apply.to), lastApplied + 1, apply.to)
    BY <1>3, <2>1, GetRangeFacts
  <2> QED BY <1>2, <2>2 DEF RunOf
<1>5. /\ Collected(es, new, Len(es))
      /\ Ordered(es) => InOrder(new)
  BY <1>2, <1>4, CommandsFacts
<1>6. ASSUME NEW i \in 1..Len(entries)
      PROVE  /\ Len(file.records) - Len(entries) + i \in 1..Len(file.records)
             /\ entries[i] = file.records[Len(file.records) - Len(entries) + i]
  <2>1. /\ Len(entries) <= Len(file.records)
        /\ entries[i] = file.records[Len(file.records) - Len(entries) + i]
    BY DEF Sound, FileFollows
  <2> QED BY <1>1, <2>1
<1>7. Ordered(es)
  <2> SUFFICES ASSUME NEW k \in 1..Len(es), NEW l \in 1..Len(es), k < l,
                      es[k].cmd # Noop, es[l].cmd # Noop
               PROVE  es[k].cmd < es[l].cmd
    BY DEF Ordered
  <2>1. PICK i \in 1..Len(entries), j \in 1..Len(entries) :
          i < j /\ es[k] = entries[i] /\ es[l] = entries[j]
    BY <1>4
  <2> DEFINE d == Len(file.records) - Len(entries)
  <2>2. d + i < d + j
    BY <1>1, <2>1
  <2>3. /\ d + i \in 1..Len(file.records) /\ entries[i] = file.records[d + i]
        /\ d + j \in 1..Len(file.records) /\ entries[j] = file.records[d + j]
    BY <1>6
  <2> HIDE DEF d
  <2>4. file.records[d + i].cmd < file.records[d + j].cmd
    BY <2>1, <2>2, <2>3 DEF Sound, CommandsOrdered
  <2> QED BY <2>1, <2>3, <2>4
<1>8. ASSUME NEW k \in 1..Len(new)
      PROVE  \E j \in 1..Len(file.records) :
               /\ file.records[j].cmd = new[k] /\ new[k] # Noop
               /\ lastApplied < file.records[j].index
               /\ file.records[j].index <= apply.to
  <2>1. PICK i \in 1..Len(es) : es[i].cmd # Noop /\ new[k] = es[i].cmd
    BY <1>5 DEF Collected
  <2>2. PICK j \in 1..Len(entries) :
          /\ es[i] = entries[j]
          /\ lastApplied + 1 <= entries[j].index /\ entries[j].index <= apply.to
    BY <1>4
  <2>3. lastApplied < entries[j].index
    BY <1>1, <2>2
  <2> QED BY <1>6, <2>1, <2>2, <2>3
<1>9. ASSUME NEW i \in 1..Len(entries), entries[i].index > lastApplied,
             entries[i].index <= apply.to, entries[i].cmd # Noop
      PROVE  \E k \in 1..Len(new) : new[k] = entries[i].cmd
  <2>1. lastApplied + 1 <= entries[i].index
    BY <1>1, <1>9
  <2>2. PICK k \in 1..Len(es) : es[k] = entries[i]
    BY <1>4, <1>9, <2>1
  <2> QED BY <1>5, <1>9, <2>2 DEF Collected
<1> QED BY <1>5, <1>7, <1>8, <1>9 DEF Collected

\* The entries are applied: the state machine takes them once and in order.
LEMMA SoundApply ==
  ASSUME TypeOK, Running, Sound, ApplyEntries
  PROVE  Sound'
<1>a. PICK new : new = Commands(GetRange(lastApplied + 1, apply.to))
  OBVIOUS
<1>b. PICK R : R = file.records
  OBVIOUS
<1>c. PICK old : old = fsm
  OBVIOUS
<1>d. PICK F : F = old \o new
  OBVIOUS
<1>1. /\ apply.phase = "apply" /\ apply'.phase = "applied" /\ apply'.to = apply.to
      /\ fsm' = F
      /\ UNCHANGED <<up, entries, firstIdx, file, snapshot, commitIndex,
                     lastApplied, prop, issued, accepted>>
  BY <1>a, <1>c, <1>d DEF ApplyEntries, TypeOK
<1>2. up = "running"
  BY <1>1 DEF Running
<1>3. /\ Len(R) \in Nat /\ old \in Seq(Command) /\ Len(old) \in Nat
      /\ \A i \in 1..Len(R) : R[i].index \in Nat /\ R[i].cmd \in Command
      /\ \A i \in 1..Len(entries) : entries[i].index \in Nat
      /\ \A i \in 1..Len(old) : old[i] \in Command
      /\ lastApplied \in Nat /\ apply.to \in Nat /\ Command \subseteq Nat
  BY <1>b, <1>c, Shapes
<1>4. /\ new \in Seq(Command)
      /\ InOrder(new)
      /\ \A k \in 1..Len(new) : \E j \in 1..Len(R) :
           /\ R[j].cmd = new[k] /\ new[k] # Noop
           /\ lastApplied < R[j].index /\ R[j].index <= apply.to
      /\ \A i \in 1..Len(entries) :
           entries[i].index > lastApplied /\ entries[i].index <= apply.to
             /\ entries[i].cmd # Noop
             => \E k \in 1..Len(new) : new[k] = entries[i].cmd
  BY <1>a, <1>b, <1>2, NewCommands
<1>5. /\ Len(F) = Len(old) + Len(new) /\ Len(new) \in Nat
      /\ \A k \in 1..Len(old) : F[k] = old[k]
      /\ \A k \in 1..Len(new) : F[Len(old) + k] = new[k]
      /\ F \in Seq(Command)
  BY <1>d, <1>3, <1>4
<1>6. ASSUME NEW k \in 1..Len(F)
      PROVE  \/ k \in 1..Len(old) /\ F[k] = old[k]
             \/ /\ k > Len(old) /\ k - Len(old) \in 1..Len(new)
                /\ F[k] = new[k - Len(old)]
  <2>1. CASE k <= Len(old)
    BY <1>3, <1>5, <2>1
  <2>2. CASE k > Len(old)
    <3>1. k - Len(old) \in 1..Len(new) /\ Len(old) + (k - Len(old)) = k
      BY <1>3, <1>5, <2>2
    <3> QED BY <1>5, <2>2, <3>1
  <2> QED BY <1>3, <2>1, <2>2
<1>7. AppliedTo = lastApplied /\ AppliedTo' = apply.to /\ lastApplied <= apply.to
  <2>1. lastApplied <= apply.to
    BY <1>1, <1>2 DEF Sound, IndexesOrdered
  <2> QED BY <1>1, <2>1 DEF AppliedTo
<1>8. /\ R # <<>> => Consecutive(R, R[1].index)
      /\ \A i \in 1..Len(R) : Earlier(R[i].cmd)
      /\ \A i \in 1..Len(old) : Earlier(old[i])
      /\ \A i, j \in 1..Len(R) : i < j /\ R[i].cmd # Noop /\ R[j].cmd # Noop
           => R[i].cmd < R[j].cmd
      /\ InOrder(old)
      /\ \A i \in 1..Len(R), k \in 1..Len(old) :
           R[i].index > lastApplied /\ R[i].cmd # Noop => old[k] < R[i].cmd
  BY <1>b, <1>c, <1>2, <1>7 DEF Sound, FileFollows, CommandsOrdered, RestIsLater
<1>9. Consecutive(entries, firstIdx)' /\ FileFollows' /\ IndexTaken'
  BY <1>1 DEF Sound, Consecutive, FileFollows, IndexTaken, LogEnd
<1>10. IndexesOrdered'
  BY <1>1, <1>2, <1>7 DEF Sound, IndexesOrdered, LogEnd
<1>11. InOrder(F)
  <2> SUFFICES ASSUME NEW i \in 1..Len(F), NEW j \in 1..Len(F), i < j
               PROVE  F[i] < F[j]
    BY DEF InOrder
  <2>1. CASE i \in 1..Len(old) /\ j \in 1..Len(old)
    BY <1>5, <1>8, <2>1 DEF InOrder
  <2>2. CASE i \in 1..Len(old) /\ j - Len(old) \in 1..Len(new)
                /\ F[j] = new[j - Len(old)]
    <3>1. PICK l \in 1..Len(R) : /\ R[l].cmd = F[j] /\ F[j] # Noop
                                 /\ lastApplied < R[l].index
      BY <1>4, <2>2
    <3> QED BY <1>3, <1>5, <1>8, <2>2, <3>1
  <2>3. CASE /\ i - Len(old) \in 1..Len(new) /\ F[i] = new[i - Len(old)]
             /\ j - Len(old) \in 1..Len(new) /\ F[j] = new[j - Len(old)]
    <3>1. i - Len(old) < j - Len(old)
      BY <1>3, <1>5
    <3> QED BY <1>4, <2>3, <3>1 DEF InOrder
  <2>4. ~ (i > Len(old) /\ j \in 1..Len(old))
    BY <1>3, <1>5
  <2> QED BY <1>6, <2>1, <2>2, <2>3, <2>4
<1>12. CommandsOrdered'
  <2>1. ASSUME NEW k \in 1..Len(F) PROVE Earlier(F[k])'
    <3>1. Earlier(F[k])
      <4>1. CASE k \in 1..Len(old) /\ F[k] = old[k]
        BY <1>8, <4>1
      <4>2. CASE k - Len(old) \in 1..Len(new) /\ F[k] = new[k - Len(old)]
        BY <1>4, <1>8, <4>2
      <4> QED BY <1>6, <4>1, <4>2
    <3> QED BY <1>1, <3>1 DEF Earlier
  <2>2. \A c : Earlier(c)' = Earlier(c)
    BY <1>1 DEF Earlier
  <2>3. InOrder(fsm)'
    BY <1>1, <1>11 DEF InOrder
  <2> QED BY <1>1, <2>1, <2>2, <2>3 DEF Sound, CommandsOrdered, InOrder
<1>13. RestIsLater'
  <2>1. ASSUME NEW i \in 1..Len(R), NEW k \in 1..Len(F), R[i].index > apply.to,
               R[i].cmd # Noop
        PROVE  F[k] < R[i].cmd
    <3>1. CASE k \in 1..Len(old) /\ F[k] = old[k]
      <4>1. R[i].index > lastApplied
        BY <1>3, <1>7, <2>1
      <4> QED BY <1>8, <2>1, <3>1, <4>1
    <3>2. CASE k - Len(old) \in 1..Len(new) /\ F[k] = new[k - Len(old)]
      <4>1. PICK j \in 1..Len(R) : /\ R[j].cmd = F[k] /\ F[k] # Noop
                                   /\ R[j].index <= apply.to
        <5>1. PICK l \in 1..Len(new) : F[k] = new[l]
          BY <3>2
        <5> QED BY <1>4, <5>1
      <4>2. R[j].index < R[i].index
        BY <1>3, <2>1, <4>1
      <4>3. R # <<>>
        BY <1>3
      <4>4. R[j].index = R[1].index + j - 1 /\ R[i].index = R[1].index + i - 1
        BY <1>8, <4>3 DEF Consecutive
      <4>5. R[1].index \in Nat
        BY <1>3
      <4>6. j < i
        BY <1>3, <4>2, <4>4, <4>5
      <4> QED BY <1>8, <2>1, <4>1, <4>6
    <3> QED BY <1>6, <3>1, <3>2
  <2> QED BY <1>b, <1>1, <1>2, <1>7, <2>1 DEF Sound, RestIsLater
<1>14. NothingLost'
  <2>1. ASSUME NEW c, InFsm(c) PROVE InFsm(c)'
    <3>1. PICK k \in 1..Len(old) : old[k] = c
      BY <1>c, <1>3, <2>1 DEF InFsm, ToSet
    <3>2. k \in 1..Len(F) /\ F[k] = c
      BY <1>3, <1>5, <3>1
    <3> QED BY <1>1, <1>5, <3>2 DEF InFsm, ToSet
  <2>2. ASSUME NEW i \in 1..Len(entries), entries[i].index <= apply.to,
               entries[i].cmd # Noop
        PROVE  InFsm(entries[i].cmd)'
    <3>1. CASE entries[i].index <= lastApplied
      <4>1. InFsm(entries[i].cmd)
        BY <1>2, <1>7, <2>2, <3>1 DEF Sound, NothingLost
      <4>2. PICK c : c = entries[i].cmd
        OBVIOUS
      <4> QED BY <1>1, <2>1, <4>1, <4>2
    <3>2. CASE entries[i].index > lastApplied
      <4>1. PICK k \in 1..Len(new) : new[k] = entries[i].cmd
        BY <1>4, <2>2, <3>2
      <4>2. Len(old) + k \in 1..Len(F) /\ F[Len(old) + k] = entries[i].cmd
        BY <1>3, <1>5, <4>1
      <4> QED BY <1>1, <1>5, <4>2 DEF InFsm, ToSet
    <3> QED BY <1>3, <3>1, <3>2
  <2>3. \A c : /\ InSnapshot(c)' = InSnapshot(c)
               /\ InFile(c)' = InFile(c)
               /\ InMemory(c)' = InMemory(c)
    BY <1>1 DEF InSnapshot, InFile, InMemory
  <2>4. \A c \in Command : InSnapshot(c) => InFsm(c)'
    BY <1>2, <2>1 DEF Sound, NothingLost
  <2> QED BY <1>1, <1>2, <1>7, <2>2, <2>3, <2>4 DEF Sound, NothingLost
<1> QED BY <1>9, <1>10, <1>12, <1>13, <1>14 DEF Sound

\* maybeCompactLog saves the snapshot of what is applied, or rests.
LEMMA SoundSave ==
  ASSUME TypeOK, Running, Sound, MaybeCompact
  PROVE  Sound'
<1>1. /\ apply.phase = "check"
      /\ UNCHANGED <<up, entries, firstIdx, file, fsm, commitIndex, lastApplied, prop,
                     issued, accepted>>
  BY DEF MaybeCompact
<1>2. up = "running"
  BY <1>1 DEF Running
<1>3. lastApplied \in Nat /\ lastApplied <= commitIndex /\ apply.to = lastApplied
  BY <1>1, <1>2, Shapes DEF Sound, IndexesOrdered
<1>4. CASE apply' = Resting /\ UNCHANGED snapshot
  <2>1. apply'.phase = "idle" /\ apply'.to = 0
    BY <1>4 DEF Resting
  <2>2. AppliedTo' = AppliedTo
    BY <1>1, <2>1 DEF AppliedTo
  <2>3. 0 <= commitIndex
    BY Shapes
  <2> QED BY <1>1, <1>2, <1>3, <1>4, <2>1, <2>2, <2>3, SoundMove
<1>5. CASE /\ snapshot' = [cmds |-> fsm, upTo |-> lastApplied]
           /\ apply' = [apply EXCEPT !.phase = "saved"]
  <2>1. /\ apply'.phase = "saved" /\ apply'.to = apply.to
        /\ snapshot'.cmds = fsm /\ snapshot'.upTo = lastApplied
    BY <1>5 DEF TypeOK
  <2>2. AppliedTo' = lastApplied /\ AppliedTo = lastApplied
    BY <1>1, <2>1 DEF AppliedTo
  <2>3. Consecutive(entries, firstIdx)' /\ FileFollows' /\ IndexTaken'
    BY <1>1 DEF Sound, Consecutive, FileFollows, IndexTaken, LogEnd
  <2>4. IndexesOrdered'
    BY <1>1, <1>2, <1>3, <2>1 DEF Sound, IndexesOrdered, LogEnd
  <2>5. CommandsOrdered'
    <3>1. \A c : Earlier(c)' = Earlier(c)
      BY <1>1 DEF Earlier
    <3>2. InOrder(fsm)' /\ InOrder(snapshot.cmds)'
      BY <1>1, <2>1 DEF Sound, CommandsOrdered, InOrder
    <3> QED BY <1>1, <2>1, <3>1, <3>2 DEF Sound, CommandsOrdered
  <2>6. RestIsLater'
    BY <1>1, <1>2, <2>1, <2>2 DEF Sound, RestIsLater
  <2>7. NothingLost'
    <3>1. \A c : /\ InSnapshot(c)' = InFsm(c)
                 /\ InFsm(c)' = InFsm(c)
                 /\ InFile(c)' = InFile(c)
                 /\ InMemory(c)' = InMemory(c)
      BY <1>1, <2>1 DEF InSnapshot, InFsm, InFile, InMemory
    <3>2. accepted \subseteq Command
      BY LogAssumption DEF TypeOK, Command
    <3>3. \A c \in accepted : (InFsm(c) \/ InFile(c)) /\ (InFsm(c) \/ InMemory(c))
      BY <1>2, <3>2 DEF Sound, NothingLost
    <3>4. \A i \in 1..Len(entries) :
            entries[i].index <= lastApplied /\ entries[i].cmd # Noop
              => InFsm(entries[i].cmd)
      BY <1>2, <2>2 DEF Sound, NothingLost
    <3> QED BY <1>1, <1>3, <2>1, <2>2, <3>1, <3>3, <3>4 DEF NothingLost
  <2> QED BY <2>3, <2>4, <2>5, <2>6, <2>7 DEF Sound
<1> QED BY <1>4, <1>5 DEF MaybeCompact

\* Compact drops entries that the snapshot holds.
LEMMA SoundCompact ==
  ASSUME TypeOK, Running, Sound, Compact
  PROVE  Sound'
<1>1. /\ apply.phase = "saved"
      /\ UNCHANGED <<up, file, snapshot, fsm, commitIndex, lastApplied, prop,
                     issued, accepted>>
  BY DEF Compact
<1>2. up = "running"
  BY <1>1 DEF Running
<1>3. /\ lastApplied \in Nat /\ lastApplied <= commitIndex /\ apply.to \in Nat
      /\ commitIndex \in Nat /\ apply.to <= commitIndex
  BY <1>1, <1>2, Shapes DEF Sound, IndexesOrdered
<1>4. CASE apply' = Resting /\ UNCHANGED <<entries, firstIdx>>
  <2>1. apply'.phase = "idle" /\ apply'.to = 0
    BY <1>4 DEF Resting
  <2>2. AppliedTo' = AppliedTo
    BY <1>1, <2>1 DEF AppliedTo
  <2>3. 0 <= commitIndex
    BY <1>3
  <2> QED BY <1>1, <1>2, <1>3, <1>4, <2>1, <2>2, <2>3, SoundMove
<1>5. CASE /\ firstIdx <= apply.to /\ apply.to <= firstIdx + Len(entries) - 1
           /\ entries' = CompactedEntries(apply.to)
           /\ firstIdx' = FirstAfter(apply.to)
           /\ apply' \in {[apply EXCEPT !.phase = "rewrite"], Resting}
  <2>a. PICK R : R = file.records
    OBVIOUS
  <2>b. PICK E : E = entries
    OBVIOUS
  <2>c. PICK M : M = entries'
    OBVIOUS
  <2>d. PICK d : d = apply.to - firstIdx + 1
    OBVIOUS
  <2>1. /\ E \in Seq(Entry) /\ Len(E) \in Nat /\ Len(R) \in Nat
        /\ firstIdx \in Nat \ {0}
        /\ \A i \in 1..Len(E) : E[i].index \in Nat /\ E[i].cmd \in Command
    BY <2>a, <2>b, Shapes
  <2>2. /\ d \in 1..Len(E)
        /\ firstIdx' = firstIdx + d
        /\ apply.to = firstIdx + d - 1
        /\ M = SubSeq(E, d + 1, Len(E))
    <3>1. d \in Int /\ firstIdx' = firstIdx + d /\ apply.to = firstIdx + d - 1
      BY <1>3, <1>5, <2>1, <2>d DEF FirstAfter
    <3>2. d \in 1..Len(E)
      BY <1>3, <1>5, <2>1, <2>b, <2>d
    <3>3. apply.to - firstIdx + 2 = d + 1
      BY <1>3, <2>1, <2>d
    <3> QED BY <1>5, <2>b, <2>c, <3>1, <3>2, <3>3 DEF CompactedEntries
  <2>3. /\ Len(M) = Len(E) - d
        /\ \A i \in 1..Len(M) : M[i] = E[d + i]
    <3>1. d + 1 \in Nat \ {0} /\ Len(E) \in Int
      BY <2>1, <2>2
    <3>2. /\ Len(M) = IF d + 1 <= Len(E) THEN Len(E) - (d + 1) + 1 ELSE 0
          /\ \A i \in 1..Len(M) : M[i] = E[(d + 1) + i - 1]
      BY <2>1, <2>2, <3>1, SubSeqFacts
    <3>3. Len(M) = Len(E) - d
      BY <2>1, <2>2, <3>2
    <3>4. ASSUME NEW i \in 1..Len(M) PROVE M[i] = E[d + i]
      <4>1. (d + 1) + i - 1 = d + i
        BY <2>2, <3>4
      <4> QED BY <3>2, <4>1
    <3> QED BY <3>3, <3>4
  <2>4. LogEnd' = LogEnd
    <3>1. LogEnd' = firstIdx' + Len(M) - 1 /\ LogEnd = firstIdx + Len(E) - 1
      BY <2>b, <2>c DEF LogEnd
    <3>2. /\ d \in Nat /\ Len(E) \in Nat /\ firstIdx \in Nat
          /\ firstIdx' = firstIdx + d /\ Len(M) = Len(E) - d
      BY <2>1, <2>2, <2>3
    <3> QED BY ONLY <3>1, <3>2
  <2>5. /\ Consecutive(E, firstIdx)
        /\ Len(E) <= Len(R)
        /\ \A i \in 1..Len(E) : E[i] = R[Len(R) - Len(E) + i]
    BY <1>2, <2>a, <2>b DEF Sound, FileFollows
  <2>6. \A i \in 1..Len(M) : d + i \in 1..Len(E)
    BY <2>1, <2>2, <2>3
  <2>7. Consecutive(entries, firstIdx)'
    <3>1. ASSUME NEW i \in 1..Len(M) PROVE M[i].index = (firstIdx + d) + i - 1
      <4>1. M[i].index = firstIdx + (d + i) - 1
        BY <2>3, <2>5, <2>6 DEF Consecutive
      <4> QED BY <2>1, <2>2, <4>1
    <3> QED BY <2>2, <2>c, <3>1 DEF Consecutive
  <2>8. FileFollows'
    <3>1. ASSUME NEW i \in 1..Len(M) PROVE M[i] = R[Len(R) - Len(M) + i]
      <4>1. Len(R) - Len(E) + (d + i) = Len(R) - Len(M) + i
        <5>1. /\ d \in Nat /\ Len(E) \in Nat /\ Len(R) \in Nat /\ i \in Nat
              /\ Len(M) = Len(E) - d
          BY <2>1, <2>2, <2>3
        <5> QED BY ONLY <5>1
      <4> QED BY <2>3, <2>5, <2>6, <4>1
    <3>2. Len(M) <= Len(R)
      BY <2>1, <2>2, <2>3, <2>5
    <3> QED BY <1>1, <1>2, <2>4, <2>a, <2>c, <3>1, <3>2 DEF Sound, FileFollows, Consecutive
  <2>9. /\ apply'.phase \in {"rewrite", "idle"}
        /\ apply'.to \in {apply.to, 0}
    BY <1>5 DEF Resting, TypeOK
  <2>10. IndexTaken' /\ IndexesOrdered'
    <3>1. apply'.to <= commitIndex
      BY <1>3, <2>9
    <3> QED BY <1>1, <1>2, <2>4, <2>9, <3>1 DEF Sound, IndexTaken, IndexesOrdered
  <2>11. CommandsOrdered'
    BY <1>1 DEF Sound, CommandsOrdered, Earlier, InOrder
  <2>12. AppliedTo' = AppliedTo
    BY <1>1, <2>9 DEF AppliedTo
  <2>13. RestIsLater'
    BY <1>1, <2>12 DEF Sound, RestIsLater
  <2>14. NothingLost'
    <3>1. \A c : /\ InSnapshot(c)' = InSnapshot(c)
                 /\ InFsm(c)' = InFsm(c)
                 /\ InFile(c)' = InFile(c)
      BY <1>1 DEF InSnapshot, InFsm, InFile
    <3>2. ASSUME NEW c \in accepted PROVE InSnapshot(c) \/ InMemory(c)'
      <4>1. c # Noop
        BY DEF TypeOK, Noop
      <4>2. InSnapshot(c) \/ InMemory(c)
        BY <1>2 DEF Sound, NothingLost
      <4>3. ASSUME InMemory(c), ~ InSnapshot(c) PROVE InMemory(c)'
        <5>1. PICK i \in 1..Len(E) : E[i].cmd = c
          BY <2>b, <4>3 DEF InMemory
        <5>2. E[i].index > apply.to
          <6>1. ~ (E[i].index <= apply.to)
            BY <1>1, <1>2, <2>b, <4>1, <4>3, <5>1 DEF Sound, NothingLost
          <6> QED BY <1>3, <2>1, <6>1
        <5>3. E[i].index = firstIdx + i - 1
          BY <2>5 DEF Consecutive
        <5>4. i - d \in 1..Len(M) /\ d + (i - d) = i
          <6>1. /\ d \in Nat /\ Len(E) \in Nat /\ i \in 1..Len(E) /\ firstIdx \in Nat
                /\ Len(M) = Len(E) - d
                /\ firstIdx + i - 1 > firstIdx + d - 1
            BY <2>1, <2>2, <2>3, <5>2, <5>3
          <6> QED BY ONLY <6>1
        <5>5. M[i - d].cmd = c
          BY <2>3, <5>1, <5>4
        <5> QED BY <2>c, <5>4, <5>5 DEF InMemory
      <4> QED BY <4>2, <4>3
    <3>3. ASSUME NEW i \in 1..Len(M), M[i].index <= AppliedTo, M[i].cmd # Noop
          PROVE  InFsm(M[i].cmd)
      BY <1>2, <2>3, <2>6, <2>b, <3>3 DEF Sound, NothingLost
    <3> QED BY <1>1, <1>2, <2>9, <2>12, <2>c, <3>1, <3>2, <3>3 DEF Sound, NothingLost
  <2> QED BY <2>7, <2>8, <2>10, <2>11, <2>13, <2>14 DEF Sound
<1> QED BY <1>4, <1>5 DEF Compact

\* rewrite leaves raft.log as it was, or replaces it by the entries in memory.
LEMMA SoundRewrite ==
  ASSUME TypeOK, Running, Sound, Rewrite
  PROVE  Sound'
<1>1. /\ apply.phase = "rewrite" /\ apply'.phase = "idle" /\ apply'.to = 0
      /\ file'.records \in {entries, file.records}
      /\ UNCHANGED <<up, entries, firstIdx, snapshot, fsm, commitIndex, lastApplied,
                     prop, issued, accepted>>
  BY DEF Rewrite, Resting, TypeOK
<1>2. up = "running"
  BY <1>1 DEF Running
<1>3. AppliedTo' = AppliedTo
  BY <1>1 DEF AppliedTo
<1>4. lastApplied \in Nat /\ commitIndex \in Nat /\ lastApplied <= commitIndex
  BY <1>2, Shapes DEF Sound, IndexesOrdered
<1>5. CASE file'.records = file.records
  BY <1>1, <1>2, <1>3, <1>4, <1>5, SoundMove
<1>6. CASE file'.records = entries
  <2>a. PICK R : R = file.records
    OBVIOUS
  <2>b. PICK E : E = entries
    OBVIOUS
  <2>1. /\ E \in Seq(Entry) /\ Len(E) \in Nat /\ Len(R) \in Nat
        /\ firstIdx \in Nat \ {0}
    BY <2>a, <2>b, Shapes
  <2>2. /\ Consecutive(E, firstIdx)
        /\ Len(E) <= Len(R)
        /\ \A i \in 1..Len(E) : E[i] = R[Len(R) - Len(E) + i]
    BY <1>2, <2>a, <2>b DEF Sound, FileFollows
  <2>3. \A i \in 1..Len(E) : Len(R) - Len(E) + i \in 1..Len(R)
    BY <2>1, <2>2
  <2>4. file'.records = E /\ entries' = E
    BY <1>1, <1>6, <2>b
  <2>5. Consecutive(entries, firstIdx)' /\ IndexTaken' /\ LogEnd' = LogEnd
    BY <1>1 DEF Sound, Consecutive, IndexTaken, LogEnd
  <2>6. FileFollows'
    <3>1. ASSUME E # <<>>
          PROVE  /\ Consecutive(E, E[1].index)
                 /\ E[Len(E)].index = LogEnd
      <4>1. Len(E) >= 1
        BY <2>1, <3>1
      <4>2. E[1].index = firstIdx /\ E[Len(E)].index = firstIdx + Len(E) - 1
        BY <2>1, <2>2, <4>1 DEF Consecutive
      <4> QED BY <2>2, <2>b, <4>2 DEF Consecutive, LogEnd
    <3>2. \A i \in 1..Len(E) : Len(E) - Len(E) + i = i
      BY <2>1
    <3>3. Len(E) <= Len(E)
      BY <2>1
    <3> QED BY <2>4, <2>5, <3>1, <3>2, <3>3 DEF FileFollows, Consecutive
  <2>7. IndexesOrdered'
    BY <1>1, <1>2, <1>4, <2>5 DEF Sound, IndexesOrdered
  <2>8. CommandsOrdered'
    <3>1. \A c : Earlier(c)' = Earlier(c)
      BY <1>1 DEF Earlier
    <3>2. \A i \in 1..Len(E) : Earlier(E[i].cmd)
      BY <2>2, <2>3, <2>a DEF Sound, CommandsOrdered
    <3>3. ASSUME NEW i \in 1..Len(E), NEW j \in 1..Len(E), i < j,
                 E[i].cmd # Noop, E[j].cmd # Noop
          PROVE  E[i].cmd < E[j].cmd
      <4>1. Len(R) - Len(E) + i < Len(R) - Len(E) + j
        BY <2>1, <3>3
      <4> QED BY <2>2, <2>3, <2>a, <3>3, <4>1 DEF Sound, CommandsOrdered
    <3> QED BY <1>1, <2>4, <3>1, <3>2, <3>3 DEF Sound, CommandsOrdered, InOrder
  <2>9. RestIsLater'
    <3>1. ASSUME NEW i \in 1..Len(E) PROVE \E j \in 1..Len(R) : E[i] = R[j]
      BY <2>2, <2>3
    <3>2. \A j \in 1..Len(R), k \in 1..Len(snapshot.cmds) :
            R[j].index > snapshot.upTo /\ R[j].cmd # Noop
              => snapshot.cmds[k] < R[j].cmd
      BY <2>a DEF Sound, RestIsLater
    <3>3. \A j \in 1..Len(R), k \in 1..Len(fsm) :
            R[j].index > AppliedTo /\ R[j].cmd # Noop => fsm[k] < R[j].cmd
      BY <1>2, <2>a DEF Sound, RestIsLater
    <3>4. /\ \A i \in 1..Len(E), k \in 1..Len(snapshot.cmds) :
               E[i].index > snapshot.upTo /\ E[i].cmd # Noop
                 => snapshot.cmds[k] < E[i].cmd
          /\ \A i \in 1..Len(E), k \in 1..Len(fsm) :
               E[i].index > AppliedTo /\ E[i].cmd # Noop => fsm[k] < E[i].cmd
      BY <3>1, <3>2, <3>3
    <3> QED BY <1>1, <1>3, <2>4, <3>4 DEF RestIsLater
  <2>10. NothingLost'
    <3>1. \A c : /\ InSnapshot(c)' = InSnapshot(c)
                 /\ InFsm(c)' = InFsm(c)
                 /\ InFile(c)' = InMemory(c)
                 /\ InMemory(c)' = InMemory(c)
      BY <1>1, <1>6 DEF InSnapshot, InFsm, InFile, InMemory
    <3> QED BY <1>1, <1>2, <1>3, <3>1 DEF Sound, NothingLost
  <2> QED BY <2>5, <2>6, <2>7, <2>8, <2>9, <2>10 DEF Sound
<1> QED BY <1>1, <1>5, <1>6

-----------------------------------------------------------------------------
(* Crashes and restarts keep the log sound *)

\* A process that is not running: only what is on disk counts.
LEMMA SoundDown ==
  ASSUME TypeOK, Running, Sound, up' # "running", prop'.phase = "idle",
         file'.records = file.records,
         UNCHANGED <<entries, firstIdx, snapshot, fsm, issued, accepted>>
  PROVE  Sound'
<1>1. Consecutive(entries, firstIdx)' /\ FileFollows' /\ IndexTaken' /\ IndexesOrdered'
  BY DEF Sound, Consecutive, FileFollows, IndexTaken, IndexesOrdered
<1>2. CommandsOrdered'
  <2>1. ASSUME NEW c, Earlier(c) PROVE Earlier(c)'
    BY <2>1 DEF Earlier
  <2> QED BY <2>1 DEF Sound, CommandsOrdered, InOrder
<1>3. RestIsLater' /\ NothingLost'
  BY DEF Sound, RestIsLater, NothingLost, InSnapshot, InFile
<1> QED BY <1>1, <1>2, <1>3 DEF Sound

\* The process dies, and may leave one more record.
LEMMA SoundCrash ==
  ASSUME TypeOK, Running, Sound, Crash
  PROVE  Sound'
<1>a. PICK e : e = [index |-> prop.index, cmd |-> prop.cmd]
  OBVIOUS
<1>1. /\ up' = "down" /\ prop' = NoProposal /\ prop'.phase = "idle"
      /\ UNCHANGED <<entries, firstIdx, snapshot, fsm, issued, accepted>>
  BY DEF Crash, NoProposal
<1>2. \/ file'.records = file.records
      \/ prop.phase = "append" /\ file'.records = Append(file.records, e)
  <2>1. \/ file' = file
        \/ file' = [file EXCEPT !.torn = TRUE]
        \/ prop.phase = "append" /\ file' = [file EXCEPT !.records = Append(@, e)]
    BY <1>a DEF Crash
  <2> QED BY <2>1 DEF TypeOK
<1>3. CASE file'.records = file.records
  BY <1>1, <1>3, SoundDown
<1>4. CASE prop.phase = "append" /\ file'.records = Append(file.records, e)
  <2>1. /\ Consecutive(file.records, file.records[1].index)'
        /\ CommandsOrdered'
        /\ \A i \in 1..Len(file'.records), k \in 1..Len(snapshot.cmds) :
             file'.records[i].index > snapshot.upTo /\ file'.records[i].cmd # Noop
               => snapshot.cmds[k] < file'.records[i].cmd
    BY <1>a, <1>1, <1>4, FileAppend
  <2>2. Consecutive(entries, firstIdx)' /\ FileFollows' /\ IndexTaken' /\ IndexesOrdered'
    BY <1>1, <2>1 DEF Sound, Consecutive, FileFollows, IndexTaken, IndexesOrdered
  <2>3. RestIsLater'
    BY <1>1, <2>1 DEF RestIsLater
  <2>4. ASSUME NEW c, InFile(c) PROVE InFile(c)'
    <3>1. PICK i \in 1..Len(file.records) : file.records[i].cmd = c
      BY <2>4 DEF InFile
    <3>2. file.records \in Seq(Entry) /\ e \in Entry /\ Len(file.records) \in Nat
      BY <1>a, Shapes, PropFacts
    <3>3. i \in 1..Len(file'.records) /\ file'.records[i] = file.records[i]
      BY <1>4, <3>2, AppendFacts
    <3> QED BY <3>1, <3>3 DEF InFile
  <2>5. NothingLost'
    BY <1>1, <2>4 DEF Sound, NothingLost, InSnapshot
  <2> QED BY <2>1, <2>2, <2>3, <2>5 DEF Sound
<1> QED BY <1>2, <1>3, <1>4

\* The process starts from files that belong together, or refuses to.
LEMMA SoundRestart ==
  ASSUME TypeOK, Running, Sound, Restart, spoiled' = {}
  PROVE  Sound'
<1>1. up = "down" /\ UNCHANGED <<meta, snapshot, prop, apply, issued, accepted>>
  BY DEF Restart
<1>2. prop.phase = "idle" /\ apply.phase = "idle" /\ apply.to = 0
  BY <1>1 DEF Running, TypeOK, Resting
<1>3. CASE file.torn
  BY <1>1, <1>2, <1>3, SoundDown DEF Restart
<1>4. CASE ~ file.torn
  <2>a. PICK R : R = file.records
    OBVIOUS
  <2>1. /\ up' = "running" /\ entries' = R /\ firstIdx' = meta + 1
        /\ fsm' = snapshot.cmds /\ file'.records = R
        /\ commitIndex' = 0 /\ lastApplied' = 0
        /\ snapshot.upTo = meta /\ (R # <<>> => R[1].index = meta + 1)
    <3>1. file' = [file EXCEPT !.open = TRUE] /\ InStep
      BY <1>4 DEF Restart
    <3>2. file'.records = file.records
      BY <3>1 DEF TypeOK
    <3> QED BY <1>4, <2>a, <3>1, <3>2 DEF Restart, InStep, FirstAfter
  <2>2. /\ R \in Seq(Entry) /\ Len(R) \in Nat /\ meta \in Nat
        /\ \A i \in 1..Len(R) : R[i].index \in Nat /\ R[i].cmd \in Command
    BY <2>a, Shapes
  <2>3. ASSUME NEW i \in 1..Len(R) PROVE R[i].index = (meta + 1) + i - 1
    <3>1. R # <<>>
      BY <2>2
    <3>2. Consecutive(R, R[1].index)
      BY <2>a, <3>1 DEF Sound, FileFollows
    <3> QED BY <2>1, <3>1, <3>2 DEF Consecutive
  <2>4. Consecutive(entries, firstIdx)'
    BY <2>1, <2>3 DEF Consecutive
  <2>5. FileFollows'
    <3>1. ASSUME R # <<>>
          PROVE  Consecutive(R, R[1].index) /\ R[Len(R)].index = (meta + 1) + Len(R) - 1
      <4>1. Len(R) \in 1..Len(R)
        BY <2>2, <3>1
      <4> QED BY <2>a, <2>3, <3>1, <4>1 DEF Sound, FileFollows
    <3>2. \A i \in 1..Len(R) : Len(R) - Len(R) + i = i
      BY <2>2
    <3>3. Len(R) <= Len(R)
      BY <2>2
    <3>4. LogEnd' = (meta + 1) + Len(R) - 1
      BY <2>1 DEF LogEnd
    <3> QED BY <2>1, <3>1, <3>2, <3>3, <3>4 DEF FileFollows, Consecutive
  <2>6. IndexTaken'
    BY <1>1, <1>2 DEF IndexTaken
  <2>7. IndexesOrdered'
    <3>1. 0 <= LogEnd'
      BY <2>1, <2>2 DEF LogEnd
    <3> QED BY <1>1, <1>2, <2>1, <3>1 DEF IndexesOrdered
  <2>8. CommandsOrdered'
    <3>1. \A c : Earlier(c)' = Earlier(c)
      BY <1>1 DEF Earlier
    <3>2. InOrder(fsm)' /\ InOrder(snapshot.cmds)'
      BY <1>1, <2>1 DEF Sound, CommandsOrdered, InOrder
    <3> QED BY <1>1, <2>1, <2>a, <3>1, <3>2 DEF Sound, CommandsOrdered
  <2>9. AppliedTo' = 0
    BY <1>1, <1>2, <2>1 DEF AppliedTo
  <2>10. RestIsLater'
    <3>1. ASSUME NEW i \in 1..Len(R), NEW k \in 1..Len(snapshot.cmds), R[i].cmd # Noop
          PROVE  snapshot.cmds[k] < R[i].cmd
      <4>1. R[i].index > snapshot.upTo
        BY <2>1, <2>2, <2>3
      <4> QED BY <2>a, <3>1, <4>1 DEF Sound, RestIsLater
    <3> QED BY <1>1, <2>1, <2>9, <3>1 DEF RestIsLater
  <2>11. NothingLost'
    <3>1. \A c : /\ InSnapshot(c)' = InSnapshot(c)
                 /\ InFsm(c)' = InSnapshot(c)
                 /\ InFile(c)' = InFile(c)
                 /\ InMemory(c)' = InFile(c)
      BY <1>1, <2>1, <2>a DEF InSnapshot, InFsm, InFile, InMemory
    <3>2. \A i \in 1..Len(R) : ~ (R[i].index <= 0)
      BY <2>2, <2>3
    <3> QED BY <1>1, <1>2, <2>1, <2>9, <3>1, <3>2 DEF Sound, NothingLost
  <2> QED BY <2>4, <2>5, <2>6, <2>7, <2>8, <2>10, <2>11 DEF Sound
<1> QED BY <1>3, <1>4

-----------------------------------------------------------------------------
(* The invariant *)

\* Every step keeps Running: a crash ends what was under way.
LEMMA RunningStep ==
  ASSUME TypeOK, Running, [Next]_vars
  PROVE  Running'
<1> USE DEF Running
<1>1. CASE BecomeLeader \/ Propose
  <2>1. up' = up /\ up = "running" /\ prop'.phase = "append" /\ UNCHANGED apply
    BY <1>1 DEF BecomeLeader, Propose, TakeIndex
  <2> QED BY <2>1
<1>2. CASE AppendSucceeds \/ AppendFails
  <2>1. prop' = NoProposal /\ prop'.phase = "idle" /\ UNCHANGED <<up, apply>>
    BY <1>2 DEF AppendSucceeds, AppendFails, NoProposal
  <2> QED BY <2>1
<1>3. CASE ReadCommit
  <2>1. up = "running" /\ apply'.phase = "apply" /\ UNCHANGED <<up, prop>>
    BY <1>3 DEF ReadCommit
  <2> QED BY <2>1
<1>4. CASE ApplyEntries \/ ApplyDone
  <2>1. apply.phase # "idle" /\ apply'.phase # "idle" /\ UNCHANGED <<up, prop>>
    BY <1>4 DEF ApplyEntries, ApplyDone, TypeOK
  <2> QED BY <2>1
<1>5. CASE MaybeCompact \/ Compact \/ Rewrite
  <2>1. /\ apply.phase # "idle" /\ UNCHANGED <<up, prop>>
        /\ apply' = Resting \/ apply'.phase # "idle"
    BY <1>5 DEF MaybeCompact, Compact, Rewrite, TypeOK
  <2> QED BY <2>1
<1>6. CASE Crash
  <2>1. prop' = NoProposal /\ apply' = Resting
    BY <1>6 DEF Crash
  <2> QED BY <2>1 DEF NoProposal, Resting
<1>7. CASE Restart
  <2>1. up = "down" /\ UNCHANGED <<prop, apply>>
    BY <1>7 DEF Restart
  <2> QED BY <2>1
<1>8. CASE UNCHANGED vars
  BY <1>8 DEF vars
<1> QED BY <1>1, <1>2, <1>3, <1>4, <1>5, <1>6, <1>7, <1>8 DEF Next, ApplyStep

\* While the process runs, an accepted command that the state machine does not
\* hold is later than all that it holds.
LEMMA SkipsNone == TypeOK /\ Sound /\ up = "running" => NoneSkipped
<1> SUFFICES ASSUME TypeOK, Sound, up = "running", NEW c \in accepted,
                    NEW k \in 1..Len(fsm), c < fsm[k], ~ InFsm(c)
             PROVE  FALSE
  BY DEF NoneSkipped
<1>1. c \in Command /\ c # Noop
  BY LogAssumption DEF TypeOK, Command, Noop
<1>2. ~ InSnapshot(c)
  BY <1>1 DEF Sound, NothingLost
<1>3. PICK i \in 1..Len(entries) : entries[i].cmd = c
  BY <1>2 DEF Sound, NothingLost, InMemory
<1>4. /\ entries[i].index \in Nat /\ AppliedTo \in Nat /\ Len(entries) \in Nat
      /\ Len(file.records) \in Nat /\ fsm[k] \in Nat /\ c \in Nat
  BY <1>1, Shapes
<1>5. entries[i].index > AppliedTo
  <2>1. ~ (entries[i].index <= AppliedTo)
    BY <1>1, <1>3 DEF Sound, NothingLost
  <2> QED BY <1>4, <2>1
<1>6. /\ Len(entries) <= Len(file.records)
      /\ entries[i] = file.records[Len(file.records) - Len(entries) + i]
  BY DEF Sound, FileFollows
<1>7. Len(file.records) - Len(entries) + i \in 1..Len(file.records)
  BY <1>4, <1>6
<1>8. fsm[k] < c
  BY <1>1, <1>3, <1>5, <1>6, <1>7 DEF Sound, RestIsLater
<1> QED BY <1>4, <1>8

\* SkipsNone, of the state after a step.
LEMMA SkipsNoneAfter == (TypeOK /\ Sound /\ up = "running" => NoneSkipped)'
BY SkipsNone, PTL

\* A process that is not running after a step applied and accepted nothing in it.
LEMMA StillDown ==
  ASSUME TypeOK, Running, [Next]_vars, up' # "running"
  PROVE  UNCHANGED <<fsm, accepted>>
<1>1. CASE AppendSucceeds
  BY <1>1 DEF AppendSucceeds, Running
<1>2. CASE ApplyEntries
  BY <1>2 DEF ApplyEntries, Running
<1> QED BY <1>1, <1>2 DEF Next, ApplyStep, vars, BecomeLeader, Propose, AppendFails,
           ReadCommit, ApplyDone, MaybeCompact, Compact, Rewrite, Crash, Restart

\* The first state satisfies the inductive invariant.
LEMMA InvInit == Init => LogInv
<1> SUFFICES ASSUME Init PROVE LogInv
  OBVIOUS
<1>1. TypeOK
  BY TypeInit
<1>2. Running
  BY DEF Init, Running, NoProposal, Resting
<1>3. /\ entries = <<>> /\ firstIdx = 1 /\ file.records = <<>>
      /\ snapshot.cmds = <<>> /\ fsm = <<>> /\ accepted = {}
      /\ prop.phase = "idle" /\ apply.phase = "idle" /\ apply.to = 0
      /\ commitIndex = 0 /\ lastApplied = 0
  BY DEF Init, FirstAfter, NoProposal, Resting
<1>4. Len(entries) = 0 /\ Len(file.records) = 0 /\ Len(snapshot.cmds) = 0 /\ Len(fsm) = 0
  BY <1>3
<1>5. Consecutive(entries, firstIdx) /\ FileFollows /\ IndexTaken /\ IndexesOrdered
  BY <1>3, <1>4 DEF Consecutive, FileFollows, IndexTaken, IndexesOrdered, LogEnd
<1>6. CommandsOrdered /\ RestIsLater
  BY <1>3, <1>4 DEF CommandsOrdered, RestIsLater, InOrder
<1>7. NothingLost
  BY <1>3, <1>4 DEF NothingLost, InSnapshot, ToSet
<1>8. NoneSkipped
  BY <1>3 DEF NoneSkipped
<1> QED BY <1>1, <1>2, <1>5, <1>6, <1>7, <1>8 DEF LogInv, Sound

\* Every step keeps it.
LEMMA InvStep ==
  ASSUME LogInv, [Next]_vars
  PROVE  LogInv'
<1>1. TypeOK' /\ Running'
  BY TypeStep, RunningStep DEF LogInv
<1>2. ASSUME spoiled' = {} PROVE Sound'
  <2>1. TypeOK /\ Running /\ Sound
    BY <1>2, StaysSpoiled DEF LogInv
  <2>2. CASE BecomeLeader
    <3>1. Noop \in Command
      BY LogAssumption DEF Noop, Command
    <3>2. PICK cmd \in Command : cmd = Noop
      BY <3>1
    <3>3. /\ TakeIndex(cmd) /\ issued' = issued
          /\ UNCHANGED <<up, entries, firstIdx, file, meta, snapshot, fsm, commitIndex,
                         lastApplied, apply, accepted>>
      BY <2>2, <3>2, Zenon DEF BecomeLeader
    <3>4. (cmd = Noop /\ issued' = issued) \/ (cmd = issued + 1 /\ issued' = cmd)
      BY <3>2, <3>3
    <3> QED BY <1>2, <2>1, <3>3, <3>4, SoundTakeIndex, Zenon
  <2>3. CASE Propose
    <3>1. issued + 1 \in Command
      BY <2>1, <2>3, LogAssumption DEF Propose, TypeOK, Command
    <3> QED BY <1>2, <2>1, <2>3, <3>1, SoundTakeIndex DEF Propose
  <2>4. CASE AppendSucceeds
    <3>1. PICK e : e = [index |-> prop.index, cmd |-> prop.cmd]
      OBVIOUS
    <3>2. file'.records = Append(file.records, e)
      BY <2>1, <2>4, <3>1 DEF AppendSucceeds, TypeOK
    <3> QED BY <2>1, <2>4, <3>1, <3>2, SoundAppend DEF AppendSucceeds
  <2>5. CASE AppendFails
    <3>1. PICK e : e = [index |-> prop.index, cmd |-> prop.cmd]
      OBVIOUS
    <3>2. \/ file'.records = file.records /\ UNCHANGED entries
          \/ file'.records = Append(file.records, e) /\ entries' = Append(entries, e)
      BY <2>1, <2>5, <3>1 DEF AppendFails, TypeOK
    <3>3. /\ prop.phase = "append" /\ prop' = NoProposal
          /\ UNCHANGED <<up, firstIdx, meta, snapshot, fsm, commitIndex, lastApplied,
                         apply, issued, accepted>>
      BY <2>5 DEF AppendFails
    <3>4. CASE file'.records = file.records /\ UNCHANGED entries
      BY <2>1, <3>3, <3>4, SoundGiveUp
    <3>5. CASE file'.records = Append(file.records, e) /\ entries' = Append(entries, e)
      BY <2>1, <3>1, <3>3, <3>5, SoundAppend
    <3> QED BY <3>2, <3>4, <3>5
  <2>6. CASE ReadCommit \/ ApplyDone
    BY <2>1, <2>6, SoundRead
  <2>7. CASE ApplyEntries
    BY <2>1, <2>7, SoundApply
  <2>8. CASE MaybeCompact
    BY <2>1, <2>8, SoundSave
  <2>9. CASE Compact
    BY <2>1, <2>9, SoundCompact
  <2>10. CASE Rewrite
    BY <2>1, <2>10, SoundRewrite
  <2>11. CASE Crash
    BY <2>1, <2>11, SoundCrash
  <2>12. CASE Restart
    BY <1>2, <2>1, <2>12, SoundRestart
  <2>13. CASE UNCHANGED vars
    BY <2>1, <2>13 DEF vars, Sound, Consecutive, FileFollows, IndexTaken, IndexesOrdered,
       CommandsOrdered, RestIsLater, NothingLost, LogEnd, Earlier, AppliedTo, InOrder,
       InMemory, InFile, InSnapshot, InFsm
  <2> QED BY <2>2, <2>3, <2>4, <2>5, <2>6, <2>7, <2>8, <2>9, <2>10, <2>11, <2>12, <2>13
          DEF Next, ApplyStep
<1>3. ASSUME spoiled' = {} PROVE NoneSkipped'
  <2>1. CASE up' = "running"
    BY <1>1, <1>2, <1>3, <2>1, SkipsNoneAfter
  <2>2. CASE up' # "running"
    <3>1. TypeOK /\ Running /\ NoneSkipped
      BY <1>3, StaysSpoiled DEF LogInv
    <3>2. UNCHANGED <<fsm, accepted>>
      BY <2>2, <3>1, StillDown
    <3> QED BY <3>1, <3>2 DEF NoneSkipped, InFsm
  <2> QED BY <2>1, <2>2
<1> QED BY <1>1, <1>2, <1>3 DEF LogInv

\* The invariant holds in every behaviour of node.go's Propose and apply
\* goroutine over log.go, with any number of crashes and failing writes.
THEOREM LogInvariant == Spec => []LogInv
<1>1. LogInv /\ [Next]_vars => LogInv'
  BY InvStep
<1> QED BY InvInit, <1>1, PTL DEF Spec

\* Every variable keeps its type, whatever the number of commands and crashes.
THEOREM TypeCorrect == Spec => []TypeOK
<1>1. LogInv => TypeOK
  BY DEF LogInv
<1> QED BY LogInvariant, <1>1, PTL

\* Log.Get, GetRange and TermAt look for an entry where it is: compaction, a
\* failed snapshot.meta or rewrite, and a restart leave the indexes aligned with
\* firstIdx, for every threshold and every number of crashes.
THEOREM LogAligned == Spec => []Aligned
<1>1. LogInv => Aligned
  BY DEF LogInv, Sound, Aligned, Consecutive
<1> QED BY LogInvariant, <1>1, PTL

\* applyCommitted takes no command twice, none out of order, and skips none that
\* Propose accepted, however proposals, compactions, crashes and failing writes
\* interleave.
THEOREM AppliedOnceInOrder == Spec => []AppliedInOrder
<1>1. LogInv => AppliedInOrder
  <2> SUFFICES ASSUME LogInv, spoiled = {}
               PROVE  /\ InOrder(fsm)
                      /\ \A c \in accepted, i \in 1..Len(fsm) :
                           c < fsm[i] => c \in ToSet(fsm)
    BY DEF AppliedInOrder
  <2>1. TypeOK /\ Sound
    BY DEF LogInv
  <2>2. InOrder(fsm)
    BY <2>1 DEF Sound, CommandsOrdered
  <2>3. NoneSkipped
    BY DEF LogInv
  <2> QED BY <2>2, <2>3 DEF NoneSkipped, InFsm
<1> QED BY LogInvariant, <1>1, PTL

\* A command that Propose accepted is in snapshot.json or raft.log at every
\* moment after, through every compaction, crash and failed write.
THEOREM AcceptedStaysDurable == Spec => []AcceptedDurable
<1>1. LogInv => AcceptedDurable
  BY DEF LogInv, Sound, NothingLost, InSnapshot, InFile, AcceptedDurable
<1> QED BY LogInvariant, <1>1, PTL

=============================================================================

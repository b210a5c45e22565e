------------------------------- MODULE RaftLog -------------------------------
(***************************************************************************)
(* One Raft node's log, snapshot and state machine across crashes: Propose *)
(* and the apply goroutine of pkg/raft/node.go over the log of             *)
(* pkg/raft/log.go and the snapshot of pkg/raft/fsm.go, in a cluster of    *)
(* one node, where every entry appended is committed at once.              *)
(*                                                                         *)
(* Two goroutines meet here.  A proposal holds n.mu, and reads the last    *)
(* index and appends under two separate holds of the log's lock.  The      *)
(* apply goroutine holds n.mu only to read commitIndex and to write        *)
(* lastApplied, and holds the log's lock for the whole of Compact.         *)
(* Commands are numbered in the order they are proposed; terms play no     *)
(* part with one node and are left out.                                    *)
(***************************************************************************)
EXTENDS Integers, Sequences, SequencesExt

CONSTANTS
  Threshold,     \* DefaultCompactionThreshold
  MaxCommands,   \* bound: commands proposed in a behaviour
  MaxCrashes,    \* bound: process crashes in a behaviour
  DiskMayFail    \* TRUE: any write to disk may fail

ASSUME LogAssumption ==
  /\ Threshold \in Nat
  /\ MaxCommands \in Nat
  /\ MaxCrashes \in Nat
  /\ DiskMayFail \in BOOLEAN

VARIABLES
  up,            \* the process: running, down, or refused to start
  leading,       \* has this process become leader?
  entries,       \* Log.entries
  firstIdx,      \* Log.firstIdx
  file,          \* raft.log: its whole records, a torn record, is it open?
  meta,          \* the index in snapshot.meta, 0 without the file
  snapshot,      \* snapshot.json: the commands it holds, up to which index
  fsm,           \* the commands applied to the state machine, in order
  commitIndex,   \* Node.commitIndex
  lastApplied,   \* Node.lastApplied
  prop,          \* the proposal that holds n.mu
  apply,         \* the apply goroutine
  issued,        \* how many commands have been proposed
  accepted,      \* history: the commands whose Propose returned no error
  spoiled,       \* history: what has put the log out of step (see below)
  crashes        \* how many crashes have happened

vars == <<up, leading, entries, firstIdx, file, meta, snapshot, fsm,
          commitIndex, lastApplied, prop, apply, issued, accepted, spoiled,
          crashes>>

-----------------------------------------------------------------------------
(* Data *)

Noop == 0
Command == 0..MaxCommands
Entry == [index : Nat, cmd : Command]

NoProposal == [phase |-> "idle", index |-> 0, cmd |-> Noop]

Resting == [phase |-> "idle", to |-> 0]

\* The two ways in which the log gets out of step:
\*   emptied      Propose took an index from a log that compaction emptied
\*   interrupted  a process started from a snapshot.json, snapshot.meta and
\*                raft.log that are not of the same compaction
Spoiling == {"emptied", "interrupted"}

\* The first index of a log whose entries up to idx are in a snapshot.
FirstAfter(idx) == idx + 1

\* Mutant of LastIndex: off by one.
LastIndexShort == IF entries = <<>> THEN 0 ELSE firstIdx + Len(entries) - 2

\* Index of the last entry, 0 if there is none.
LastIndex == IF entries = <<>> THEN 0 ELSE firstIdx + Len(entries) - 1

\* Mutant of GetRange: the range starts one entry late.
GetRangeLate(start, end) ==
  SubSeq(entries, IF start + 1 < firstIdx THEN 1 ELSE start - firstIdx + 2,
         end - firstIdx + 1)

\* Entries from start to end, both clamped to what there is.
GetRange(start, end) ==
  LET from == IF start < firstIdx THEN 1 ELSE start - firstIdx + 1
      to   == IF end - firstIdx >= Len(entries) THEN Len(entries)
                                                ELSE end - firstIdx + 1
  IN  SubSeq(entries, from, to)

\* What FSM.Apply makes of a run of entries: a no-op changes nothing.
Commands(es) ==
  LET upTo[i \in 0..Len(es)] ==
        IF i = 0 THEN <<>>
        ELSE IF es[i].cmd = Noop THEN upTo[i - 1]
        ELSE Append(upTo[i - 1], es[i].cmd)
  IN  upTo[Len(es)]

-----------------------------------------------------------------------------
(* Proposals *)

\* Propose up to LastIndex: n.mu is held from here to the end of Propose.
TakeIndex(cmd) ==
  /\ up = "running"
  /\ prop = NoProposal
  /\ apply.phase # "rewrite"
  /\ prop' = [phase |-> "append", index |-> LastIndex + 1, cmd |-> cmd]
  /\ spoiled' = IF entries = <<>> /\ firstIdx > 1
                  THEN spoiled \cup {"emptied"} ELSE spoiled

\* startElection of a node on its own, and becomeLeader's no-op.
BecomeLeader ==
  /\ ~ leading
  /\ TakeIndex(Noop)
  /\ leading' = TRUE
  /\ UNCHANGED <<up, entries, firstIdx, file, meta, snapshot, fsm, commitIndex,
                 lastApplied, apply, issued, accepted, crashes>>

Propose ==
  /\ leading
  /\ issued < MaxCommands
  /\ TakeIndex(issued + 1)
  /\ issued' = issued + 1
  /\ UNCHANGED <<up, leading, entries, firstIdx, file, meta, snapshot, fsm,
                 commitIndex, lastApplied, apply, accepted, crashes>>

\* Log.Append succeeds, and a cluster of one commits the entry.
AppendSucceeds ==
  LET e == [index |-> prop.index, cmd |-> prop.cmd] IN
  /\ prop.phase = "append"
  /\ apply.phase # "rewrite"
  /\ file.open
  /\ entries' = Append(entries, e)
  /\ file' = [file EXCEPT !.records = Append(@, e)]
  /\ commitIndex' = prop.index
  /\ accepted' = accepted \cup ({prop.cmd} \ {Noop})
  /\ prop' = NoProposal
  /\ UNCHANGED <<up, leading, firstIdx, meta, snapshot, fsm, lastApplied, apply,
                 issued, spoiled, crashes>>

\* Log.Append fails, at the length, after it, or when the file is synced (the
\* entry is then in the log all the same), and Propose returns the error.
AppendFails ==
  LET e == [index |-> prop.index, cmd |-> prop.cmd] IN
  /\ prop.phase = "append"
  /\ apply.phase # "rewrite"
  /\ \/ ~ file.open /\ UNCHANGED <<entries, file>>
     \/ /\ file.open /\ DiskMayFail
        /\ \E t \in {file.torn, TRUE} : file' = [file EXCEPT !.torn = t]
        /\ UNCHANGED entries
     \/ /\ file.open /\ DiskMayFail
        /\ file' = [file EXCEPT !.records = Append(@, e)]
        /\ entries' = Append(entries, e)
  /\ prop' = NoProposal
  /\ UNCHANGED <<up, leading, firstIdx, meta, snapshot, fsm, commitIndex,
                 lastApplied, apply, issued, accepted, spoiled, crashes>>

-----------------------------------------------------------------------------
(* The apply goroutine *)

\* Mutant of Unapplied: the last committed entry is not waited for.
UnappliedLate == lastApplied + 1 < commitIndex

\* Is there something to apply?
Unapplied == lastApplied < commitIndex

\* applyCommitted reads the two indexes under n.mu.
ReadCommit ==
  /\ up = "running"
  /\ apply.phase = "idle"
  /\ prop = NoProposal
  /\ Unapplied
  /\ apply' = [phase |-> "apply", to |-> commitIndex]
  /\ UNCHANGED <<up, leading, entries, firstIdx, file, meta, snapshot, fsm,
                 commitIndex, lastApplied, prop, issued, accepted, spoiled,
                 crashes>>

\* The entries between them are read and applied, without n.mu.
ApplyEntries ==
  /\ apply.phase = "apply"
  /\ fsm' = fsm \o Commands(GetRange(lastApplied + 1, apply.to))
  /\ apply' = [apply EXCEPT !.phase = "applied"]
  /\ UNCHANGED <<up, leading, entries, firstIdx, file, meta, snapshot,
                 commitIndex, lastApplied, prop, issued, accepted, spoiled,
                 crashes>>

\* lastApplied is written under n.mu.
ApplyDone ==
  /\ apply.phase = "applied"
  /\ prop = NoProposal
  /\ lastApplied' = apply.to
  /\ apply' = [apply EXCEPT !.phase = "check"]
  /\ UNCHANGED <<up, leading, entries, firstIdx, file, meta, snapshot, fsm,
                 commitIndex, prop, issued, accepted, spoiled, crashes>>

\* maybeCompactLog up to SaveSnapshot: is the log long enough, is anything
\* applied?  SaveSnapshot may fail, which ends it.
MaybeCompact ==
  LET wanted == Len(entries) > Threshold /\ lastApplied # 0 IN
  /\ apply.phase = "check"
  /\ prop = NoProposal
  /\ \/ /\ wanted
        /\ snapshot' = [cmds |-> fsm, upTo |-> lastApplied]
        /\ apply' = [apply EXCEPT !.phase = "saved"]
     \/ /\ ~ wanted \/ DiskMayFail
        /\ apply' = Resting
        /\ UNCHANGED snapshot
  /\ UNCHANGED <<up, leading, entries, firstIdx, file, meta, fsm, commitIndex,
                 lastApplied, prop, issued, accepted, spoiled, crashes>>

\* Mutant of CompactedEntries: one entry too many is dropped.
CompactedEntriesShort(idx) ==
  SubSeq(entries, idx - firstIdx + 3, Len(entries))

\* The entries that compaction up to idx leaves.
CompactedEntries(idx) == SubSeq(entries, idx - firstIdx + 2, Len(entries))

\* Compact up to saveSnapshotMeta: the entries go from memory first, then
\* snapshot.meta is replaced; when that fails, Compact returns.
Compact ==
  LET idx == apply.to IN
  /\ apply.phase = "saved"
  /\ IF firstIdx <= idx /\ idx <= firstIdx + Len(entries) - 1
       THEN /\ entries' = CompactedEntries(idx)
            /\ firstIdx' = FirstAfter(idx)
            /\ \/ meta' = idx /\ apply' = [apply EXCEPT !.phase = "rewrite"]
               \/ DiskMayFail /\ UNCHANGED meta /\ apply' = Resting
       ELSE apply' = Resting /\ UNCHANGED <<entries, firstIdx, meta>>
  /\ UNCHANGED <<up, leading, file, snapshot, fsm, commitIndex, lastApplied,
                 prop, issued, accepted, spoiled, crashes>>

\* rewrite closes raft.log and replaces it by what is in memory.  A failure
\* leaves it closed, before or after the rename.
Rewrite ==
  /\ apply.phase = "rewrite"
  /\ \/ file' = [records |-> entries, torn |-> FALSE, open |-> TRUE]
     \/ DiskMayFail /\ file' = [file EXCEPT !.open = FALSE]
     \/ DiskMayFail /\ file' = [records |-> entries, torn |-> FALSE,
                                open |-> FALSE]
  /\ apply' = Resting
  /\ UNCHANGED <<up, leading, entries, firstIdx, meta, snapshot, fsm,
                 commitIndex, lastApplied, prop, issued, accepted, spoiled,
                 crashes>>

-----------------------------------------------------------------------------
(* Crash and restart *)

\* The process dies.  A record being written is in the file whole, in part,
\* or not at all.
Crash ==
  LET e == [index |-> prop.index, cmd |-> prop.cmd] IN
  /\ up = "running"
  /\ crashes < MaxCrashes
  /\ crashes' = crashes + 1
  /\ up' = "down"
  /\ file' \in {file} \cup
       (IF prop.phase = "append" /\ file.open
          THEN {[file EXCEPT !.torn = TRUE],
                [file EXCEPT !.records = Append(@, e)]}
          ELSE {})
  /\ prop' = NoProposal
  /\ apply' = Resting
  /\ UNCHANGED <<leading, entries, firstIdx, meta, snapshot, fsm, commitIndex,
                 lastApplied, issued, accepted, spoiled>>

\* Do the three files belong to one compaction?
InStep ==
  /\ snapshot.upTo = meta
  /\ file.records # <<>> => file.records[1].index = meta + 1

\* NewNode: a torn record makes NewLog, and so the start, fail.  Otherwise
\* the log is what raft.log holds, after the index in snapshot.meta, and the
\* state machine is what snapshot.json holds.
Restart ==
  /\ up = "down"
  /\ IF file.torn
       THEN /\ up' = "refused"
            /\ UNCHANGED <<entries, firstIdx, fsm, file, spoiled>>
       ELSE /\ up' = "running"
            /\ entries' = file.records
            /\ firstIdx' = FirstAfter(meta)
            /\ fsm' = snapshot.cmds
            /\ file' = [file EXCEPT !.open = TRUE]
            /\ spoiled' = IF InStep THEN spoiled
                                    ELSE spoiled \cup {"interrupted"}
  /\ leading' = FALSE
  /\ commitIndex' = 0
  /\ lastApplied' = 0
  /\ UNCHANGED <<meta, snapshot, prop, apply, issued, accepted, crashes>>

-----------------------------------------------------------------------------

Init ==
  /\ up = "running"
  /\ leading = FALSE
  /\ entries = <<>>
  /\ firstIdx = FirstAfter(0)
  /\ file = [records |-> <<>>, torn |-> FALSE, open |-> TRUE]
  /\ meta = 0
  /\ snapshot = [cmds |-> <<>>, upTo |-> 0]
  /\ fsm = <<>>
  /\ commitIndex = 0
  /\ lastApplied = 0
  /\ prop = NoProposal
  /\ apply = Resting
  /\ issued = 0
  /\ accepted = {}
  /\ spoiled = {}
  /\ crashes = 0

ApplyStep ==
  \/ ReadCommit \/ ApplyEntries \/ ApplyDone
  \/ MaybeCompact \/ Compact \/ Rewrite

Next ==
  \/ BecomeLeader \/ Propose \/ AppendSucceeds \/ AppendFails
  \/ ApplyStep
  \/ Crash \/ Restart

Spec == Init /\ [][Next]_vars

\* Goroutines go on, a node on its own elects itself, and the service manager
\* starts a process that died (docs/CLUSTERING.md:279, Restart=always).
Fairness ==
  /\ WF_vars(BecomeLeader)
  /\ WF_vars(AppendSucceeds \/ AppendFails)
  /\ WF_vars(ApplyStep)
  /\ WF_vars(Restart)

FairSpec == Spec /\ Fairness

-----------------------------------------------------------------------------
(* Properties *)

\* Every variable keeps its type.
TypeOK ==
  /\ up \in {"running", "down", "refused"}
  /\ leading \in BOOLEAN
  /\ entries \in Seq(Entry)
  /\ firstIdx \in Nat \ {0}
  /\ file \in [records : Seq(Entry), torn : BOOLEAN, open : BOOLEAN]
  /\ meta \in Nat
  /\ snapshot \in [cmds : Seq(Command), upTo : Nat]
  /\ fsm \in Seq(Command)
  /\ commitIndex \in Nat
  /\ lastApplied \in Nat
  /\ prop \in [phase : {"idle", "append"}, index : Nat, cmd : Command]
  /\ apply \in [phase : {"idle", "apply", "applied", "check", "saved",
                         "rewrite"}, to : Nat]
  /\ issued \in 0..MaxCommands
  /\ accepted \subseteq 1..MaxCommands
  /\ spoiled \subseteq Spoiling
  /\ crashes \in 0..MaxCrashes

\* An entry is where Get, GetRange and TermAt look for its index, whatever
\* compactions, failed writes and restarts came before.
Aligned ==
  spoiled = {} =>
    \A i \in 1..Len(entries) : entries[i].index = firstIdx + i - 1

\* cmds holds each command at most once, in the order proposed.
InOrder(cmds) == \A i, j \in 1..Len(cmds) : i < j => cmds[i] < cmds[j]

\* The state machine takes no command twice or out of order, and skips none
\* that was accepted, over any interleaving of proposals, compactions and
\* restarts.
AppliedInOrder ==
  spoiled = {} =>
    /\ InOrder(fsm)
    /\ \A c \in accepted, i \in 1..Len(fsm) :
         c < fsm[i] => c \in ToSet(fsm)

\* A command whose Propose succeeded is on disk, in snapshot.json or raft.log,
\* at every moment after: also between SaveSnapshot, snapshot.meta and the
\* rewrite.  (A torn record before it can keep it from being read back: load
\* then refuses the whole file.)
AcceptedDurable ==
  spoiled = {} =>
    \A c \in accepted :
      \/ c \in ToSet(snapshot.cmds)
      \/ \E i \in 1..Len(file.records) : file.records[i].cmd = c

\* The append of a new leader's no-op failed, which startLeader passes over: a
\* node that restarted commits nothing until the next proposal.
NoopFailed == leading /\ prop = NoProposal /\ commitIndex = 0

\* An accepted command reaches the state machine, also when writes fail or the
\* process dies before it is applied, unless raft.log cannot be read back.
AcceptedApplied ==
  \A c \in 1..MaxCommands :
    c \in accepted
      ~> c \in ToSet(fsm) \/ spoiled # {} \/ up = "refused" \/ NoopFailed

\* node.go:413, "applyCommitted applies all committed but unapplied entries."
CommittedApplied ==
  \A c \in 1..MaxCommands : c \in accepted ~> c \in ToSet(fsm)

=============================================================================

---------------------------- MODULE StorageCache ----------------------------
(***************************************************************************)
(* The cache of deployment versions of pkg/storage/cache.go: a map of      *)
(* entries, the heap that decides what is evicted, the archives and the    *)
(* directories on disk, the workers that prime keys from a queue, and Get. *)
(*                                                                         *)
(* Entries are objects: a worker keeps the one it read after the map has   *)
(* another for its key, or none.  A step is what happens under one hold of *)
(* the lock, or between two moments at which a file is open.  Scores are   *)
(* abstracted to what decides between entries: an assigned one is the last *)
(* to go, and access times may order the others in any way.                *)
(***************************************************************************)
EXTENDS Integers, Sequences, FiniteSets, FiniteSetsExt

CONSTANTS
  Key,          \* namespace/name/version
  Worker,       \* the goroutines of primeWorker
  Reader,       \* callers of Get
  Caller,       \* callers of PrimeSync
  Nobody,       \* the caller of Prime, who does not wait
  WarmSize,     \* the size of an archive
  HotSize,      \* the size of a directory and of its source
  MaxSize,      \* Config.MaxSizeGB
  QueueCap,     \* the capacity of primeQueue
  MaxMade,      \* bound: entries made
  Budgets       \* bounds, one set of them for each initial state: how many
                \* calls of Prime, PrimeSync, Get, SetAssigned and Close,
                \* failures of the disk and restarts there may be

VARIABLES
  entries,   \* Cache.entries: the entry of a key, or 0
  obj,       \* obj[o]: a CacheEntry
  made,      \* how many there are
  size,      \* Cache.currentSize
  queue,     \* Cache.primeQueue
  sync,      \* sync[c]: what a caller of PrimeSync does
  closed,    \* is stopCh closed?
  proc,      \* proc[p]: a worker or a caller of Get
  warm,      \* warm[k]: the archive of k on disk
  hot,       \* hot[k]: the directory of k on disk
  spoilt,    \* keys that met one of the situations MapTrue leaves out
  left       \* what is left of the budget

vars == <<entries, obj, made, size, queue, sync, closed, proc, warm, hot,
          spoilt, left>>

-----------------------------------------------------------------------------

Object == 1..MaxMade

NoObject == [key |-> CHOOSE k \in Key : TRUE, state |-> "Cold", size |-> 0,
             assigned |-> FALSE, queued |-> FALSE]

Entry(k, bytes) ==
  [NoObject EXCEPT !.key = k, !.state = "Warm", !.size = bytes, !.queued = TRUE]

Idle == [pc |-> "idle", key |-> CHOOSE k \in Key : TRUE, target |-> "Hot",
         caller |-> Nobody, obj |-> 0, torn |-> FALSE]

\* Cold < Warm < Hot.
AtLeast(s, t) == s = t \/ s = "Hot" \/ t = "Cold"

\* GetState: what the map says of a key.
GetState(k) == IF entries[k] = 0 THEN "Cold" ELSE obj[entries[k]].state

dirSize(k) == CASE hot[k] = "none" -> 0 [] hot[k] = "partial" -> 1
                [] OTHER -> HotSize

SizeOf(S) == MapThenSumSet(LAMBDA o : obj[o].size, S)

Queued == {o \in 1..made : obj[o].queued}

\* The entries the score lets go first.
Loose == {o \in Queued : ~ obj[o].assigned}

\* The sets ensureSpace may evict: it pops until there is room, until only
\* assigned entries are left, or until the heap is empty.
Evictions(needed) ==
  {E \in SUBSET Loose :
     LET total == size - SizeOf(E) + needed IN
     /\ E # {} => \E o \in E : total + obj[o].size > MaxSize
     /\ total > MaxSize => E = Loose}

\* One of the things the budget counts happens.
Spend(what) == left[what] > 0 /\ left' = [left EXCEPT ![what] = @ - 1]

-----------------------------------------------------------------------------
(* Initial state and restart *)

\* What scan makes of the disk.  Its test for three components splits at the
\* list separator, so no directory passes it; an archive is taken as it is.
Archives == {k \in Key : warm[k] # "none"}

Init ==
  /\ entries = [k \in Key |-> 0]
  /\ obj = [o \in Object |-> NoObject]
  /\ made = 0
  /\ size = 0
  /\ queue = << >>
  /\ sync = [c \in Caller |-> "idle"]
  /\ closed = FALSE
  /\ proc = [p \in Worker \cup Reader |-> Idle]
  /\ warm = [k \in Key |-> "none"]
  /\ hot = [k \in Key |-> "none"]
  /\ spoilt = {}
  /\ left \in Budgets

\* The process ends at any moment, and NewCache reads what it left.
Restart ==
  /\ Spend("restarts")
  /\ \E f \in [1..Cardinality(Archives) -> Archives] :
       /\ \A k \in Archives : \E o \in DOMAIN f : f[o] = k
       /\ obj' = [o \in Object |->
                    IF o \in DOMAIN f THEN Entry(f[o], WarmSize) ELSE NoObject]
       /\ entries' = [k \in Key |->
                        IF k \in Archives
                          THEN CHOOSE o \in DOMAIN f : f[o] = k ELSE 0]
  /\ made' = Cardinality(Archives)
  /\ size' = WarmSize * Cardinality(Archives)
  /\ queue' = << >>
  /\ sync' = [c \in Caller |-> "idle"]
  /\ closed' = FALSE
  /\ proc' = [p \in Worker \cup Reader |-> Idle]
  /\ spoilt' = spoilt \cup {k \in Key : warm[k] = "partial"}
  /\ UNCHANGED <<warm, hot>>

-----------------------------------------------------------------------------
(* Requests *)

\* Prime: dropped when the queue is full.
Prime(k, t) ==
  /\ Spend("primes")
  /\ queue' = IF Len(queue) < QueueCap
                THEN Append(queue, [key |-> k, target |-> t, caller |-> Nobody])
                ELSE queue
  /\ UNCHANGED <<entries, obj, made, size, sync, closed, proc, warm, hot, spoilt>>

\* PrimeSync: waits for room in the queue, and then for the answer.
PrimeSync(c, k, t) ==
  /\ sync[c] = "idle"
  /\ Len(queue) < QueueCap
  /\ Spend("syncs")
  /\ queue' = Append(queue, [key |-> k, target |-> t, caller |-> c])
  /\ sync' = [sync EXCEPT ![c] = "waiting"]
  /\ UNCHANGED <<entries, obj, made, size, closed, proc, warm, hot, spoilt>>

\* Get: finds the entry, and looks at its state after the unlock.
Get(r, k) ==
  /\ proc[r].pc = "idle"
  /\ Spend("gets")
  /\ entries[k] # 0
  /\ proc' = [proc EXCEPT ![r] =
                [Idle EXCEPT !.pc = "open", !.key = k, !.obj = entries[k]]]
  /\ UNCHANGED <<entries, obj, made, size, queue, sync, closed, warm, hot, spoilt>>

SetAssigned(k, assigned) ==
  /\ entries[k] # 0
  /\ obj[entries[k]].assigned # assigned
  /\ obj' = [obj EXCEPT ![entries[k]].assigned = assigned]
  /\ Spend("assigns")
  /\ UNCHANGED <<entries, made, size, queue, sync, closed, proc, warm, hot, spoilt>>

\* Close: the workers end when they come back to their select.
Close ==
  /\ ~ closed
  /\ closed' = TRUE
  /\ Spend("closes")
  /\ UNCHANGED <<entries, obj, made, size, queue, sync, proc, warm, hot, spoilt>>

-----------------------------------------------------------------------------
(* A worker *)

Goto(p, pc) ==
  proc' = [proc EXCEPT ![p] = IF pc = "idle" THEN Idle ELSE [@ EXCEPT !.pc = pc]]

\* primeWorker takes a request; the first lines of doPrime read the state.
Take(w) ==
  /\ proc[w].pc = "idle"
  /\ queue # << >>
  /\ queue' = Tail(queue)
  /\ LET q == Head(queue) IN
     proc' = [proc EXCEPT ![w] =
                [pc |-> IF AtLeast(GetState(q.key), q.target) THEN "answer"
                          ELSE "space",
                 key |-> q.key, target |-> q.target, caller |-> q.caller,
                 obj |-> entries[q.key], torn |-> FALSE]]
  /\ UNCHANGED <<entries, obj, made, size, sync, closed, warm, hot, spoilt, left>>

\* primeWorker sees stopCh.
End(w) ==
  /\ proc[w].pc = "idle"
  /\ closed
  /\ Goto(w, "ended")
  /\ UNCHANGED <<entries, obj, made, size, queue, sync, closed, warm, hot, spoilt,
                 left>>

\* Mutant: the map is not told.
EvictKeepsEntry(E) ==
  LET of == {obj[o].key : o \in E}
      extracted == {obj[o].key : o \in {e \in E : obj[e].state = "Hot"}}
  IN
  /\ obj' = [o \in Object |-> IF o \in E THEN [obj[o] EXCEPT !.queued = FALSE]
                                ELSE obj[o]]
  /\ size' = size - SizeOf(E)
  /\ warm' = [k \in Key |-> IF k \in of THEN "none" ELSE warm[k]]
  /\ hot' = [k \in Key |-> IF k \in extracted THEN "none" ELSE hot[k]]
  /\ UNCHANGED entries

\* Eviction takes the files of an entry, and whatever the map holds for its key.
Evict(E) ==
  LET of == {obj[o].key : o \in E}
      extracted == {obj[o].key : o \in {e \in E : obj[e].state = "Hot"}}
  IN
  /\ obj' = [o \in Object |-> IF o \in E THEN [obj[o] EXCEPT !.queued = FALSE]
                                ELSE obj[o]]
  /\ size' = size - SizeOf(E)
  /\ entries' = [k \in Key |-> IF k \in of THEN 0 ELSE entries[k]]
  /\ warm' = [k \in Key |-> IF k \in of THEN "none" ELSE warm[k]]
  /\ hot' = [k \in Key |-> IF k \in extracted THEN "none" ELSE hot[k]]

\* ensureSpace: an error when only assigned entries are left to evict.
ensureSpace(w) ==
  /\ proc[w].pc = "space"
  /\ \E E \in Evictions(HotSize) :
       /\ Evict(E)
       /\ Goto(w, IF size' + HotSize > MaxSize /\ Queued # E THEN "answer"
                    ELSE IF proc[w].obj = 0 THEN "create" ELSE "open")
  /\ UNCHANGED <<made, queue, sync, closed, spoilt, left>>

\* Others that write the archive of w's key, or have just written it.
Archiving(w) ==
  {v \in Worker \ {w} : proc[v].key = proc[w].key
                          /\ proc[v].pc \in {"write", "publish"}}

\* createWarmArchive, to os.Create, which empties an archive that is there.
Create(w) ==
  /\ proc[w].pc = "create"
  /\ LET k == proc[w].key IN
     \/ /\ warm' = [warm EXCEPT ![k] = "partial"]
        /\ spoilt' = IF entries[k] # 0 \/ Archiving(w) # {} THEN spoilt \cup {k}
                       ELSE spoilt
        /\ Goto(w, "write")
        /\ UNCHANGED left
     \/ /\ Spend("failures")
        /\ Goto(w, "answer")
        /\ UNCHANGED <<warm, spoilt>>
  /\ UNCHANGED <<entries, obj, made, size, queue, sync, closed, hot>>

\* The rest of createWarmArchive: the archive is written, or removed on an
\* error of the copy.  The errors of the header writes and of the two deferred
\* closes are dropped, and what got to the disk is returned as an archive.  One
\* that was evicted under it stays without a name.
Write(w) ==
  LET k == proc[w].key
      Leave(content) ==
        warm' = [warm EXCEPT ![k] = IF @ = "none" THEN "none" ELSE content]
  IN
  /\ proc[w].pc = "write"
  /\ \/ Leave("whole") /\ Goto(w, "publish") /\ UNCHANGED <<spoilt, left>>
     \/ /\ Spend("failures")
        /\ \/ /\ warm' = [warm EXCEPT ![k] = "none"]
              /\ Goto(w, "answer")
              /\ UNCHANGED spoilt
           \/ /\ Leave("partial")
              /\ spoilt' = spoilt \cup {k}
              /\ Goto(w, "publish")
  /\ UNCHANGED <<entries, obj, made, size, queue, sync, closed, hot>>

\* doPrime records the archive, whatever the map holds by now.
Publish(w) ==
  /\ proc[w].pc = "publish"
  /\ made < MaxMade
  /\ made' = made + 1
  /\ obj' = [obj EXCEPT ![made'] = Entry(proc[w].key, WarmSize)]
  /\ entries' = [entries EXCEPT ![proc[w].key] = made']
  /\ size' = size + WarmSize
  /\ proc' = [proc EXCEPT ![w].obj = made',
                          ![w].pc = IF proc[w].target = "Hot" THEN "open"
                                      ELSE "answer"]
  /\ UNCHANGED <<queue, sync, closed, warm, hot, spoilt, left>>

\* doPrime after extractWarm: the size becomes that of the directory.  The
\* entry may have been evicted meanwhile.
Resize(w) ==
  /\ proc[w].pc = "resize"
  /\ LET o == proc[w].obj IN
     /\ size' = size + dirSize(obj[o].key) - obj[o].size
     /\ obj' = [obj EXCEPT ![o].state = "Hot", ![o].size = dirSize(obj[o].key)]
  /\ Goto(w, "answer")
  /\ UNCHANGED <<entries, made, queue, sync, closed, warm, hot, spoilt, left>>

\* primeWorker answers a PrimeSync; the channel has room.
Answer(w) ==
  /\ proc[w].pc = "answer"
  /\ sync' = [c \in Caller |-> IF c = proc[w].caller THEN "idle" ELSE sync[c]]
  /\ proc' = [proc EXCEPT ![w] = Idle]
  /\ UNCHANGED <<entries, obj, made, size, queue, closed, warm, hot, spoilt, left>>

-----------------------------------------------------------------------------
(* extractWarm, for a worker or a caller of Get *)

\* What follows extractWarm: doPrime sets the size, Get returns the path.
AfterExtract(p) == IF p \in Worker THEN "resize" ELSE "idle"

AfterError(p) == IF p \in Worker THEN "answer" ELSE "idle"

\* Who is extracting a key, or has just done so.
Extracting(k) ==
  {p \in Worker \cup Reader : proc[p].key = k /\ proc[p].pc \in {"extract", "mark"}}

\* It returns at once when the entry is hot; otherwise it opens the archive and
\* begins to write over what the directory holds.
Open(p) ==
  LET k == proc[p].key IN
  /\ proc[p].pc = "open"
  /\ \/ obj[proc[p].obj].state = "Hot" /\ Goto(p, AfterExtract(p)) /\ UNCHANGED hot
     \/ /\ obj[proc[p].obj].state # "Hot"
        /\ hot' = [hot EXCEPT ![k] = "partial"]
        /\ IF warm[k] = "none"
             THEN Goto(p, AfterError(p))
             ELSE proc' = [proc EXCEPT ![p].pc = "extract",
                                       ![p].torn = warm[k] = "partial"]
  /\ UNCHANGED <<entries, obj, made, size, queue, sync, closed, warm, spoilt, left>>

\* All files are written.  A directory that was evicted meanwhile comes back in
\* part.  An archive that is not whole may end like one that is: the files it
\* has are written, and what another extraction wrote stays.
Extract(p) ==
  LET k == proc[p].key
      torn == proc[p].torn \/ warm[k] = "partial"
  IN
  /\ proc[p].pc = "extract"
  /\ hot' = [hot EXCEPT ![k] =
               IF @ = "none" THEN "partial" ELSE IF torn THEN @ ELSE "whole"]
  /\ Goto(p, "mark")
  /\ UNCHANGED <<entries, obj, made, size, queue, sync, closed, warm, spoilt, left>>

\* An error on the way leaves what was written.
ExtractFails(p) ==
  LET k == proc[p].key IN
  /\ proc[p].pc = "extract"
  /\ \/ Spend("failures")
     \/ (proc[p].torn \/ warm[k] = "partial") /\ UNCHANGED left
  /\ hot' = [hot EXCEPT ![k] = "partial"]
  /\ spoilt' = IF GetState(k) = "Hot" \/ Extracting(k) # {p}
                 THEN spoilt \cup {k} ELSE spoilt
  /\ Goto(p, AfterError(p))
  /\ UNCHANGED <<entries, obj, made, size, queue, sync, closed, warm>>

\* The entry becomes hot, whether or not it is still in the cache.
Mark(p) ==
  /\ proc[p].pc = "mark"
  /\ obj' = [obj EXCEPT ![proc[p].obj].state = "Hot"]
  /\ Goto(p, AfterExtract(p))
  /\ UNCHANGED <<entries, made, size, queue, sync, closed, warm, hot, spoilt, left>>

-----------------------------------------------------------------------------

WorkerStep(w) ==
  \/ Take(w) \/ End(w) \/ ensureSpace(w) \/ Create(w) \/ Write(w)
  \/ Publish(w) \/ Resize(w) \/ Answer(w)

ExtractStep(p) == Open(p) \/ Extract(p) \/ ExtractFails(p) \/ Mark(p)

Next ==
  \/ Restart \/ Close
  \/ \E k \in Key, t \in {"Warm", "Hot"} :
       Prime(k, t) \/ \E c \in Caller : PrimeSync(c, k, t)
  \/ \E k \in Key, r \in Reader : Get(r, k)
  \/ \E k \in Key, b \in BOOLEAN : SetAssigned(k, b)
  \/ \E w \in Worker : WorkerStep(w)
  \/ \E p \in Worker \cup Reader : ExtractStep(p)

Spec == Init /\ [][Next]_vars

\* Goroutines go on.
Fairness ==
  /\ \A w \in Worker : WF_vars(WorkerStep(w))
  /\ \A p \in Worker \cup Reader : WF_vars(ExtractStep(p))

FairSpec == Spec /\ Fairness

-----------------------------------------------------------------------------
(* Properties *)

\* The cache says what the disk holds: while nobody works on a key, a warm
\* entry of the map has its archive and a hot one its whole directory, although
\* evictions and extractions of earlier entries for the key come in between.
\* Of four kinds of keys it says nothing: those that two workers primed at
\* once, whose half-written archive was found at start, whose extraction failed
\* beside another, or whose archive was cut short by an error nobody looked at.
MapTrue ==
  \A k \in Key \ spoilt :
    (entries[k] # 0 /\ \A p \in Worker \cup Reader :
                          proc[p].key = k => proc[p].pc \in {"idle", "ended"}) =>
      /\ warm[k] = "whole"
      /\ obj[entries[k]].state = "Hot" => hot[k] = "whole"

\* A bound of the model holds a worker back.
AtBound == made = MaxMade

\* Every PrimeSync is answered, whatever else the workers have to do, unless
\* the cache is closed.
PrimeAnswered ==
  \A c \in Caller : sync[c] = "waiting" ~> (sync[c] = "idle" \/ closed \/ AtBound)

=============================================================================

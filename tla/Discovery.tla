------------------------------ MODULE Discovery ------------------------------
(***************************************************************************)
(* Peer discovery of pkg/raft (discovery.go): nodes that announce          *)
(* themselves in files of a shared directory, or that a DNS name lists,    *)
(* and a node that joins the cluster through the peers it has found.       *)
(*                                                                         *)
(* Time passes in intervals of the discovery loop.  An announcement is     *)
(* written in place: a reader may find it empty.  A file that a reader     *)
(* found stale is removed a moment later, whatever it holds by then.       *)
(***************************************************************************)
EXTENDS Integers, FiniteSets

CONSTANTS
  Node,       \* the nodes that may run; a node's address stands for its ID
  Static,     \* the peers of the configuration, known by their addresses only
  Methods,    \* the methods of discovery that are configured
  Threshold,  \* staleThreshold, in intervals
  Attempts,   \* maxRetries of JoinWithDiscovery
  Budgets     \* bounds: how many starts, ends, crashes, missed rounds, torn
              \* reads, failed lookups and joins there may be

VARIABLES
  method,    \* DiscoveryConfig.Method
  running,   \* the nodes whose process runs
  age,       \* the age of the announcement of each node; Absent without one
  peers,     \* Discovery.peers of each node
  turn,      \* what the discovery loop of each node does next in this interval
  removing,  \* the files each node has found stale and is about to remove
  records,   \* what the DNS name lists
  join,      \* JoinWithDiscovery: the peers it has not tried, the attempts made
             \* at the present one, and how it ended
  left       \* what is left of the budget

vars == <<method, running, age, peers, turn, removing, records, join, left>>

Absent == -1
Oldest == Threshold + 1   \* ages above the threshold are alike

Spend(what) == left[what] > 0 /\ left' = [left EXCEPT ![what] = @ - 1]

NoJoin == [state |-> "none", peers |-> {}, at |-> {}, attempts |-> 0]

Init ==
  /\ method \in Methods
  /\ running = {}
  /\ age = [n \in Node |-> Absent]
  /\ peers = [n \in Node |-> Static]
  /\ turn = [n \in Node |-> "none"]
  /\ removing = [n \in Node |-> {}]
  /\ records = {}
  /\ join = [n \in Node |-> NoJoin]
  /\ left \in Budgets

-----------------------------------------------------------------------------

\* NewDiscovery and Start.
Start(n) ==
  /\ n \notin running
  /\ Spend("starts")
  /\ running' = running \cup {n}
  /\ peers' = [peers EXCEPT ![n] = Static]
  /\ turn' = [turn EXCEPT ![n] = IF method = "file" THEN "announce"
                                 ELSE IF method = "dns" THEN "discover" ELSE "none"]
  /\ UNCHANGED <<method, age, removing, records, join>>

Gone(n) ==
  /\ n \in running
  /\ running' = running \ {n}
  /\ peers' = [peers EXCEPT ![n] = {}]
  /\ turn' = [turn EXCEPT ![n] = "none"]
  /\ removing' = [removing EXCEPT ![n] = {}]
  /\ join' = [join EXCEPT ![n] = NoJoin]
  /\ UNCHANGED <<method, records>>

\* The loop ends with fileRemove.
Stop(n) ==
  /\ turn[n] = "wait" \/ method = "static"
  /\ Spend("stops")
  /\ Gone(n)
  /\ age' = IF method = "file" THEN [age EXCEPT ![n] = Absent] ELSE age

\* The process ends, and what it announced stays.
Crash(n) ==
  /\ Spend("crashes")
  /\ Gone(n)
  /\ UNCHANGED age

-----------------------------------------------------------------------------
(* The file method *)

\* fileAnnounce
fileAnnounce(n) ==
  /\ turn[n] = "announce"
  /\ age' = [age EXCEPT ![n] = 0]
  /\ turn' = [turn EXCEPT ![n] = "discover"]
  /\ UNCHANGED <<method, running, peers, removing, records, join, left>>

\* Mutant: an announcement never grows old.
StaleNever(a) == FALSE

Stale(a) == a > Threshold

\* fileDiscover.  The files in torn are read while they are written: such a file
\* cannot be parsed and its node is not seen.
fileDiscover(n, torn) ==
  LET found == {m \in Node : age[m] # Absent} \ torn
      stale == {m \in found : Stale(age[m])}
  IN
  /\ method = "file" /\ turn[n] = "discover"
  /\ torn \subseteq {m \in running \ {n} : age[m] # Absent}
  /\ Cardinality(torn) <= left.torn
  /\ left' = [left EXCEPT !.torn = @ - Cardinality(torn)]
  /\ peers' = [peers EXCEPT ![n] = (found \ stale) \ {n}]
  /\ removing' = [removing EXCEPT ![n] = stale]
  /\ turn' = [turn EXCEPT ![n] = "clean"]
  /\ UNCHANGED <<method, running, age, records, join>>

\* os.Remove of the files that were stale when they were read.
removeStale(n) ==
  /\ turn[n] = "clean"
  /\ age' = [m \in Node |-> IF m \in removing[n] THEN Absent ELSE age[m]]
  /\ removing' = [removing EXCEPT ![n] = {}]
  /\ turn' = [turn EXCEPT ![n] = "wait"]
  /\ UNCHANGED <<method, running, peers, records, join, left>>

\* The ticker of the loop.  A node that is held up misses its round.
Interval(late) ==
  /\ method # "static"
  /\ \A n \in running \ late : turn[n] = "wait"
  /\ late \subseteq running
  /\ Cardinality(late) <= left.missed
  /\ left' = [left EXCEPT !.missed = @ - Cardinality(late)]
  /\ age' = [n \in Node |-> IF age[n] \in {Absent, Oldest} THEN age[n] ELSE age[n] + 1]
  /\ turn' = [n \in Node |-> IF n \in running \ late
                               THEN IF method = "file" THEN "announce" ELSE "discover"
                               ELSE turn[n]]
  /\ UNCHANGED <<method, running, peers, removing, records, join>>

-----------------------------------------------------------------------------
(* The DNS method *)

\* The service lists the nodes that run.
Publish ==
  /\ method = "dns"
  /\ records # running
  /\ records' = running
  /\ UNCHANGED <<method, running, age, peers, turn, removing, join, left>>

\* dnsDiscover: what the lookup lists, oneself included.  A lookup that fails, or
\* finds nothing, changes nothing.
dnsDiscover(n) ==
  /\ method = "dns" /\ turn[n] = "discover"
  /\ \/ /\ peers' = [peers EXCEPT ![n] = IF records = {} THEN @ ELSE records]
        /\ UNCHANGED left
     \/ Spend("lookups") /\ UNCHANGED peers
  /\ turn' = [turn EXCEPT ![n] = "wait"]
  /\ UNCHANGED <<method, running, age, removing, records, join>>

-----------------------------------------------------------------------------
(* Joining *)

\* JoinWithDiscovery takes the peers once.
JoinWithDiscovery(n) ==
  /\ n \in running
  /\ join[n].state = "none"
  /\ Spend("joins")
  /\ join' = [join EXCEPT ![n] =
       [NoJoin EXCEPT !.state = IF peers[n] = {} THEN "failed" ELSE "trying",
                      !.peers = peers[n]]]
  /\ UNCHANGED <<method, running, age, peers, turn, removing, records>>

\* The next peer, in any order: the peers are a map.
NextPeer(n, p) ==
  /\ join[n].state = "trying" /\ join[n].at = {}
  /\ p \in join[n].peers
  /\ join' = [join EXCEPT ![n].at = {p}, ![n].peers = @ \ {p}, ![n].attempts = 0]
  /\ UNCHANGED <<method, running, age, peers, turn, removing, records, left>>

\* An attempt that failed: the same peer again, the next one, or none is left.
AfterAttempt(j) ==
  IF j.attempts + 1 < Attempts THEN [j EXCEPT !.attempts = @ + 1]
  ELSE IF j.peers # {} THEN [j EXCEPT !.at = {}, !.attempts = 0]
  ELSE [NoJoin EXCEPT !.state = "failed"]

\* The request is not answered, or not with success.  handleJoinCluster says 500
\* when its node does not lead, which is not the 503 that would end the attempts.
Refused(n) ==
  /\ join[n].state = "trying" /\ join[n].at # {}
  /\ join' = [join EXCEPT ![n] = AfterAttempt(@)]
  /\ UNCHANGED <<method, running, age, peers, turn, removing, records, left>>

\* A leader has proposed the node.
Accepted(n) ==
  /\ join[n].state = "trying" /\ join[n].at \subseteq running /\ join[n].at # {}
  /\ join' = [join EXCEPT ![n] = [NoJoin EXCEPT !.state = "joined"]]
  /\ UNCHANGED <<method, running, age, peers, turn, removing, records, left>>

\* The context of the call ends.
JoinTimeout(n) ==
  /\ join[n].state = "trying"
  /\ join' = [join EXCEPT ![n] = [NoJoin EXCEPT !.state = "failed"]]
  /\ UNCHANGED <<method, running, age, peers, turn, removing, records, left>>

-----------------------------------------------------------------------------

Round(n) ==
  fileAnnounce(n) \/ (\E torn \in SUBSET Node : fileDiscover(n, torn)) \/ removeStale(n)
                  \/ dnsDiscover(n)

Joining(n) == (\E p \in join[n].peers : NextPeer(n, p)) \/ Refused(n) \/ Accepted(n)

Next ==
  \/ \E n \in Node : Start(n) \/ Stop(n) \/ Crash(n) \/ Round(n)
  \/ \E n \in Node : JoinWithDiscovery(n) \/ Joining(n) \/ JoinTimeout(n)
  \/ \E late \in SUBSET running : Interval(late)
  \/ Publish

Spec == Init /\ [][Next]_vars

\* The loops go on, time passes, and requests are answered or time out.
Fairness ==
  /\ \A n \in Node : WF_vars(Round(n)) /\ WF_vars(Joining(n))
  /\ WF_vars(\E late \in SUBSET running : Interval(late))
  /\ WF_vars(Publish)

FairSpec == Spec /\ Fairness

-----------------------------------------------------------------------------
(* Properties *)

\* Once nodes neither start nor end, every running node comes to know exactly the
\* running ones and stays so: those that crashed grow stale, and a file that was
\* torn, late or removed by a slow reader comes back.
Listed ==
  method # "static" =>
    <>[](\A n \in running : peers[n] \ {n} = running \ {n})

\* A join ends by itself, after a bounded number of requests.
JoinEnds == \A n \in Node : []<>(join[n].state # "trying")

==============================================================================

----------------------------- MODULE MCProgress -----------------------------
(*****************************************************************************)
(* What a cluster comes to, for TLC: replication between three nodes, and the *)
(* discovery of peers.  A behaviour exercises one of them, and the other rests. *)
(*****************************************************************************)
EXTENDS RaftReplication

CONSTANTS n1, n2, n3

VARIABLES
  part,  \* the component that is exercised
  method, running, age, peers, turn, removing, records, join, discoveryLeft

ReplicationBudget(elections, proposals, losses, ends) ==
  [elections |-> elections, rpcs |-> 1, proposals |-> proposals, losses |-> losses,
   crashes |-> ends, compactions |-> 0, unwon |-> 0]

\* n campaigns, with any vote or with that of p.
Any(n) == {<<n, Q>> : Q \in Quorum}
With(n, p) == {<<n, {n, p}>>}

ReplicationBudgets ==
  {ReplicationBudget(<<Any(n1), Any(n2)>>, 0, 0, 0),
   ReplicationBudget(<<With(n1, n2), With(n2, n3)>>, 0, 1, 0),
   ReplicationBudget(<<With(n1, n2), With(n2, n3)>>, 0, 0, 1)}

\* The logs of n1, n2 and n3 when all processes have ended and begin again: n1
\* led, and ended with an entry that it had sent to nobody; n2 led after it with
\* the vote of n3, and ended as well.  They part after an entry that n2 has; at
\* the beginning; and after an entry of a term before the one that n1 led last.
Parted == {<< <<1, 1>>, <<1, 2>>, <<1>> >>, << <<1>>, <<2>>, <<>> >>,
           << <<1, 2>>, <<1, 3>>, <<1>> >>}

PartedBudget(proposals, losses) ==
  ReplicationBudget(<<With(n2, n3)>>, proposals, losses, 0)

DiscoveryBudget(starts, stops, faults, lookups, joins) ==
  [starts |-> starts, stops |-> stops, crashes |-> faults, missed |-> faults,
   torn |-> faults, lookups |-> lookups, joins |-> joins]

DiscoveryBudgets == {DiscoveryBudget(3, 0, 1, 0, 0), DiscoveryBudget(2, 1, 0, 1, 1)}

-----------------------------------------------------------------------------

Discovery == INSTANCE Discovery WITH
    Node <- {n1, n2}, Static <- {n3}, Methods <- {"static", "dns", "file"},
    Threshold <- 3, Attempts <- 3, Budgets <- DiscoveryBudgets,
    left <- discoveryLeft

discoveryVars == <<method, running, age, peers, turn, removing, records,
                   join, discoveryLeft>>

allVars == <<part, vars, discoveryVars>>

\* A component that is not exercised rests in one of its initial states.
Rests(p, x, S) == part # p => x = CHOOSE y \in S : TRUE

\* The cluster begins again with the logs that its nodes have on disk.
Again(logs) ==
  LET node == <<n1, n2, n3>>
      of(n) == logs[CHOOSE i \in 1..3 : node[i] = n]
  IN
  /\ term = [n \in Node |-> LastTerm([NewLog EXCEPT !.entries = IF n = n1 THEN of(n1) ELSE of(n2)])]
  /\ log = [n \in Node |-> [NewLog EXCEPT !.entries = of(n)]]
  /\ leads = [n \in Node |-> FALSE]
  /\ commit = [n \in Node |-> 0] /\ applied = [n \in Node |-> 0]
  /\ fsm = [n \in Node |-> <<>>]
  /\ next = [n \in Node |-> NoNext] /\ match = [n \in Node |-> NoMatch]
  /\ rpc = {} /\ chosen = <<>> /\ harm = {}

SumInit ==
  /\ part \in {"replication", "discovery"}
  /\ \/ Init
     \/ /\ part = "replication"
        /\ \E logs \in Parted : Again(logs)
        /\ left \in {PartedBudget(1, 0), PartedBudget(0, 1)}
  /\ Discovery!Init
  /\ Rests("replication", left, ReplicationBudgets)
  /\ Rests("discovery", discoveryLeft, DiscoveryBudgets)
  /\ Rests("discovery", method, {"static", "dns", "file"})

SumNext ==
  \/ /\ part = "replication" /\ Next
     /\ UNCHANGED <<part, discoveryVars>>
  \/ /\ part = "discovery" /\ Discovery!Next
     /\ UNCHANGED <<part, vars>>

\* The fairness of each component, while it is the one exercised.
SumFairness ==
  /\ \A n \in Node : \A p \in Node \ {n} :
       /\ SF_vars(part = "replication" /\ sendHeartbeats(n, p))
       /\ WF_vars(part = "replication" /\ \E r \in Between(n, p) : RPCStep(r))
  /\ \A n \in Node : WF_vars(part = "replication" /\ applyCommitted(n))
  /\ \A n \in {n1, n2} :
       /\ WF_discoveryVars(part = "discovery" /\ Discovery!Round(n))
       /\ WF_discoveryVars(part = "discovery" /\ Discovery!Joining(n))
  /\ WF_discoveryVars(part = "discovery" /\ \E late \in SUBSET running : Discovery!Interval(late))
  /\ WF_discoveryVars(part = "discovery" /\ Discovery!Publish)

SumSpec == SumInit /\ [][SumNext]_allVars /\ SumFairness

-----------------------------------------------------------------------------
(* Properties *)

\* discovery.go: once nodes neither start nor end, every running node comes to
\* know exactly the running ones, although some crashed and files were torn,
\* late or removed by a slow reader; and a join (JoinWithDiscovery) ends by
\* itself, after a bounded number of requests.
PeersFound == Discovery!Listed /\ Discovery!JoinEnds

=============================================================================

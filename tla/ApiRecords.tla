----------------------------- MODULE ApiRecords -----------------------------
(***************************************************************************)
(* Secrets and custom runtimes, the two tables that clients fill and empty *)
(* by themselves: the handlers of pkg/api/server.go and pkg/api/runtimes.go*)
(* over the tables of pkg/store/store.go.  Each handler is one statement,  *)
(* except the update of a runtime, which reads the row, decodes the body   *)
(* and writes the row back, while other requests come and go.              *)
(***************************************************************************)
EXTENDS Naturals, FiniteSets

CONSTANTS Namespace, Name, Value,  \* Value: contents of a record
          Request, Budgets

VARIABLES secrets,   \* the secrets table: contents by namespace and name
          runtimes,  \* the runtimes table: namespace and contents by id
          req,       \* the requests
          gone,      \* the runtimes whose deletion was acknowledged
          left       \* how many requests fail

vars == <<secrets, runtimes, req, gone, left>>

Key == [ns : Namespace, name : Name]

\* No row, no value.
Nothing == "nothing"

Ops == {"create", "get", "list", "update", "delete"}

NewRequest == [pc |-> "idle", table |-> "secrets", op |-> "get",
               key |-> CHOOSE k \in Key : TRUE, body |-> Nothing, answer |-> "none"]

TypeOK ==
    /\ secrets \in [Key -> Value \cup {Nothing}]
    /\ runtimes \in [Name -> [ns : Namespace \cup {Nothing}, value : Value \cup {Nothing}]]
    /\ req \in [Request -> [pc : {"idle", "decode", "write", "done"},
                            table : {"secrets", "runtimes"}, op : Ops, key : Key,
                            body : Value \cup {Nothing},
                            answer : {"none", "ok", "created", "bad request", "not found",
                                      "conflict", "error"}]]
    /\ gone \subseteq Key

NoRuntime == [ns |-> Nothing, value |-> Nothing]

Init ==
    /\ secrets = [k \in Key |-> Nothing]
    /\ runtimes = [n \in Name |-> NoRuntime]
    /\ req = [r \in Request |-> NewRequest]
    /\ gone = {}
    /\ left \in Budgets

Answer(r, q, a) == req' = [req EXCEPT ![r] = [q EXCEPT !.pc = "done", !.answer = a]]

\* A statement may fail.
Fails(r, q) ==
    /\ left.failures > 0
    /\ left' = [left EXCEPT !.failures = @ - 1]
    /\ Answer(r, q, "error")
    /\ UNCHANGED <<secrets, runtimes, gone>>

-----------------------------------------------------------------------------
(* Secrets.                                                                *)

\* UNIQUE(namespace, name).
CreateSecret(r, q) ==
    /\ IF secrets[q.key] = Nothing
         THEN /\ secrets' = [secrets EXCEPT ![q.key] = q.body]
              /\ Answer(r, q, "created")
         ELSE /\ Answer(r, q, "conflict")
              /\ UNCHANGED secrets
    /\ UNCHANGED <<runtimes, gone, left>>

GetSecret(r, q) ==
    /\ Answer(r, q, IF secrets[q.key] = Nothing THEN "not found" ELSE "ok")
    /\ UNCHANGED <<secrets, runtimes, gone, left>>

ListSecrets(r, q) ==
    /\ Answer(r, q, "ok")
    /\ UNCHANGED <<secrets, runtimes, gone, left>>

DeleteSecret(r, q) ==
    /\ Answer(r, q, IF secrets[q.key] = Nothing THEN "not found" ELSE "ok")
    /\ secrets' = [secrets EXCEPT ![q.key] = Nothing]
    /\ UNCHANGED <<runtimes, gone, left>>

\* A body the handler refuses: no name, a name or a namespace that is not valid.
handleSecret(r, q) ==
    /\ q.table = "secrets"
    /\ q.op # "update"
    /\ \/ /\ q.op = "create" /\ q.body = Nothing
          /\ Answer(r, q, "bad request")
          /\ UNCHANGED <<secrets, runtimes, gone, left>>
       \/ q.op = "create" /\ q.body # Nothing /\ CreateSecret(r, q)
       \/ q.op = "get" /\ GetSecret(r, q)
       \/ q.op = "list" /\ ListSecrets(r, q)
       \/ q.op = "delete" /\ DeleteSecret(r, q)
       \/ Fails(r, q)

-----------------------------------------------------------------------------
(* Runtimes.                                                               *)

\* The runtime of this id, where it is of this namespace.
Stored(k) == runtimes[k.name].ns = k.ns

\* The id alone is the primary key.
CreateRuntime(r, q) ==
    /\ IF runtimes[q.key.name] = NoRuntime
         THEN /\ runtimes' = [runtimes EXCEPT ![q.key.name] = [ns |-> q.key.ns, value |-> q.body]]
              /\ gone' = gone \ {q.key}
              /\ Answer(r, q, "created")
         ELSE /\ Answer(r, q, "conflict")
              /\ UNCHANGED <<runtimes, gone>>
    /\ UNCHANGED <<secrets, left>>

GetRuntime(k) == IF Stored(k) THEN "ok" ELSE "not found"

ListRuntimes(r, q) ==
    /\ Answer(r, q, "ok")
    /\ UNCHANGED <<secrets, runtimes, gone, left>>

\* Mutant of UpdateRuntime: the row is replaced, or made.
UpdateRuntimeReplaces(q) == [runtimes EXCEPT ![q.key.name] = [ns |-> q.key.ns, value |-> q.body]]

\* UPDATE ... WHERE namespace = ? AND id = ?.
UpdateRuntime(q) ==
    IF Stored(q.key) THEN [runtimes EXCEPT ![q.key.name].value = q.body] ELSE runtimes

DeleteRuntime(q) ==
    IF Stored(q.key) THEN [runtimes EXCEPT ![q.key.name] = NoRuntime] ELSE runtimes

handleCreateRuntime(r, q) ==
    /\ q.op = "create"
    /\ IF q.body = Nothing
         THEN /\ Answer(r, q, "bad request")
              /\ UNCHANGED <<secrets, runtimes, gone, left>>
         ELSE CreateRuntime(r, q)

handleGetRuntime(r, q) ==
    /\ q.op = "get"
    /\ Answer(r, q, GetRuntime(q.key))
    /\ UNCHANGED <<secrets, runtimes, gone, left>>

\* The row is read; the body is decoded after it.
handleUpdateRuntime(r, q) ==
    /\ q.op = "update"
    /\ IF GetRuntime(q.key) = "ok"
         THEN req' = [req EXCEPT ![r] = [q EXCEPT !.pc = "decode"]]
         ELSE Answer(r, q, "not found")
    /\ UNCHANGED <<secrets, runtimes, gone, left>>

Decode(r) ==
    /\ req[r].pc = "decode"
    /\ IF req[r].body = Nothing THEN Answer(r, req[r], "bad request")
       ELSE req' = [req EXCEPT ![r].pc = "write"]
    /\ UNCHANGED <<secrets, runtimes, gone, left>>

\* A runtime deleted since it was read is an error of the server.
WriteBack(r) ==
    /\ req[r].pc = "write"
    /\ \/ /\ runtimes' = UpdateRuntime(req[r])
          /\ Answer(r, req[r], IF Stored(req[r].key) THEN "ok" ELSE "error")
          /\ UNCHANGED <<secrets, gone, left>>
       \/ Fails(r, req[r])

handleDeleteRuntime(r, q) ==
    /\ q.op = "delete"
    /\ Answer(r, q, GetRuntime(q.key))
    /\ runtimes' = DeleteRuntime(q)
    /\ gone' = IF Stored(q.key) THEN gone \cup {q.key} ELSE gone
    /\ UNCHANGED <<secrets, left>>

handleRuntime(r, q) ==
    /\ q.table = "runtimes"
    /\ \/ handleCreateRuntime(r, q) \/ handleGetRuntime(r, q)
       \/ q.op = "list" /\ ListRuntimes(r, q)
       \/ handleUpdateRuntime(r, q) \/ handleDeleteRuntime(r, q)
       \/ Fails(r, q)

Arrive(r) ==
    /\ req[r].pc = "idle"
    /\ \E table \in left.tables, op \in Ops, k \in Key, body \in Value \cup {Nothing} :
         LET q == [req[r] EXCEPT !.table = table, !.op = op, !.key = k, !.body = body] IN
         /\ body # Nothing => op \in {"create", "update"}
         /\ handleSecret(r, q) \/ handleRuntime(r, q)

Next == \E r \in Request : Arrive(r) \/ Decode(r) \/ WriteBack(r)

Spec == Init /\ [][Next]_vars

-----------------------------------------------------------------------------
(* Properties.                                                             *)

\* A runtime whose deletion was acknowledged is gone until it is created
\* again, although an update that read it before writes it back afterwards
\* (runtimes.go:161, :210).
DeletedStaysGone == \A k \in gone : ~ Stored(k)

=============================================================================

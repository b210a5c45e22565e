----------------------------- MODULE ApiTokens ------------------------------
(***************************************************************************)
(* Requests to the API and the tokens they carry: the middleware of        *)
(* pkg/api/server.go, Authenticate of pkg/api/auth.go, the handlers of     *)
(* pkg/api/tokens.go with the roles of pkg/auth, and the tokens table of   *)
(* pkg/store/store.go.                                                     *)
(*                                                                         *)
(* A request reads its token once, compares hashes for a while, judges the *)
(* copy it read and then acts: between these steps other requests revoke,  *)
(* delete and create tokens, and time goes by.  An id and its secret are   *)
(* random and belong together: one model value stands for both.            *)
(***************************************************************************)
EXTENDS Naturals, FiniteSets

CONSTANTS Token,     \* tokens, created or not
          Request,   \* requests
          Budgets    \* bounds on what the environment does, see Init

VARIABLES table,     \* the rows of the tokens table
          apiKey,    \* whether the server was given the legacy key
          req,       \* the requests
          expired,   \* the tokens whose expiry time has gone by
          late,      \* whether a token that had ended acted on another
          left       \* what the environment may still do

vars == <<table, apiKey, req, expired, late, left>>

Roles == {"admin", "developer", "viewer"}

\* The requests that reach a handler of tokens.go, and all the others.
Ops == {"list", "get", "create", "revoke", "delete", "other", "public"}

\* A token is none of the words that stand for the lack of one, and the budgets
\* are of the form that Init takes them in.
ASSUME TokensAssumption ==
  /\ Token \cap {"none", "legacy", "unknown", "nobody"} = {}
  /\ Budgets \subseteq [ops : SUBSET Ops, limits : Nat, failures : Nat,
                        creates : Nat, expiries : Nat]

\* What the Authorization header holds: nothing, the legacy key, a token's
\* secret, or a secret of no token.
Credentials == Token \cup {"none", "legacy", "unknown"}

\* rolePermissions and Role.Can, for the tokens: only an administrator's
\* role lists them, with every action.
Can(role, action) == role = "admin" /\ action \in {"list", "get", "create", "revoke", "delete"}

\* The copy of a token that a request works with.
NoToken == [id |-> "nobody", role |-> "viewer", expires |-> FALSE]

Legacy == [id |-> "legacy", role |-> "admin", expires |-> FALSE]

NewRequest == [pc |-> "idle", cred |-> "none", op |-> "other", target |-> "nobody",
               as |-> NoToken, ended |-> FALSE, answer |-> "none"]

Rows == {t \in Token : table[t].row = "stored"}

NoRow == [row |-> "unused", role |-> "viewer", expires |-> FALSE, revoked |-> FALSE]

TypeOK ==
    /\ table \in [Token -> [row : {"unused", "stored", "deleted"}, role : Roles,
                            expires : BOOLEAN, revoked : BOOLEAN]]
    /\ apiKey \in BOOLEAN
    /\ req \in [Request -> [pc : {"idle", "look", "judge", "handle", "count", "done"},
                            cred : Credentials, op : Ops, target : Token \cup {"nobody"},
                            as : [id : Token \cup {"nobody", "legacy"}, role : Roles,
                                  expires : BOOLEAN],
                            ended : BOOLEAN,
                            answer : {"none", "ok", "empty", "created", "bad request", "unauthorized",
                                      "forbidden", "not found",
                                      "too many", "error"}]]
    /\ expired \subseteq Token
    /\ late \in BOOLEAN

\* The table holds some administrators; how the first came to be is outside.
Init ==
    /\ \E admins \in SUBSET Token, expiring \in SUBSET Token :
         /\ admins # {}
         /\ Cardinality(admins) <= 2
         /\ expiring \subseteq admins
         /\ table = [t \in Token |->
                       IF t \in admins
                         THEN [row |-> "stored", role |-> "admin", expires |-> t \in expiring,
                               revoked |-> FALSE]
                         ELSE NoRow]
    /\ apiKey \in BOOLEAN
    /\ req = [r \in Request |-> NewRequest]
    /\ expired = {}
    /\ late = FALSE
    /\ left \in Budgets

Spend(what) ==
    /\ left[what] > 0
    /\ left' = [left EXCEPT ![what] = @ - 1]

\* A token that no longer opens the API.
Ended(t) == t \notin Rows \/ table[t].revoked \/ t \in expired

-----------------------------------------------------------------------------
(* The middleware.                                                         *)

Answer(r, a) == req' = [req EXCEPT ![r].pc = "done", ![r].answer = a, ![r].as = NoToken]

\* A secret and an id are known once their token was created.
Known == {t \in Token : table[t].row # "unused"}

\* A request arrives; its client may be over its rate, and the public
\* endpoints ask for no token.
Arrive(r) ==
    /\ req[r].pc = "idle"
    /\ \E cred \in Known \cup {"none", "legacy", "unknown"}, op \in left.ops,
          target \in Known \cup {"nobody"} :
         /\ target \in Token <=> op \in {"get", "revoke", "delete"}
         /\ LET new == [req[r] EXCEPT !.cred = cred, !.op = op, !.target = target,
                                   !.ended = cred \in Token /\ Ended(cred)] IN
            \/ /\ req' = [req EXCEPT ![r] = [new EXCEPT !.pc = "done", !.answer = "too many"]]
               /\ Spend("limits")
            \/ /\ op = "public"
               /\ req' = [req EXCEPT ![r] = [new EXCEPT !.pc = "done", !.answer = "ok"]]
               /\ UNCHANGED left
            \/ /\ op # "public"
               /\ req' = [req EXCEPT ![r] = [new EXCEPT !.pc = "look"]]
               /\ UNCHANGED left
    /\ UNCHANGED <<table, apiKey, expired, late>>

\* The copies GetTokenBySecret finds: the rows that are not revoked, whose
\* hash matches.
GetTokenBySecret(secret) ==
    {[id |-> t, role |-> table[t].role, expires |-> table[t].expires] :
       t \in {x \in Rows : x = secret /\ ~ table[x].revoked}}

\* Authenticate, up to the end of the query.
Look(r) ==
    /\ req[r].pc = "look"
    /\ \/ /\ req' = [req EXCEPT ![r].pc = "judge",
                                ![r].as = IF req[r].cred = "legacy" /\ apiKey THEN Legacy
                                          ELSE IF GetTokenBySecret(req[r].cred) = {} THEN NoToken
                                          ELSE CHOOSE c \in GetTokenBySecret(req[r].cred) : TRUE]
          /\ UNCHANGED left
       \/ /\ req[r].cred \in Token \cup {"unknown"}
          /\ Spend("failures")
          /\ Answer(r, "error")
    /\ UNCHANGED <<table, apiKey, expired, late>>

\* Mutant of IsExpired: an expiry time that has gone by is not looked at.
IsExpiredNever(copy) == FALSE

\* The expiry of the copy, against the clock of now.
IsExpired(copy) == copy.expires /\ copy.id \in expired

\* Authenticate's verdict on the copy, and what the middleware makes of it:
\* a token that does not open the API is refused, a request without one is
\* let through when no key was configured.
Judge(r) ==
    /\ req[r].pc = "judge"
    /\ LET nobody == req[r].as = NoToken \/ IsExpired(req[r].as) IN
       IF nobody /\ (req[r].cred # "none" \/ apiKey)
         THEN Answer(r, "unauthorized")
         ELSE req' = [req EXCEPT ![r].pc = "handle", ![r].as = IF nobody THEN NoToken ELSE @]
    /\ UNCHANGED <<table, apiKey, expired, late, left>>

-----------------------------------------------------------------------------
(* The handlers of tokens.go, each behind its role.                        *)

Allowed(r, op) ==
    /\ req[r].pc = "handle"
    /\ req[r].op = op
    /\ req[r].as # NoToken
    /\ Can(req[r].as.role, op)

\* Whether the token a request acts with has ended since it was read.
Outlived(r) == req[r].as.id \in Token /\ Ended(req[r].as.id)

Forbid(r) ==
    /\ req[r].pc = "handle"
    /\ req[r].op \in {"list", "get", "create", "revoke", "delete"}
    /\ ~ Allowed(r, req[r].op)
    /\ Answer(r, "forbidden")
    /\ UNCHANGED <<table, apiKey, expired, late, left>>

\* A handler of another file: it looks at no role.
Other(r) ==
    /\ req[r].pc = "handle"
    /\ req[r].op = "other"
    /\ Answer(r, "ok")
    /\ UNCHANGED <<table, apiKey, expired, late, left>>

\* A list holds the revoked and the expired tokens too.
ListTokens(role) == {t \in Rows : table[t].role = role}

\* The list may be of one role; an empty page is an answer like another.
handleListTokens(r) ==
    /\ Allowed(r, "list")
    /\ Answer(r, IF \E role \in Roles : ListTokens(role) # {} THEN "ok" ELSE "empty")
    /\ UNCHANGED <<table, apiKey, expired, late, left>>

\* A row by its id, whatever its state.
GetToken(t) == IF t \in Rows THEN "ok" ELSE "not found"

handleGetToken(r) ==
    /\ Allowed(r, "get")
    /\ Answer(r, GetToken(req[r].target))
    /\ UNCHANGED <<table, apiKey, expired, late, left>>

\* The new token is a value no one has seen.
GenerateToken == Token \ Known

CreateToken(t, role, expires) ==
    table' = [table EXCEPT ![t] = [row |-> "stored", role |-> role, expires |-> expires,
                                   revoked |-> FALSE]]

\* The body may be refused: no name, no role, an unknown role, no namespace,
\* every namespace for a role that may not have them, a bad duration.
handleCreateToken(r) ==
    /\ Allowed(r, "create")
    /\ \/ /\ Answer(r, "bad request")
          /\ UNCHANGED <<table, left>>
       \/ \E t \in GenerateToken, role \in Roles, expires \in BOOLEAN :
            /\ Spend("creates")
            /\ CreateToken(t, role, expires)
            /\ Answer(r, "created")
    /\ UNCHANGED <<apiKey, expired, late>>

\* A request acts on another token; remember whether its own had ended.
Acted(r) == late' = (late \/ Outlived(r))

\* UPDATE ... WHERE id = ? AND revoked_at IS NULL.
RevokeToken(t) ==
    LET hit == t \in Rows /\ ~ table[t].revoked IN
    [rows |-> IF hit THEN 1 ELSE 0,
     table |-> [table EXCEPT ![t].revoked = hit \/ @]]

handleRevokeToken(r) ==
    /\ Allowed(r, "revoke")
    /\ IF req[r].target = req[r].as.id
         THEN /\ Answer(r, "bad request")
              /\ UNCHANGED <<table, late>>
         ELSE LET res == RevokeToken(req[r].target) IN
              /\ table' = res.table
              /\ Acted(r)
              /\ IF res.rows = 1 THEN Answer(r, "ok")
                 ELSE req' = [req EXCEPT ![r].pc = "count"]
    /\ UNCHANGED <<apiKey, expired, left>>

\* No row was revoked: a second statement asks whether there is one at all.
\* The handler looks for another text than that of ErrAlreadyRevoked, so the
\* answer is the same.
Count(r) ==
    /\ req[r].pc = "count"
    /\ Answer(r, "not found")
    /\ UNCHANGED <<table, apiKey, expired, late, left>>

\* Mutant of Own: a request may delete the token it came with.
OwnIgnored(r) == FALSE

\* The token a request came with is not its to delete.
Own(r) == req[r].target = req[r].as.id

\* DELETE ... WHERE id = ?.
DeleteToken(t) == table' = [table EXCEPT ![t].row = "deleted"]

handleDeleteToken(r) ==
    /\ Allowed(r, "delete")
    /\ IF Own(r)
         THEN /\ Answer(r, "bad request")
              /\ UNCHANGED <<table, late>>
         ELSE /\ DeleteToken(req[r].target)
              /\ Acted(r)
              /\ Answer(r, GetToken(req[r].target))
    /\ UNCHANGED <<apiKey, expired, left>>

\* The store fails a handler: 500, and 404 where tokens.go takes every error
\* for a missing token.
Fail(r) ==
    /\ \E op \in {"list", "get", "create", "revoke", "delete"} :
         /\ Allowed(r, op)
         /\ Answer(r, IF op \in {"list", "create"} THEN "error" ELSE "not found")
    /\ Spend("failures")
    /\ UNCHANGED <<table, apiKey, expired, late>>

\* Time goes by.
Expire(t) ==
    /\ t \notin expired
    /\ t \in Rows /\ table[t].expires
    /\ Spend("expiries")
    /\ expired' = expired \cup {t}
    /\ UNCHANGED <<table, apiKey, req, late>>

Next ==
    \/ \E r \in Request :
         \/ Arrive(r) \/ Look(r) \/ Judge(r) \/ Forbid(r) \/ Other(r) \/ Fail(r)
         \/ handleListTokens(r) \/ handleGetToken(r) \/ handleCreateToken(r)
         \/ handleRevokeToken(r) \/ Count(r) \/ handleDeleteToken(r)
    \/ \E t \in Token : Expire(t)

Spec == Init /\ [][Next]_vars

-----------------------------------------------------------------------------
(* Properties.                                                             *)

\* A request that arrives with a token that was revoked, deleted or has
\* expired is never served, although the token is read before the hashes are
\* compared and judged after (auth.go:63, :85).
EndedRefused ==
    \A r \in Request : req[r].ended
        => ~ (req[r].pc \in {"handle", "count"}
              \/ (req[r].op # "public" /\ req[r].answer \in {"ok", "created"}))

\* Whoever can still manage tokens: the legacy key, or an administrator's
\* token that has not ended.
Managers == {t \in Rows : table[t].role = "admin" /\ ~ Ended(t)}
              \cup (IF apiKey THEN {"legacy"} ELSE {})

\* The tokens cannot all be lost by revoking and deleting: a request cannot
\* end its own (tokens.go:254, :292).  Only the clock, or a request that was
\* let in before its own token was ended, takes the last one.
ManagerRemains == Managers = {} => expired # {} \/ late

=============================================================================

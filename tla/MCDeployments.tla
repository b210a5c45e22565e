--------------------------- MODULE MCDeployments ---------------------------
(* A small instance of Deployments for TLC. *)
EXTENDS Deployments

CONSTANTS h1, h2

Two == {h1, h2}

Always == {"always"}

Every == {"create", "update", "scale", "delete"}

\* Two requests of every kind for a new deployment, and one for a deployment
\* that the server finds running when it starts.
Some == {[found |-> "none", kinds |-> [h \in Two |-> Every]],
         [found |-> "Running", kinds |-> [h \in Two |-> IF h = h1 THEN Every ELSE {}]]}

=============================================================================

--------------------------- MODULE MCInvestigation ---------------------------
(* An instance of Investigation for TLC.                                     *)
EXTENDS Investigation, TLC

CONSTANTS served, unserved,    \* an incident whose selectors are complete, and
                               \*   one without a security group
          x1, x2, y, z         \* evidence

MCBindings == <<"context", "logs", "changes">>
MCSelectors == [b \in {"context", "logs", "changes"} |->
                   IF b = "changes" THEN {"security_group_id"} ELSE {"endpoint_id"}]
MCKnown == served :> {"endpoint_id", "security_group_id"} @@ unserved :> {"endpoint_id"}

\* The topology changes between two queries, the audit event may be late.
MCEvidence == "context" :> {x1, x2} @@ "logs" :> {y} @@ "changes" :> {z}

Interchangeable == Permutations(Attempts)

=============================================================================

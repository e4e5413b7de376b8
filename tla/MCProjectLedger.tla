--------------------------- MODULE MCProjectLedger --------------------------
(***************************************************************************)
(* Small projects.  b is the baseline; w and v need it and write the       *)
(* thread; w2 is the successor revision of w; u uses an operation the      *)
(* basis guard does not list; m is a human impact decision and q           *)
(* reconciles an uncertain write.                                          *)
(***************************************************************************)
EXTENDS ProjectLedger, FiniteSets, TLC

OperationOf(w) ==
    CASE w = "b" -> "baseline"
      [] w \in {"w", "w2", "v"} -> "writer"
      [] w = "u" -> "unlisted"
      [] w = "m" -> "impact"
      [] w = "q" -> "reconcile"

MCOperation == [w \in WorkItems |-> OperationOf(w)]
MCDependsOn == [w \in WorkItems |->
    IF w = "b" THEN {}
    ELSE IF w = "v" THEN {"w"}
    ELSE {"b"}]
MCDecisionIds == [w \in WorkItems |->
    IF w = "q" THEN {"dq"} ELSE IF w = "m" THEN {"dm"} ELSE {}]
MCPredecessor == [w \in WorkItems |-> IF w = "w2" THEN "w" ELSE None]
MCAdditive == WorkItems \cap {"m", "w2"}

(* A project holds one of these portfolios, not every item at once, grows  *)
(* to so many thread revisions and queues so many runs.                    *)
Portfolios ==
    {[items |-> {"b", "w", "u"}, revisions |-> 3, runs |-> 4],
     [items |-> {"b", "w", "m"}, revisions |-> 3, runs |-> 4],
     [items |-> {"b", "w", "q"}, revisions |-> 2, runs |-> 4],
     [items |-> {"b", "w", "w2", "q"}, revisions |-> 2, runs |-> 3],
     [items |-> {"b", "w", "w2", "v"}, revisions |-> 3, runs |-> 4]}

OnePortfolio ==
    \E p \in Portfolios :
        /\ {w \in WorkItems : Declared(w)} \subseteq p.items
        /\ stored \subseteq 1 .. p.revisions
        /\ Cardinality({r \in Runs : run[r].status # "absent"}) <= p.runs

RunSymmetry == Permutations(Runs)
=============================================================================

----------------------------- MODULE MCDevQueue -----------------------------
(* The dev queue on small instances. *)
EXTENDS DevQueueLifecycle, TLC

AllShipGates == BOOLEAN \X BOOLEAN
NoShipGates == {<<FALSE, FALSE>>}

(* Whether a result charges the attempt only matters to some of them.      *)
EveryResult ==
    {res \in Result : res.unproductive \/ res.kind \in
        {"approval", "paused", "merge_pending", "unknown", "regress", "failure"}}

(* A result that names no stage is routed like one that names the row's    *)
(* stage, and a failure leaves every row an unknown, merge_pending,        *)
(* must_fix or stale result leaves, and those of an uncharged regress.     *)
EveryOutcome ==
    {res \in EveryResult :
        /\ res.reached # 0
        /\ res.kind \notin {"unknown", "merge_pending", "must_fix", "stale"}
        /\ res.kind = "regress" => res.unproductive}

(* One result per outcome the other rows of a ticket can notice: it moves  *)
(* its own row forward, parks it or finishes it.                           *)
FewResults == [kind: {"success", "no_op"}, reached: {0}, unproductive: {TRUE}]

ClientSymmetry == Permutations(Clients)
=============================================================================

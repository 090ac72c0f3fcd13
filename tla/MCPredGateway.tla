---------------------------- MODULE MCPredGateway ----------------------------
(* Model values, symmetry and allowances for the runs of PredGateway. *)
EXTENDS PredGateway, TLC

CONSTANTS c1, c2, i1, i2, w1, w2, PredCalls, SolveCalls

MCClient == {c1, c2}
MCOneClient == {c1}
MCId == {i1, i2}
MCOneId == {i1}
MCWorker == {w1, w2}

MCAllowance ==
  [n \in Counter |-> CASE n = "pred_calls" -> PredCalls
                       [] n = "solve_calls" -> SolveCalls
                       [] OTHER -> 0]

(* Clients, ids and workers are interchangeable; used for safety only. *)
GatewaySymmetry ==
  Permutations(MCClient) \cup Permutations(MCId) \cup Permutations(MCWorker)

=============================================================================

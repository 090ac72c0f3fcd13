---------------------------- MODULE MCEpisodeLedger ----------------------------
(* An instance of EpisodeLedger: small allowances in the benchmark's order
   (fewer generations than actions, twice as many pred calls as actions). *)
EXTENDS EpisodeLedger, TLC

CONSTANTS Generations, Actions, PredCalls, SolveCalls

MCAllowance ==
  "model_generations" :> Generations @@ "shell_actions" :> Actions
    @@ "pred_calls" :> PredCalls @@ "solve_calls" :> SolveCalls

Symmetry == Permutations(Call)

=============================================================================

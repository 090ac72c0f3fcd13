------------------------------- MODULE Verifier -------------------------------
(***************************************************************************)
(* The certificate verifier (benchmark/verify.py): one run of verify() over *)
(* a certificate that names a source instance, a rule and, optionally, one  *)
(* solution of the target instance.  It re-derives the target, solves the   *)
(* source directly and by way of the rule, compares the two answers, then   *)
(* looks at the solution it was given.                                     *)
(*                                                                         *)
(* An instance is a function from configurations to their values, with      *)
(* Infeasible for those that are no solutions.  A decision problem is one    *)
(* whose solutions have one value, which verify() does not get to see.      *)
(* Which way the target is optimised does not show in the code, so it is     *)
(* maximised.                                                              *)
(*                                                                         *)
(* pred is a library of rules, any of which may be wrong; that is what the  *)
(* benchmark is about.  Its default solver reduces an instance to ILP by    *)
(* rules of that same library.                                             *)
(***************************************************************************)
EXTENDS Integers, FiniteSets

CONSTANTS
  SrcCfg,      \* configurations of the source instance
  TgtCfg,      \* configurations of the target instance
  Value,       \* objective values
  Infeasible   \* the evaluation of a configuration that is no solution

ASSUME VerifierAssumption ==
  /\ IsFiniteSet(SrcCfg) /\ IsFiniteSet(TgtCfg)
  /\ Value \subseteq Int
  /\ Infeasible \notin Int
  /\ "none" \notin TgtCfg

Eval == Value \cup {Infeasible}

VARIABLES
  cert,      \* what verify() makes of the certificate's shape
  sense,     \* how the source is optimised
  source,    \* the source instance
  target,    \* the target instance the rule makes of it
  graded,    \* whether the target is an optimisation problem
  back,      \* the rule's extraction: target to source configurations
  toILP,     \* whether the rule's target is ILP
  chain,     \* the library's way from the source to ILP
  tchain,    \* and from the target
  witness,   \* the certificate's target_config
  pc,        \* control point of verify()
  src,       \* the source's answer
  bnd,       \* the bundle's answer
  tev,       \* evaluation of the witness in the target
  sol,       \* the source configuration extracted from the witness
  sev,       \* its evaluation
  disturbed, \* a call that was needed did not come to a result
  verdict

worldVars == <<cert, sense, source, target, graded, back, toILP, chain, tchain, witness>>
vars == <<worldVars, pc, src, bnd, tev, sol, sev, disturbed, verdict>>

Rejections == {"bad_certificate", "reduce_failed", "inconclusive", "no_bug"}
Points == {"shape", "reduce", "source", "bundle", "compare", "witness", "extract",
           "evaluate", "soundness", "optimality", "done"}

(* The way to ILP is right, wrong, or begins with the rule under test. *)
Chains == {"right", "wrong", "rule"}

TypeOK ==
  /\ cert \in {"ok", "bad"}
  /\ sense \in {"max", "min"}
  /\ source \in [SrcCfg -> Eval]
  /\ target \in [TgtCfg -> Eval]
  /\ graded \in BOOLEAN
  /\ back \in [TgtCfg -> SrcCfg]
  /\ toILP \in BOOLEAN
  /\ chain \in Chains
  /\ tchain \in {"right", "wrong"}
  /\ witness \in TgtCfg \cup {"none"}
  /\ pc \in Points
  /\ src \in Eval /\ bnd \in Eval /\ tev \in Eval /\ sev \in Eval
  /\ sol \in SrcCfg \cup {"none"}
  /\ disturbed \in BOOLEAN
  /\ verdict \in {"none", "accepted", "raised"} \cup Rejections

Feasible(inst) == {c \in DOMAIN inst : inst[c] # Infeasible}

(* The way from the source of a rule to ILP is the rule itself; a target that
   is ILP is solved as it is. *)
Init ==
  /\ cert \in {"ok", "bad"}
  /\ sense \in {"max", "min"}
  /\ source \in [SrcCfg -> Eval]
  /\ target \in [TgtCfg -> Eval]
  /\ graded \in BOOLEAN
  /\ graded \/ \A t, u \in Feasible(target) : target[t] = target[u]
  /\ back \in [TgtCfg -> SrcCfg]
  /\ toILP \in BOOLEAN
  /\ chain \in Chains
  /\ tchain \in {"right", "wrong"}
  /\ toILP => chain = "rule" /\ tchain = "right"
  /\ witness \in TgtCfg \cup {"none"}
  /\ pc = "shape"
  /\ src = Infeasible /\ bnd = Infeasible /\ tev = Infeasible /\ sev = Infeasible
  /\ sol = "none"
  /\ disturbed = FALSE
  /\ verdict = "none"

-----------------------------------------------------------------------------
(* Instances and what solving them answers. *)

StrictlyWorse(value, optimum, dir) ==
  IF dir = "min" THEN value > optimum ELSE value < optimum

(* The solutions no other one beats. *)
Optima(inst, dir) ==
  {c \in Feasible(inst) : \A d \in Feasible(inst) : ~StrictlyWorse(inst[c], inst[d], dir)}

(* The evaluations of solutions found, or that there is none. *)
Answers(found, inst) == IF found = {} THEN {Infeasible} ELSE {inst[c] : c \in found}

TargetOptima == Optima(target, "max")

(* The source answers that come back when the target's answer is among found. *)
RoundTrip(found) ==
  IF found = {} THEN {Infeasible} ELSE {source[back[t]] : t \in found}

(* What brute force, the default solver on the source, and the default solver
   on the target can find.  A wrong way to ILP may come back with anything. *)
BruteSource == Answers(Optima(source, sense), source)
DefaultSource ==
  CASE chain = "right" -> BruteSource
    [] chain = "rule" -> RoundTrip(TargetOptima)
    [] OTHER -> Answers(SrcCfg, source) \cup {Infeasible}
DefaultBundle ==
  RoundTrip(TargetOptima) \cup
  (IF tchain = "right" THEN {} ELSE {source[back[t]] : t \in TgtCfg} \cup {Infeasible})
DefaultTarget ==
  Answers(TargetOptima, target) \cup
  (IF tchain = "right" THEN {} ELSE Answers(TgtCfg, target) \cup {Infeasible})

(* Mutant of Independent: the default solver may always be used. *)
NeverIndependent == FALSE

(* The source of a rule to ILP is not solved through ILP. *)
Independent == toILP

Agree(a, b) == a = b

-----------------------------------------------------------------------------
(* The steps of verify(). *)

Conclude(v) ==
  /\ verdict' = v
  /\ pc' = "done"

CheckShape ==
  /\ pc = "shape"
  /\ IF cert = "ok" THEN pc' = "reduce" /\ UNCHANGED verdict ELSE Conclude("bad_certificate")
  /\ UNCHANGED <<worldVars, src, bnd, tev, sol, sev, disturbed>>

(* The agent's bundle is not used: the target is derived anew, or the rule
   fails on the source. *)
Reduce ==
  /\ pc = "reduce"
  /\ \/ pc' = "source" /\ UNCHANGED <<disturbed, verdict>>
     \/ Conclude("reduce_failed") /\ disturbed' = TRUE
  /\ UNCHANGED <<worldVars, src, bnd, tev, sol, sev>>

(* The default solver if it may be used, brute force when it fails, panics or
   times out; neither may decide. *)
SolveSource ==
  /\ pc = "source"
  /\ \/ /\ src' \in BruteSource \cup (IF Independent THEN {} ELSE DefaultSource)
        /\ pc' = "bundle"
        /\ UNCHANGED <<disturbed, verdict>>
     \/ Conclude("inconclusive") /\ disturbed' = TRUE /\ UNCHANGED src
  /\ UNCHANGED <<worldVars, bnd, tev, sol, sev>>

SolveBundle ==
  /\ pc = "bundle"
  /\ \/ bnd' \in DefaultBundle /\ pc' = "compare" /\ UNCHANGED <<disturbed, verdict>>
     \/ Conclude("inconclusive") /\ disturbed' = TRUE /\ UNCHANGED bnd
  /\ UNCHANGED <<worldVars, src, tev, sol, sev>>

Compare ==
  /\ pc = "compare"
  /\ IF ~Agree(src, bnd) THEN Conclude("accepted")
     ELSE IF witness = "none" THEN Conclude("no_bug")
     ELSE pc' = "witness" /\ UNCHANGED verdict
  /\ UNCHANGED <<worldVars, src, bnd, tev, sol, sev, disturbed>>

(* Mutant of EvaluateWitness: any target configuration is evidence. *)
EvaluateAnyWitness ==
  /\ pc = "witness"
  /\ tev' = target[witness]
  /\ pc' = "extract"
  /\ UNCHANGED <<worldVars, src, bnd, sol, sev, disturbed, verdict>>

(* _witness_check: a configuration that is no solution is no evidence. *)
EvaluateWitness ==
  /\ pc = "witness"
  /\ tev' = target[witness]
  /\ IF target[witness] = Infeasible THEN Conclude("no_bug")
     ELSE pc' = "extract" /\ UNCHANGED verdict
  /\ UNCHANGED <<worldVars, src, bnd, sol, sev, disturbed>>

ExtractSolution ==
  /\ pc = "extract"
  /\ sol' = back[witness]
  /\ pc' = "evaluate"
  /\ UNCHANGED <<worldVars, src, bnd, tev, sev, disturbed, verdict>>

EvaluateSolution ==
  /\ pc = "evaluate"
  /\ sev' = source[sol]
  /\ pc' = "soundness"
  /\ UNCHANGED <<worldVars, src, bnd, tev, sol, disturbed, verdict>>

CheckSoundness ==
  /\ pc = "soundness"
  /\ IF sev = Infeasible THEN Conclude("accepted")
     ELSE IF src = Infeasible THEN Conclude("no_bug")
     ELSE pc' = "optimality" /\ UNCHANGED verdict
  /\ UNCHANGED <<worldVars, src, bnd, tev, sol, sev, disturbed>>

(* An optimal target solution must come back as an optimal source solution;
   a target without values is passed over. *)
CheckOptimality ==
  /\ pc = "optimality"
  /\ \/ /\ \E opt \in DefaultTarget :
             Conclude(IF graded /\ tev = opt /\ StrictlyWorse(sev, src, sense)
                      THEN "accepted" ELSE "no_bug")
        /\ UNCHANGED disturbed
     \/ Conclude("no_bug") /\ disturbed' = TRUE
  /\ UNCHANGED <<worldVars, src, bnd, tev, sol, sev>>

(* A call of the witness check fails: the certificate is judged without it. *)
WitnessCallFails ==
  /\ pc \in {"witness", "extract", "evaluate"}
  /\ Conclude("no_bug")
  /\ disturbed' = TRUE
  /\ UNCHANGED <<worldVars, src, bnd, tev, sol, sev>>

(* reduce, evaluate or extract times out: TimeoutExpired leaves verify(). *)
Raise ==
  /\ pc \in {"reduce", "witness", "extract", "evaluate"}
  /\ Conclude("raised")
  /\ disturbed' = TRUE
  /\ UNCHANGED <<worldVars, src, bnd, tev, sol, sev>>

Next ==
  \/ CheckShape \/ Reduce \/ SolveSource \/ SolveBundle \/ Compare
  \/ EvaluateWitness \/ ExtractSolution \/ EvaluateSolution
  \/ CheckSoundness \/ CheckOptimality
  \/ WitnessCallFails \/ Raise

Spec == Init /\ [][Next]_vars

-----------------------------------------------------------------------------
(* What the verdicts mean. *)

(* The rule is right on this source: it keeps feasibility, takes solutions
   back to solutions and optimal ones to optimal ones. *)
RuleIsRight ==
  /\ Feasible(source) = {} <=> Feasible(target) = {}
  /\ \A t \in Feasible(target) : back[t] \in Feasible(source)
  /\ \A t \in TargetOptima : back[t] \in Optima(source, sense)

(* The other rules verify() relies on are right on these instances. *)
SolversAreRight == chain # "wrong" /\ tchain = "right"

(* An accepted certificate is a bug of its rule, whatever fails or times out
   on the way, when no other rule of the library misleads the solver: not a
   degenerate optimum, not an infeasible or suboptimal witness. *)
AcceptedIsReal == verdict = "accepted" /\ SolversAreRight => ~RuleIsRight

(* The configuration exposes a bug: a solution that comes back as none, or an
   optimal one that comes back as a worse one, which shows only where the
   target has values. *)
Exposes(t) ==
  \/ t \in Feasible(target) /\ back[t] \notin Feasible(source)
  \/ graded /\ t \in TargetOptima /\ back[t] \notin Optima(source, sense)

(* A certificate is not turned down when its witness exposes a bug, or when
   no answer the target can give comes back as the source's, unless a call
   that was needed failed or the default solver solves the source by the rule
   under test (which the code rules out for rules to ILP only). *)
ExposedIsAccepted ==
  /\ verdict \in Rejections \ {"bad_certificate"}
  /\ ~disturbed
  /\ SolversAreRight
  /\ toILP \/ chain # "rule"
  =>
  /\ witness # "none" => ~Exposes(witness)
  /\ RoundTrip(TargetOptima) \cap BruteSource # {}

=============================================================================

---------------------------- MODULE Verifier_proofs ----------------------------
(***************************************************************************)
(* Proofs about the verifier, for every source and target instance, every   *)
(* rule and every certificate: it keeps its types, what it accepts is a bug *)
(* of the rule, and what exposes a bug is not turned down.                  *)
(***************************************************************************)
EXTENDS Verifier, FiniteSetTheorems, WellFoundedInduction, TLAPS

-----------------------------------------------------------------------------
(* Induction.  The library states it with an operator as a parameter, which
   the provers cannot instantiate; here the property is a set. *)

(* A set of natural numbers that is not empty has a least one. *)
LEMMA LeastNatural ==
  ASSUME NEW T \in SUBSET Nat, T # {}
  PROVE  \E m \in T : \A k \in T : m <= k
  <1>1. IsWellFoundedOn(OpToRel(<, Nat), Nat)
    BY NatLessThanWellFounded
  <1>2. PICK m \in T : \A k \in T : ~(<<k, m>> \in OpToRel(<, Nat))
    BY <1>1, WFMin
  <1>3. \A k \in T : ~(k < m)
    BY <1>2 DEF OpToRel
  <1>4. QED
    BY <1>3

(* Induction: the property is a set. *)
LEMMA Induction ==
  ASSUME NEW T, 0 \in T, \A n \in Nat : n \in T => n + 1 \in T
  PROVE  \A n \in Nat : n \in T
  <1>1. SUFFICES ASSUME Nat \ T # {} PROVE FALSE
    OBVIOUS
  <1>2. PICK m \in Nat \ T : \A k \in Nat \ T : m <= k
    BY <1>1, LeastNatural
  <1>3. m - 1 \in Nat /\ m - 1 \in T
    BY <1>2
  <1>4. QED
    BY <1>2, <1>3

(* A function on a finite set takes a greatest and a least value there. *)
LEMMA Extremes ==
  ASSUME NEW S, IsFiniteSet(S), S # {}, NEW f, \A x \in S : f[x] \in Int
  PROVE  /\ \E m \in S : \A x \in S : f[x] <= f[m]
         /\ \E m \in S : \A x \in S : f[x] >= f[m]
  <1> DEFINE Extreme(U) == /\ \E m \in U : \A x \in U : f[x] <= f[m]
                           /\ \E m \in U : \A x \in U : f[x] >= f[m]
             T == {n \in Nat : \A U \in SUBSET S :
                     Cardinality(U) = n /\ U # {} => Extreme(U)}
  <1>1. \A U \in SUBSET S : IsFiniteSet(U) /\ Cardinality(U) \in Nat
    BY FS_Subset, FS_CardinalityType
  <1>2. 0 \in T
    BY <1>1, FS_EmptySet
  <1>3. ASSUME NEW n \in Nat, n \in T PROVE n + 1 \in T
    <2> SUFFICES ASSUME NEW U \in SUBSET S, Cardinality(U) = n + 1, U # {}
                 PROVE  Extreme(U)
      OBVIOUS
    <2>1. PICK e \in U : TRUE
      OBVIOUS
    <2> DEFINE V == U \ {e}
    <2>2. V \in SUBSET S /\ Cardinality(V) = n
      <3>1. IsFiniteSet(U)
        BY <1>1
      <3>2. Cardinality(V) = Cardinality(U) - 1
        BY <2>1, <3>1, FS_RemoveElement
      <3>3. QED
        BY <3>2
    <2>3. f[e] \in Int /\ \A x \in V : f[x] \in Int
      OBVIOUS
    <2>4. CASE V = {}
      <3>1. U = {e}
        BY <2>4
      <3>2. QED
        BY <2>3, <3>1
    <2>5. CASE V # {}
      <3>1. Extreme(V)
        BY <1>3, <2>2, <2>5
      <3>2. PICK high \in V : \A x \in V : f[x] <= f[high]
        BY <3>1
      <3>3. PICK low \in V : \A x \in V : f[x] >= f[low]
        BY <3>1
      <3>4. \E m \in U : \A x \in U : f[x] <= f[m]
        <4>1. CASE f[e] <= f[high]
          BY <3>2, <4>1
        <4>2. CASE ~(f[e] <= f[high])
          BY <2>3, <3>2, <4>2
        <4>3. QED
          BY <4>1, <4>2
      <3>5. \E m \in U : \A x \in U : f[x] >= f[m]
        <4>1. CASE f[e] >= f[low]
          BY <3>3, <4>1
        <4>2. CASE ~(f[e] >= f[low])
          BY <2>3, <3>3, <4>2
        <4>3. QED
          BY <4>1, <4>2
      <3>6. QED
        BY <3>4, <3>5
    <2>6. QED
      BY <2>4, <2>5
  <1> HIDE DEF T
  <1>4. \A n \in Nat : n \in T
    BY <1>2, <1>3, Induction
  <1>5. QED
    BY <1>1, <1>4 DEF T

-----------------------------------------------------------------------------
(* Instances. *)

IsInstance(inst, cfgs) == inst \in [cfgs -> Eval]

(* A solution has a value, and a configuration with a value is a solution. *)
LEMMA FeasibleValues ==
  ASSUME NEW cfgs, NEW inst, IsInstance(inst, cfgs), NEW c \in cfgs
  PROVE  /\ inst[c] \in Eval
         /\ c \in Feasible(inst) <=> inst[c] \in Value
         /\ c \in Feasible(inst) <=> inst[c] # Infeasible
  BY VerifierAssumption DEF IsInstance, Feasible, Eval

(* An instance with a solution has an optimal one. *)
LEMMA OptimumExists ==
  ASSUME NEW cfgs, IsFiniteSet(cfgs), NEW inst, IsInstance(inst, cfgs),
         NEW dir, Feasible(inst) # {}
  PROVE  Optima(inst, dir) # {}
  <1>1. Feasible(inst) \in SUBSET cfgs
    BY DEF Feasible, IsInstance
  <1>2. IsFiniteSet(Feasible(inst))
    BY <1>1, FS_Subset
  <1>3. \A c \in Feasible(inst) : inst[c] \in Int
    BY <1>1, FeasibleValues, VerifierAssumption
  <1>4. PICK high \in Feasible(inst) : \A d \in Feasible(inst) : inst[d] <= inst[high]
    BY <1>2, <1>3, Extremes
  <1>5. PICK low \in Feasible(inst) : \A d \in Feasible(inst) : inst[d] >= inst[low]
    BY <1>2, <1>3, Extremes
  <1>6. CASE dir = "min"
    <2>1. ASSUME NEW d \in Feasible(inst) PROVE ~StrictlyWorse(inst[low], inst[d], dir)
      BY <1>3, <1>5, <1>6 DEF StrictlyWorse
    <2>2. QED
      BY <2>1 DEF Optima
  <1>7. CASE dir # "min"
    <2>1. ASSUME NEW d \in Feasible(inst) PROVE ~StrictlyWorse(inst[high], inst[d], dir)
      BY <1>3, <1>4, <1>7 DEF StrictlyWorse
    <2>2. QED
      BY <2>1 DEF Optima
  <1>8. QED
    BY <1>6, <1>7

(* Optimal solutions have one value, and a solution with that value, or none
   worse than it, is optimal. *)
LEMMA OptimaAgree ==
  ASSUME NEW cfgs, NEW inst, IsInstance(inst, cfgs), NEW dir,
         NEW c \in Optima(inst, dir)
  PROVE  /\ c \in Feasible(inst) /\ c \in cfgs /\ inst[c] \in Value
         /\ \A d \in Optima(inst, dir) : inst[d] = inst[c]
         /\ \A d \in Feasible(inst) : ~StrictlyWorse(inst[d], inst[c], dir) => d \in Optima(inst, dir)
  <1>1. \A d \in Feasible(inst) : d \in cfgs /\ inst[d] \in Value /\ inst[d] \in Int
    <2>1. Feasible(inst) \subseteq cfgs
      BY DEF Feasible, IsInstance
    <2>2. QED
      BY <2>1, FeasibleValues, VerifierAssumption
  <1>2. c \in Feasible(inst)
    BY DEF Optima
  <1>3. \A d \in Optima(inst, dir) : inst[d] = inst[c]
    <2> SUFFICES ASSUME NEW d \in Optima(inst, dir) PROVE inst[d] = inst[c]
      OBVIOUS
    <2>1. ~StrictlyWorse(inst[c], inst[d], dir) /\ ~StrictlyWorse(inst[d], inst[c], dir)
      BY <1>2 DEF Optima
    <2>2. inst[c] \in Int /\ inst[d] \in Int
      BY <1>1, <1>2 DEF Optima
    <2>3. QED
      BY <2>1, <2>2 DEF StrictlyWorse
  <1>4. ASSUME NEW d \in Feasible(inst), ~StrictlyWorse(inst[d], inst[c], dir)
        PROVE  d \in Optima(inst, dir)
    <2> SUFFICES ASSUME NEW e \in Feasible(inst) PROVE ~StrictlyWorse(inst[d], inst[e], dir)
      BY <1>4 DEF Optima
    <2>1. ~StrictlyWorse(inst[c], inst[e], dir)
      BY DEF Optima
    <2>2. inst[c] \in Int /\ inst[d] \in Int /\ inst[e] \in Int
      BY <1>1, <1>2
    <2>3. QED
      BY <1>4, <2>1, <2>2 DEF StrictlyWorse
  <1>5. QED
    BY <1>1, <1>2, <1>3, <1>4

-----------------------------------------------------------------------------
(* The solvers' answers. *)

Instances ==
  /\ IsInstance(source, SrcCfg)
  /\ IsInstance(target, TgtCfg)
  /\ back \in [TgtCfg -> SrcCfg]

(* Brute force on the source knows one answer: none, when there is no
   solution, or the value of its optimal solutions. *)
LEMMA BruteForce ==
  ASSUME Instances, NEW x \in BruteSource
  PROVE  /\ x \in Eval
         /\ x = Infeasible <=> Feasible(source) = {}
         /\ \A c \in Optima(source, sense) : source[c] = x
         /\ \A y \in BruteSource : y = x
  <1>1. CASE Feasible(source) = {}
    <2>1. Optima(source, sense) = {}
      BY <1>1 DEF Optima
    <2>2. BruteSource = {Infeasible}
      BY <2>1 DEF BruteSource, Answers
    <2>3. QED
      BY <1>1, <2>1, <2>2 DEF Eval
  <1>2. CASE Feasible(source) # {}
    <2>1. Optima(source, sense) # {}
      BY <1>2, OptimumExists, VerifierAssumption DEF Instances
    <2>2. BruteSource = {source[c] : c \in Optima(source, sense)}
      BY <2>1 DEF BruteSource, Answers
    <2>3. PICK c \in Optima(source, sense) : x = source[c]
      BY <2>2
    <2>4. x \in Value /\ \A d \in Optima(source, sense) : source[d] = x
      BY <2>3, OptimaAgree DEF Instances
    <2>5. x # Infeasible
      BY <2>4, VerifierAssumption
    <2>6. QED
      BY <1>2, <2>2, <2>4, <2>5 DEF Eval
  <1>3. QED
    BY <1>1, <1>2

(* Solving by way of a right rule answers what brute force does. *)
LEMMA RightRuleRoundTrip ==
  ASSUME Instances, RuleIsRight
  PROVE  RoundTrip(TargetOptima) \subseteq BruteSource
  <1>1. CASE TargetOptima = {}
    <2>1. Feasible(target) = {}
      BY <1>1, OptimumExists, VerifierAssumption DEF Instances, TargetOptima
    <2>2. Optima(source, sense) = {}
      BY <2>1 DEF RuleIsRight, Optima
    <2>3. QED
      BY <1>1, <2>2 DEF RoundTrip, BruteSource, Answers
  <1>2. CASE TargetOptima # {}
    <2>1. \A t \in TargetOptima : back[t] \in Optima(source, sense)
      BY DEF RuleIsRight
    <2>2. Optima(source, sense) # {}
      BY <1>2, <2>1
    <2>3. QED
      BY <1>2, <2>1, <2>2 DEF RoundTrip, BruteSource, Answers
  <1>3. QED
    BY <1>1, <1>2

(* The default solver's answer for the target of a right library. *)
LEMMA TargetAnswer ==
  ASSUME Instances, tchain = "right", NEW t \in Feasible(target), NEW opt \in DefaultTarget
  PROVE  target[t] = opt <=> t \in TargetOptima
  <1>1. TargetOptima # {}
    BY OptimumExists, VerifierAssumption DEF Instances, TargetOptima
  <1>2. PICK u \in TargetOptima : opt = target[u]
    BY <1>1 DEF DefaultTarget, Answers
  <1>3. t \in TargetOptima => target[t] = opt
    BY <1>2, OptimaAgree DEF Instances, TargetOptima
  <1>4. ASSUME target[t] = opt PROVE t \in TargetOptima
    <2>1. target[u] \in Int
      BY <1>2, OptimaAgree, VerifierAssumption DEF Instances, TargetOptima
    <2>2. ~StrictlyWorse(target[t], target[u], "max")
      BY <1>2, <1>4, <2>1 DEF StrictlyWorse
    <2>3. QED
      BY <1>2, <2>2, OptimaAgree DEF Instances, TargetOptima
  <1>5. QED
    BY <1>3, <1>4

-----------------------------------------------------------------------------
(* Types. *)

LEMMA TypedInstances == TypeOK => Instances
  BY DEF TypeOK, Instances, IsInstance

LEMMA AnswersTyped ==
  ASSUME TypeOK
  PROVE  /\ BruteSource \subseteq Eval /\ DefaultSource \subseteq Eval
         /\ DefaultBundle \subseteq Eval
  <1>1. /\ Infeasible \in Eval
        /\ \A c \in SrcCfg : source[c] \in Eval
        /\ \A t \in TgtCfg : back[t] \in SrcCfg
    BY DEF TypeOK, Eval
  <1>2. TargetOptima \subseteq TgtCfg /\ Optima(source, sense) \subseteq SrcCfg
    BY DEF TypeOK, TargetOptima, Optima, Feasible
  <1>3. \A found : found \subseteq SrcCfg => Answers(found, source) \subseteq Eval
    BY <1>1 DEF Answers
  <1>4. RoundTrip(TargetOptima) \subseteq Eval
    BY <1>1, <1>2 DEF RoundTrip
  <1>5. BruteSource \subseteq Eval
    BY <1>2, <1>3 DEF BruteSource
  <1>6. DefaultSource \subseteq Eval
    BY <1>1, <1>3, <1>4, <1>5 DEF DefaultSource, TypeOK, Chains
  <1>7. DefaultBundle \subseteq Eval
    BY <1>1, <1>4 DEF DefaultBundle
  <1>8. QED
    BY <1>5, <1>6, <1>7

(* What verify() has found out at each point, and where it came from. *)
WithWitness == {"witness", "extract", "evaluate", "soundness", "optimality"}

Gathered ==
  /\ pc # "done" => verdict = "none"
  /\ pc \in {"bundle", "compare"} \cup WithWitness =>
       src \in BruteSource \cup (IF Independent THEN {} ELSE DefaultSource)
  /\ pc \in {"compare"} \cup WithWitness => bnd \in DefaultBundle
  /\ pc \in WithWitness => src = bnd /\ witness # "none"
  /\ pc \in WithWitness \ {"witness"} => witness \in Feasible(target) /\ tev = target[witness]
  /\ pc \in {"evaluate", "soundness", "optimality"} => sol = back[witness]
  /\ pc \in {"soundness", "optimality"} => sev = source[back[witness]]
  /\ pc = "optimality" => sev # Infeasible /\ src # Infeasible

LEMMA TypeStep == TypeOK /\ Gathered /\ [Next]_vars => TypeOK'
  <1> SUFFICES ASSUME TypeOK, Gathered, [Next]_vars PROVE TypeOK'
    OBVIOUS
  <1> USE DEF TypeOK, worldVars
  <1>1. CASE CheckShape
    BY <1>1 DEF CheckShape, Conclude, Points, Rejections
  <1> DEFINE Ending == /\ pc' \in Points
                       /\ disturbed' \in BOOLEAN
                       /\ verdict' \in {"none", "accepted", "raised"} \cup Rejections
  <1>2. CASE Reduce
    <2>1. Ending
      BY <1>2 DEF Reduce, Conclude, Points, Rejections
    <2>2. UNCHANGED <<worldVars, src, bnd, tev, sol, sev>>
      BY <1>2 DEF Reduce
    <2>3. QED
      BY <2>1, <2>2
  <1>3. CASE SolveSource
    <2>1. Ending
      BY <1>3 DEF SolveSource, Conclude, Points, Rejections
    <2>2. BruteSource \cup (IF Independent THEN {} ELSE DefaultSource) \subseteq Eval
      BY AnswersTyped
    <2>3. src' \in Eval
      BY <1>3, <2>2 DEF SolveSource
    <2>4. UNCHANGED <<worldVars, bnd, tev, sol, sev>>
      BY <1>3 DEF SolveSource
    <2>5. QED
      BY <2>1, <2>3, <2>4
  <1>4. CASE SolveBundle
    <2>1. Ending
      BY <1>4 DEF SolveBundle, Conclude, Points, Rejections
    <2>2. bnd' \in Eval
      BY <1>4, AnswersTyped DEF SolveBundle
    <2>3. UNCHANGED <<worldVars, src, tev, sol, sev>>
      BY <1>4 DEF SolveBundle
    <2>4. QED
      BY <2>1, <2>2, <2>3
  <1>5. CASE Compare
    BY <1>5 DEF Compare, Conclude, Points, Rejections
  <1>6. CASE CheckSoundness
    BY <1>6 DEF CheckSoundness, Conclude, Points, Rejections
  <1>7. CASE CheckOptimality
    BY <1>7 DEF CheckOptimality, Conclude, Points, Rejections
  <1>8. CASE WitnessCallFails \/ Raise
    BY <1>8 DEF WitnessCallFails, Raise, Conclude, Points, Rejections
  <1>9. CASE EvaluateWitness
    <2>1. target[witness] \in Eval
      BY <1>9 DEF EvaluateWitness, Gathered, WithWitness
    <2>2. QED
      BY <1>9, <2>1 DEF EvaluateWitness, Conclude, Points, Rejections
  <1>10. CASE ExtractSolution
    <2>1. back[witness] \in SrcCfg
      BY <1>10 DEF ExtractSolution, Gathered, WithWitness
    <2>2. QED
      BY <1>10, <2>1 DEF ExtractSolution, Points
  <1>11. CASE EvaluateSolution
    <2>1. source[sol] \in Eval
      BY <1>11 DEF EvaluateSolution, Gathered, WithWitness
    <2>2. QED
      BY <1>11, <2>1 DEF EvaluateSolution, Points
  <1>12. CASE UNCHANGED vars
    BY <1>12 DEF vars
  <1>13. QED
    BY <1>1, <1>2, <1>3, <1>4, <1>5, <1>6, <1>7, <1>8, <1>9, <1>10, <1>11, <1>12 DEF Next

(* The instances, the library and the certificate do not change. *)
LEMMA WorldFixed ==
  ASSUME UNCHANGED worldVars
  PROVE  /\ BruteSource' = BruteSource /\ DefaultSource' = DefaultSource
         /\ DefaultBundle' = DefaultBundle /\ Independent' = Independent
         /\ Feasible(target)' = Feasible(target)
         /\ RoundTrip(TargetOptima)' = RoundTrip(TargetOptima)
         /\ RuleIsRight' = RuleIsRight /\ SolversAreRight' = SolversAreRight
         /\ Exposes(witness)' = Exposes(witness)
  BY DEF worldVars, BruteSource, DefaultSource, DefaultBundle, Independent, RoundTrip,
         TargetOptima, Answers, Optima, Feasible, StrictlyWorse, RuleIsRight,
         SolversAreRight, Exposes

LEMMA StepKeepsWorld == [Next]_vars => UNCHANGED worldVars
  BY DEF Next, vars, CheckShape, Reduce, SolveSource, SolveBundle, Compare, EvaluateWitness,
         ExtractSolution, EvaluateSolution, CheckSoundness, CheckOptimality,
         WitnessCallFails, Raise

LEMMA GatheredStep == TypeOK /\ Gathered /\ [Next]_vars => Gathered'
  <1> SUFFICES ASSUME TypeOK, Gathered, [Next]_vars PROVE Gathered'
    OBVIOUS
  <1>1. UNCHANGED worldVars
    BY StepKeepsWorld
  <1>2. CASE CheckShape \/ Reduce
    BY <1>2, <1>1 DEF CheckShape, Reduce, Conclude, Gathered, WithWitness
  <1>3. CASE SolveSource
    BY <1>3, <1>1, WorldFixed DEF SolveSource, Conclude, Gathered, WithWitness
  <1>4. CASE SolveBundle
    BY <1>4, <1>1, WorldFixed DEF SolveBundle, Conclude, Gathered, WithWitness
  <1>5. CASE Compare
    BY <1>5, <1>1, WorldFixed DEF Compare, Conclude, Agree, Gathered, WithWitness, worldVars
  <1>6. CASE EvaluateWitness
    <2>1. pc' = "done" \/ (pc' = "extract" /\ witness \in Feasible(target) /\ tev' = target[witness])
      BY <1>6 DEF EvaluateWitness, Conclude, Feasible, Gathered, WithWitness, TypeOK
    <2>2. QED
      BY <1>6, <1>1, <2>1, WorldFixed
      DEF EvaluateWitness, Conclude, Gathered, WithWitness, worldVars
  <1>7. CASE ExtractSolution
    BY <1>7, <1>1, WorldFixed DEF ExtractSolution, Gathered, WithWitness, worldVars
  <1>8. CASE EvaluateSolution
    BY <1>8, <1>1, WorldFixed DEF EvaluateSolution, Gathered, WithWitness, worldVars
  <1>9. CASE CheckSoundness
    BY <1>9, <1>1, WorldFixed DEF CheckSoundness, Conclude, Gathered, WithWitness, worldVars
  <1>10. CASE CheckOptimality \/ WitnessCallFails \/ Raise
    BY <1>10 DEF CheckOptimality, WitnessCallFails, Raise, Conclude, Gathered, WithWitness
  <1>11. CASE UNCHANGED vars
    BY <1>11, <1>1, WorldFixed DEF vars, worldVars, Gathered
  <1>12. QED
    BY <1>2, <1>3, <1>4, <1>5, <1>6, <1>7, <1>8, <1>9, <1>10, <1>11 DEF Next

-----------------------------------------------------------------------------
(* Verdicts. *)

(* With a right rule and right solvers both answers are that of brute force. *)
LEMMA RightAnswers ==
  ASSUME TypeOK, Gathered, RuleIsRight, SolversAreRight, pc \in {"compare"} \cup WithWitness
  PROVE  src \in BruteSource /\ bnd \in BruteSource
  <1>1. RoundTrip(TargetOptima) \subseteq BruteSource
    BY TypedInstances, RightRuleRoundTrip
  <1>2. DefaultSource \subseteq BruteSource
    BY <1>1 DEF DefaultSource, SolversAreRight, TypeOK, Chains
  <1>3. DefaultBundle \subseteq BruteSource
    BY <1>1 DEF DefaultBundle, SolversAreRight
  <1>4. src \in BruteSource \cup DefaultSource /\ bnd \in DefaultBundle
    BY DEF Gathered, WithWitness
  <1>5. QED
    BY <1>2, <1>3, <1>4

LEMMA AcceptingStep ==
  ASSUME TypeOK, Gathered, [Next]_vars, verdict # "accepted", verdict' = "accepted",
         RuleIsRight, SolversAreRight
  PROVE  FALSE
  <1>1. Instances
    BY TypedInstances
  <1>2. CASE Compare
    <2>1. src # bnd
      BY <1>2 DEF Compare, Conclude, Agree
    <2>2. src \in BruteSource /\ bnd \in BruteSource
      BY <1>2, RightAnswers DEF Compare
    <2>3. QED
      BY <1>1, <2>1, <2>2, BruteForce
  <1>3. CASE CheckSoundness
    <2>1. source[back[witness]] = Infeasible /\ witness \in Feasible(target)
      BY <1>3 DEF CheckSoundness, Conclude, Gathered, WithWitness
    <2>2. back[witness] \in Feasible(source)
      BY <2>1 DEF RuleIsRight
    <2>3. QED
      BY <2>1, <2>2 DEF Feasible
  <1>4. CASE CheckOptimality
    <2>1. PICK opt \in DefaultTarget : tev = opt /\ StrictlyWorse(sev, src, sense)
      BY <1>4 DEF CheckOptimality, Conclude
    <2>2. /\ witness \in Feasible(target) /\ tev = target[witness]
          /\ sev = source[back[witness]] /\ pc = "optimality"
      BY <1>4 DEF CheckOptimality, Gathered, WithWitness
    <2>3. witness \in TargetOptima
      BY <1>1, <2>1, <2>2, TargetAnswer DEF SolversAreRight
    <2>4. back[witness] \in Optima(source, sense)
      BY <2>3 DEF RuleIsRight
    <2>5. src \in BruteSource
      BY <2>2, RightAnswers DEF WithWitness
    <2>6. sev = src
      BY <1>1, <2>2, <2>4, <2>5, BruteForce
    <2>7. sev \in Int
      BY <1>1, <2>2, <2>4, OptimaAgree, VerifierAssumption DEF Instances
    <2>8. QED
      BY <2>1, <2>6, <2>7 DEF StrictlyWorse
  <1>5. CASE ~(Compare \/ CheckSoundness \/ CheckOptimality)
    BY <1>5 DEF Next, vars, CheckShape, Reduce, SolveSource, SolveBundle, EvaluateWitness,
                ExtractSolution, EvaluateSolution, WitnessCallFails, Raise, Conclude
  <1>6. QED
    BY <1>2, <1>3, <1>4, <1>5

(* What the certificate would have had to show is not there. *)
NothingExposed ==
  /\ witness # "none" => ~Exposes(witness)
  /\ RoundTrip(TargetOptima) \cap BruteSource # {}

(* What a rejection without a disturbance has looked at. *)
LEMMA RejectingStep ==
  ASSUME TypeOK, Gathered, [Next]_vars, verdict = "none",
         verdict' \in Rejections \ {"bad_certificate"}, ~disturbed', SolversAreRight,
         toILP \/ chain # "rule"
  PROVE  NothingExposed
  <1>1. Instances
    BY TypedInstances
  <1>2. pc \in {"compare"} \cup WithWitness => src \in BruteSource /\ bnd \in RoundTrip(TargetOptima)
    BY DEF Gathered, WithWitness, Independent, DefaultSource, DefaultBundle, SolversAreRight,
           TypeOK, Chains
  <1>3. TargetOptima \subseteq Feasible(target)
    BY DEF TargetOptima, Optima
  <1>4. CASE Compare
    <2>1. src = bnd /\ witness = "none"
      BY <1>4 DEF Compare, Conclude, Agree, Rejections
    <2>2. QED
      BY <1>2, <1>4, <2>1 DEF Compare, NothingExposed
  <1>5. ASSUME pc \in WithWitness
        PROVE  RoundTrip(TargetOptima) \cap BruteSource # {}
    BY <1>2, <1>5 DEF Gathered
  <1>6. CASE EvaluateWitness
    <2>1. pc = "witness" /\ target[witness] = Infeasible
      BY <1>6 DEF EvaluateWitness, Conclude, Rejections
    <2>2. ~Exposes(witness)
      BY <1>3, <2>1 DEF Exposes, Feasible
    <2>3. QED
      BY <1>5, <2>1, <2>2 DEF NothingExposed, WithWitness
  <1>7. CASE CheckSoundness
    <2>1. /\ pc = "soundness" /\ sev # Infeasible /\ src = Infeasible
          /\ witness \in Feasible(target) /\ sev = source[back[witness]]
      BY <1>7 DEF CheckSoundness, Conclude, Rejections, Gathered, WithWitness
    <2>2. back[witness] \in Feasible(source)
      BY <1>1, <2>1 DEF Instances, IsInstance, Feasible
    <2>3. Feasible(source) = {}
      BY <1>1, <1>2, <2>1, BruteForce DEF WithWitness
    <2>4. QED
      BY <2>2, <2>3
  <1>8. CASE CheckOptimality
    <2>1. PICK opt \in DefaultTarget :
            ~(graded /\ tev = opt /\ StrictlyWorse(sev, src, sense))
      BY <1>8 DEF CheckOptimality, Conclude, Rejections
    <2>2. /\ witness \in Feasible(target) /\ tev = target[witness]
          /\ sev = source[back[witness]] /\ pc = "optimality"
          /\ sev # Infeasible /\ src # Infeasible
      BY <1>8 DEF CheckOptimality, Gathered, WithWitness
    <2>3. back[witness] \in Feasible(source)
      BY <1>1, <2>2 DEF Instances, IsInstance, Feasible
    <2>4. ASSUME graded, witness \in TargetOptima
          PROVE  back[witness] \in Optima(source, sense)
      <3>1. tev = opt
        BY <1>1, <2>2, <2>4, TargetAnswer DEF SolversAreRight
      <3>2. ~StrictlyWorse(source[back[witness]], src, sense)
        BY <2>1, <2>2, <2>4, <3>1
      <3>3. PICK c \in Optima(source, sense) : TRUE
        BY <1>1, <2>3, OptimumExists, VerifierAssumption DEF Instances
      <3>4. source[c] = src
        BY <1>1, <1>2, <2>2, <3>3, BruteForce DEF WithWitness
      <3>5. QED
        BY <1>1, <2>3, <3>2, <3>3, <3>4, OptimaAgree DEF Instances
    <2>5. QED
      BY <1>5, <2>2, <2>3, <2>4 DEF NothingExposed, Exposes, WithWitness
  <1>9. CASE ~(Compare \/ EvaluateWitness \/ CheckSoundness \/ CheckOptimality)
    BY <1>9 DEF Next, vars, CheckShape, Reduce, SolveSource, SolveBundle,
                ExtractSolution, EvaluateSolution, WitnessCallFails, Raise, Conclude, Rejections
  <1>10. QED
    BY <1>4, <1>6, <1>7, <1>8, <1>9

-----------------------------------------------------------------------------
(* The theorems. *)

IInv == TypeOK /\ Gathered /\ AcceptedIsReal /\ ExposedIsAccepted

LEMMA Initially == Init => IInv
  BY VerifierAssumption DEF Init, IInv, TypeOK, Gathered, WithWitness, Points, Eval, Chains, AcceptedIsReal,
     ExposedIsAccepted, Rejections

LEMMA AcceptedStep == IInv /\ [Next]_vars => AcceptedIsReal'
  <1> SUFFICES ASSUME IInv, [Next]_vars, verdict' = "accepted", SolversAreRight', RuleIsRight'
               PROVE  FALSE
    BY DEF AcceptedIsReal
  <1>1. SolversAreRight /\ RuleIsRight
    BY StepKeepsWorld, WorldFixed
  <1>2. verdict # "accepted"
    BY <1>1 DEF IInv, AcceptedIsReal
  <1>3. QED
    BY <1>1, <1>2, AcceptingStep DEF IInv

(* A verdict stands, and so does what is known of disturbances. *)
LEMMA VerdictStands ==
  ASSUME IInv, [Next]_vars, verdict # "none"
  PROVE  verdict' = verdict /\ disturbed' = disturbed
  BY DEF IInv, Gathered, Next, vars, CheckShape, Reduce, SolveSource, SolveBundle, Compare,
         EvaluateWitness, ExtractSolution, EvaluateSolution, CheckSoundness, CheckOptimality,
         WitnessCallFails, Raise

LEMMA ExposedStep == IInv /\ [Next]_vars => ExposedIsAccepted'
  <1> SUFFICES ASSUME IInv, [Next]_vars,
                      verdict' \in Rejections \ {"bad_certificate"}, ~disturbed',
                      SolversAreRight', (toILP \/ chain # "rule")'
               PROVE  NothingExposed'
    BY DEF ExposedIsAccepted, NothingExposed
  <1>1. UNCHANGED worldVars
    BY StepKeepsWorld
  <1>2. SolversAreRight /\ (toILP \/ chain # "rule")
    BY <1>1, WorldFixed DEF worldVars
  <1>3. NothingExposed
    <2>1. CASE verdict = "none"
      BY <1>2, <2>1, RejectingStep DEF IInv
    <2>2. CASE verdict # "none"
      BY <1>2, <2>2, VerdictStands DEF IInv, ExposedIsAccepted, NothingExposed
    <2>3. QED
      BY <2>1, <2>2
  <1>4. QED
    BY <1>1, <1>3, WorldFixed DEF NothingExposed, worldVars

LEMMA Invariance == Spec => []IInv
  <1>1. IInv /\ [Next]_vars => IInv'
    BY TypeStep, GatheredStep, AcceptedStep, ExposedStep DEF IInv
  <1>2. QED
    BY <1>1, Initially, PTL DEF Spec

(* Every variable of a verification keeps its type. *)
THEOREM TypeCorrect == Spec => []TypeOK
  BY Invariance, PTL DEF IInv

(* Whatever rule, instances and witness: what verify() accepts is a bug of
   its rule, as long as no other rule misleads the default solver. *)
THEOREM AcceptedOnlyIfReal == Spec => []AcceptedIsReal
  BY Invariance, PTL DEF IInv

(* A witness or a round trip that exposes a bug is not turned down, as long
   as every call comes to a result and the source is not solved by the rule
   under test. *)
THEOREM ExposedNotRejected == Spec => []ExposedIsAccepted
  BY Invariance, PTL DEF IInv

=============================================================================

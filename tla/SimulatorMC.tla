------------------------------ MODULE SimulatorMC ------------------------------
(* Small instances of the whole simulator, under each of the predictors.     *)
EXTENDS SimulatorProperties, TomasuloL1DMC

\* One FP adder, two FP multipliers and two memory units.
TwoMultipliers == [u \in FUTypes |-> IF u \in {"FP_MUL", "MEM"} THEN 2 ELSE 1]

\* A division takes five cycles and outlives the pipelines' three stages.
ShallowPipelines == [u \in PipelinedFUs |-> IF u = "FP_ADD" THEN 2 ELSE 3]

\* FP work that a misprediction catches in the pipelines, memory operations, and
\* branches resolved at once or late.
PredictedPool ==
    {R("FDIV", 2, 2, 1), R("FMUL", 1, 2, 2), Ld(1, 0, 0), Sd(2, 0, 1),
     Branch("BNE", 0, 2, 2), Branch("BEQ", 1, 2, 2)}

\* A counted loop with a branch that alternates in it.
AlternatingLoop ==
    <<AddI(2, 2, -1), R("SUB", 1, 0, 1), Branch("BNE", 1, 2, 4), R("FADD", 1, 1, 2),
      Branch("BNE", 2, 0, 0), R("FMUL", 1, 1, 1)>>

PredictedPrograms == LoopPrograms \cup ConflictPrograms \cup {AlternatingLoop} \cup PoolPrograms
=============================================================================

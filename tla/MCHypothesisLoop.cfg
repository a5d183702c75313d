SPECIFICATION Spec
CONSTANTS
 Explanations={"e1","e2"}
 MaxHypotheses=2
 MaxEvidence=2
 MaxRounds=2
CHECK_DEADLOCK FALSE
INVARIANTS ConvergedIsUnrefuted

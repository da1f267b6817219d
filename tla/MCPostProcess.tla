---------------------------- MODULE MCPostProcess ----------------------------
EXTENDS PostProcess

\* Bound of the model: a HIT is of the row that is reported next, as FeatureReader's are.
RowByRow == offer'.type = "hit" => offer'.y = nextRow

MCSpec == Init /\ [][Next /\ RowByRow]_postVars /\ Fairness
=============================================================================

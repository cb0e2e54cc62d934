---------------------------- MODULE MCHistoryScan ----------------------------
(* HistoryScan for TLC.                                                    *)
EXTENDS HistoryScan

\* 2 and 3 are long names that agree in what an id keeps of them.
TwoTasks == {2, 3}
TwoTokens == {2, 3}
FewLimits == {0, 1, 2}
=============================================================================

------------------------------- MODULE MCTrain -------------------------------
EXTENDS Train
=============================================================================

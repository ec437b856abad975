---------------------------- MODULE MCSimulation ----------------------------
EXTENDS Simulation
AllScmds == Scmd
AllFrames == Frame \ {"none"}
=============================================================================

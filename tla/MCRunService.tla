--------------------------- MODULE MCRunService ---------------------------
(* Instances of RunService for TLC.                                        *)
EXTENDS RunService

BothModes == {"manual", "auto"}
AutoOnly == {"auto"}

LastGate == {NumGates}
SecondGate == {2}

NoFaults == {}
AllFaults == FaultKinds
=============================================================================

SPECIFICATION MCSpec
CONSTANT Options <- MCOptions
INVARIANT WaitBounded
PROPERTIES HardKillIsPatient ImplementsTeardown Terminates

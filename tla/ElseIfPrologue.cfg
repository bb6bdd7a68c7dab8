CONSTANT Programs <- ElseIfPrograms
 MaxArrayElements = 8
 MaxInputs = 4
 MaxOutputs = 4
 MaxMappings = 8
 MaxFunctions = 4
 MaxRounds = 8
 MaxWrites = 4
SPECIFICATION Spec
INVARIANT MeaningPreserved
CHECK_DEADLOCK FALSE

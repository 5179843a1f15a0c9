SPECIFICATION Spec
INVARIANTS MachineSound OutcomeFollowsCause
PROPERTIES InjectsJournaled

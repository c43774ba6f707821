SPECIFICATION CompilationSpec
CONSTANT Programs <- MCPrograms
INVARIANTS
  StackDiscipline
  RunsAsWritten
  AcceptedNeverStuck
CHECK_DEADLOCK FALSE

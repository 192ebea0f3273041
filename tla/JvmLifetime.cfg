SPECIFICATION FairSpec
CONSTANT Tasks = {"t1", "t2", "t3"}
INVARIANTS
  TypeOK
  TasksInTurn
  ExecutorForgetsNothing
PROPERTY ProgramEnds
CHECK_DEADLOCK FALSE

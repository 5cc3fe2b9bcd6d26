SPECIFICATION Spec
CONSTANTS
  Root = Root
  Objs = {Root, o1, o2}
  None = None
  Tramps <- MCTramps
CONSTRAINT KeepsAllocators
CHECK_DEADLOCK FALSE
INVARIANTS FreePagesWritable NoOrphans MethodsCallable RopesFreeable

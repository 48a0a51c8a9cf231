CONSTANTS
  Backends = {"unix", "illumos", "windows"}
SPECIFICATION Spec
INVARIANTS TypeOK RefusalLeavesNothing StrangersAreSafe SizingDoesNotRace
PROPERTY ImplementsInterface

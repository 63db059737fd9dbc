SPECIFICATION Spec
INVARIANTS HeapSound Parses StartsRight ImageReads Computes
PROPERTIES PromptAgain
CHECK_DEADLOCK FALSE

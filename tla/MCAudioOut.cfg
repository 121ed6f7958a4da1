CONSTANT QueueLen = 2
SPECIFICATION FairSpec
INVARIANTS BothOpen 
PROPERTIES  PacketsPlayed
CHECK_DEADLOCK FALSE

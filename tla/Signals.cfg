SPECIFICATION FairSpec
CONSTANTS
  Tasks <- MCTasks
  Victims <- MCVictims
  NSIG = 3
  SIGKILL = 2
  SIGCHLD = 3
INVARIANTS TypeOK KillGetsThrough OneShot
PROPERTIES PendingIsTaken

CONSTANTS
  main = main
  waiting = waiting
  job1 = job1
  job2 = job2
  Parents <- MCParents
  Children <- MCChildren
  Notifying <- MCParents
  MaxEvents = 3
  NoQueue = NoQueue
SPECIFICATION FairSpec
INVARIANTS LinksMirrorChildren
PROPERTIES ImplementsEmitters EventuallyTaken

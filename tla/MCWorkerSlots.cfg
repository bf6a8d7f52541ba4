CONSTANTS
  t1 = t1
  t2 = t2
  NumSlots = 3
  Jobs <- MCJobs
  Tasks <- MCTasks
SPECIFICATION FairSlotSpec
INVARIANTS RunsAlone FrontBlocked
PROPERTIES NoOvertaking NoStarvation

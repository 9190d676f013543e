SPECIFICATION FairSpec
CONSTANTS
  Members = {m1, m2}
  Reviewers = {r1}
  LastAttempt = 1
  JobAttempts = 2
  MaxStalled = 1
  Followed <- SecondRefusal
INVARIANTS
  NoticesAreTrue
  DroppedOnlyWhenOvertaken
  NoNoticeEndsSilently
PROPERTIES
  EnqueuedIsSettled
CHECK_DEADLOCK FALSE

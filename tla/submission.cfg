SPECIFICATION FairSpec
CONSTANTS
  R1 = R1
  R2 = R2
  R3 = R3
  R4 = R4
  K1 = K1
  NoKey = NoKey
  NoJob = NoJob
  Nothing = Nothing
  Requests = {R1, R2, R4}
  Keys = {K1}
  KeyOf <- ThreeAlike
  MaxTries = 2
  MaxFaults = 2
INVARIANTS
  TypeOK
  MissedOnlyByFailure
  SubmittedCounted
PROPERTIES
  ImplementsSubmitOnce
  EveryoneAnswered
\* Clients may have posted all they have to post.
CHECK_DEADLOCK FALSE

CONSTANTS
  Queues = {q1, q2}
  Tags = {t1, t2, t3}
  QueueOf <- MCQueueOf
  Blocks = {0, 1, 2}
  Pages = {Zero, Header}
  ZeroPage = Zero
  NoRequest = NoRequest
  NoTag = NoTag
  MaxFailures = 1
  Requests <- MCRequests
  Header = Header
  SwapNames <- MCSwapNames
  OtherSwaps <- MCOtherSwaps
  NoName = NoName
  q1 = q1
  q2 = q2
  t1 = t1
  t2 = t2
  t3 = t3
  Zero = Zero
SPECIFICATION FairSpec
INVARIANTS TypeOK AnswersAreTrue ActiveSwapHasHeader CleanupIsExact
PROPERTIES ChangesOnlyAsAsked RequestsAreAnswered

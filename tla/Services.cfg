\* Two prospects and three drafts, two executions of the outreach job; two
\* questions and two requests; two requests for two jobs and one slot a day;
\* batches of up to five jobs of three portals, two postings of two portals; three sessions of a browser;
\* five steps of the reasoning loop; three loops and three listed jobs at a host
\* that takes one request at a time, one in two ticks, with one retry.
SPECIFICATION ServicesSpec
CONSTANTS
  p1 = p1
  p2 = p2
  c1 = c1
  c2 = c2
  c3 = c3
  c4 = c4
  c5 = c5
  lever = lever
  ashby = ashby
  greenhouse = greenhouse
  Prospect = {p1, p2}
  Draft <- MCDraft
  Sender = {s1, s2}
  OrNobody = nobody
  OrCap = 1
  OrMaxEdits = 1
  OrMaxTrips = 1
  OrMaxFaults = 1
  Question = {q1, q2}
  Request = {a1, a2}
  Runner = runner
  LqMaxWaits = 2
  LqMaxFaults = 1
  Portal <- MCPortal
  PortalCap <- MCPortalCap
  Job = {c1, c4}
  MaxTarget = 5
  Posting <- MCPosting
  Sources = 2
  MaxFound = 2
  Target = 2
  Limit = 1
  AlRequest = {r1, r2}
  AlNobody = nobody
  AlMaxDay = 1
  AlMaxFaults = 1
  Applying = {b1, b2}
  Skilled = {k1}
  Person = person
  Sweeper = sweeper
  TbNobody = nobody
  TbMaxVisits = 2
  TbMaxFaults = 1
  ErrorKey = {slow, stale}
  Deadline = slow
  AgNone = noerror
  AgMaxSteps = 5
  AgRecovery = 3
  Loop = {l1, l2, l3}
  Listed = 3
  PageOf <- MCPageOf
  MaxConcurrent = 1
  MinInterval = 2
  Retries = 1
SYMMETRY MCSymmetry
INVARIANTS
  InvitesStayUnderCap
  ApprovedWordsSend
  OneSendOutrunsTheBreaker
  CompleteAnswersResume
  AllowanceHolds
  PlansAreFair
  SelectionsAreFair
  RemovedProfileRests
  DoneMeansRecovered
  HostIsSpared
PROPERTIES
  AnswerWaitsForItsUse
  BrowserLeftToItsUser
CHECK_DEADLOCK FALSE

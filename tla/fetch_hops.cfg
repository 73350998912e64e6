SPECIFICATION Spec
CONSTANTS
  None = None
  AllowHTTP = FALSE
  AllowedDomains <- SomeDomains
  Address = {1, 2, 3}
  Public = {1, 2}
  Url <- SomeUrls
  CrawlDelay <- AskedDelay
  DomainDelay = 1
  MaxRedirects = 2
INVARIANTS
  EveryRequestIsReserved
  RequestedIsValidated
  PageWasCleared
  CrawlDelayIsKept
  RequestsAreBounded
PROPERTY ConnectionsAreApproved
CHECK_DEADLOCK FALSE

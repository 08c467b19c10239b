\* Two calls, of two addresses each, against every kind of receiver.  It
\* may stop behind the last call, which only the bound makes the last one.
CONSTANTS
  MaxCalls = 2
  MaxAddresses = 2
  RequestSize = 2
  StatusLine = 2
  MaxResponse = 3
  Statuses <- MCStatuses
SPECIFICATION FairSpec
INVARIANTS
  TypeOK
  NoDescriptorLeft
PROPERTIES
  KeepsPromise
CHECK_DEADLOCK FALSE

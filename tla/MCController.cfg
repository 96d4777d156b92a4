\* Two submission queues of two entries share a completion queue of three; the
\* admin rings have two entries.  A host that is down may stay down: no deadlock
\* check.
SPECIFICATION Spec
CONSTANTS
  SQs = {1, 2}
  sq_size = 2
  cq_size = 3
  depth = 2
INVARIANT EachCommandInOnePlace CompletionIsAnnounced AdminRingsAgree
PROPERTY CcIsAnswered EveryCommandIsReaped
CHECK_DEADLOCK FALSE

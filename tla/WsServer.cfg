\* Three clients on two descriptors.
CONSTANTS
  talks = talks
  greets = greets
  silent = silent
  Conns <- Three
  Fds = {1, 2}
  Objects = {o1, o2}
  MaxSent <- Talk
SPECIFICATION FairSpec
INVARIANTS TypeOK SessionsMatch EchoOwn EdgeKept
PROPERTIES Heard
\* The server waits for ever when no client comes, and may exit.
CHECK_DEADLOCK FALSE

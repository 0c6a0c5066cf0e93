\* Is anything left unread when the server goes to wait?
CONSTANTS
  talks = talks
  greets = greets
  silent = silent
  Conns <- Three
  Fds = {1, 2}
  Objects = {o1, o2}
  MaxSent <- Talk
SPECIFICATION Spec
INVARIANTS NoStall
CHECK_DEADLOCK FALSE

\* Three threads that ask for the network, two socket objects over two
\* descriptors, a response in three pieces behind two redirects, four pairs of
\* tokens over two starts, two threads that log, two frame records.
CONSTANTS
  Caller = {c1, c2, c3}
  Obj = {o1, o2}
  FD = {f1, f2}
  NoFD = NoFD
  Free = Free
  Other = Other
  Zero = f1
  Pieces = 3
  MaxHops = 2
  MaxToken = 4
  MaxStart = 2
  Logging = {t1, t2}
  MaxDepth = 4
  StackFrame = {r1, r2}
  Null = Null
  Wild = Wild
  Modules = {m1}
  BufferLines = 3
  NoSock = NoSock
  MaxConnects = 1
  MaxFrames = 1
SPECIFICATION Spec
INVARIANTS
  ResultIsTrue
  SslCloseTakesNothing
  FileHoldsToken
  GivesUpWithoutToken
  RecursionNeedsCause
  ReportedOnce
PROPERTIES
  HttpAnswers
  CrashIsShown
  LossIsReported
\* A program that ended, and a client that is deleted, stay as they are.
CHECK_DEADLOCK FALSE

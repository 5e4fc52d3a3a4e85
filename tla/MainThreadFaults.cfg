SPECIFICATION Spec
CONSTANTS
  t1 = t1 t2 = t2 c1 = c1 c2 = c2 p1 = p1 p2 = p2 p3 = p3
  sA = sA sB = sB ctx1 = ctx1 ctx2 = ctx2
  Threads <- MCThreads
  Boot = Boot NoOne = NoOne NoScope = NoScope NoCtx = NoCtx
  Jobs <- MCJobs
  Calls <- MCCalls
  Program <- PostsAndCall
  Scopes <- MCScopes
  ScopeOf <- MixedScopes
  Contexts <- MCContexts
  BootProgram <- TwoContexts
  Cap = 2
  MaxNesting = 2
  EvalHarness = FALSE
  FlakyToolkit = TRUE
  FlushMayFail = TRUE
  DrainPumps = TRUE
CHECK_DEADLOCK FALSE
PROPERTIES ContractSpec

SPECIFICATION Spec
CONSTANTS
  Users = {u1, u2}
  Calls <- MCCalls
  MaxCalls = 2
INVARIANT TypeOK
INVARIANT OwnResponse
INVARIANT PipesDrained
INVARIANT NoProcessLeft
INVARIANT NotClosedUnderUse
PROPERTY DoReturns
PROPERTY CloseReturns

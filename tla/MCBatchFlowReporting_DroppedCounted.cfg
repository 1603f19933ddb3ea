CONSTANTS
    r1 = r1  r2 = r2  r3 = r3  r4 = r4  s1 = s1  s2 = s2
    Requests <- MCRequests
    Schemas <- MCSchemas
    SchemaOf <- MCSchemaOf
    Invalid <- MCInvalid
    BufferSize = 2
    FlushSize = 2
    MaxConcurrentFlushes = 1
    ErrSize = 1
    ExecReporter = "extended"
SPECIFICATION RSpec
INVARIANT DroppedCounted

\* The instances are given in MCPlatform.tla.  Their counts and calls are bounded.
SPECIFICATION PlatformSpec
CHECK_DEADLOCK FALSE
INVARIANTS ClockKeepsTime DispatchServesAll PrintfWhole InputExact MemoryDisjoint CoreStartsRight
PROPERTIES DeviceServed PrintfReturns 

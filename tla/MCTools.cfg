\* The instances are given in MCTools.tla.  The components terminate or their
\* calls are bounded.
SPECIFICATION ToolsSpec
CHECK_DEADLOCK FALSE
INVARIANTS  PrintfExact  UdelayWaits ContextKept PagesOnce PlatformRead DevtabExact  
PROPERTIES CoreTickSpaced MapExact

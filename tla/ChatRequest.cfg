SPECIFICATION Spec
CONSTANTS
    Agents = {"FileAccessAgent", "PythonCodeAgent"}
    RootAgent = "FileAccessAgent"
    HandoffTo <- MCHandoffTo
    ToolsOf <- MCToolsOf
    ExecTool = "execute_code"
    DirectTools <- MCDirect
    Names <- MCNames
    Targets = {"FileAccessAgent", "PythonCodeAgent", "nobody"}
    None = "none"
    RealOut <- MCRealOut
    MaxCalls <- MCMaxCalls
    MaxEvents = 1
INVARIANTS ResultsFollowAsks StreamedWhole AloneCapturesOwn
PROPERTIES ControlMovesByHandoff EveryAnswerEnds
CHECK_DEADLOCK FALSE

SPECIFICATION Spec
CONSTANTS
    Token = {"a", "b", " "}
    Blank = " "
    None = None  ExecutorError = ExecutorError
    LeafOp = {"FORBIDS_PHRASE", "CITES"}
    Document <- MCDocument
    Evidence <- MCEvidence
    Config <- MCConfig
INVARIANT ReportedViolationStands

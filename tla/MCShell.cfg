SPECIFICATION ShellSpec
CONSTANTS
    MAXARGS = 3
    NPROC = 7
    NOFILE = 5
    Lines <- SomeLines
    MaxTokens = 5
INVARIANTS ParserCorrect WiredAsWritten PromptWhenDone
PROPERTIES JobsEnd
CHECK_DEADLOCK FALSE

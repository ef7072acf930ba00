CONSTANTS
    MaxCalls = 2

SPECIFICATION Spec

INVARIANT RepliesCorrelated

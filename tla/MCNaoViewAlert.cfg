SPECIFICATION ViewerSpec
INVARIANTS
    ErrorAlerted

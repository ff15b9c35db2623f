SPECIFICATION Spec
CONSTANTS
    Clients = {c1, c2}
    Commands <- MCCommands
    GenericArgs <- MCGenericArgs
    StartupOnly <- MCStartupOnly
    Components <- MCComponents
    Words <- MCWords
    DisableCommands <- MCDisableCommands
    InitMaxConns = 4
INVARIANT
    MaxConnsAgree

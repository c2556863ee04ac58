SPECIFICATION CompileSpec
CONSTANTS
    FlagsUsed <- MCFlags
    Word = 2
INVARIANTS
    CompileTypeOK
    OptionsReadBack
    SettingsReadBack
PROPERTY FailureChangesNothing

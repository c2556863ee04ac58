SPECIFICATION CompileSpec
CONSTANTS
    FlagsUsed <- MCFlags
    Word = 2
INVARIANT ErrorsAreNamed

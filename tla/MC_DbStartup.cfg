SPECIFICATION Spec
INVARIANT DbStartupTypeOK
INVARIANT ListenOnlyConfined
PROPERTY StartupEnds

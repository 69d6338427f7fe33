SPECIFICATION Spec
PROPERTY ListeningUntilKilled

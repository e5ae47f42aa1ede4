SPECIFICATION Spec
CONSTANTS
    NoLogger = NoLogger
    Problems = 1
    Algorithms = 1
INVARIANTS
    DefaultIsSetAlone

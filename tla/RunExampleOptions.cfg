SPECIFICATION Spec
CONSTANTS
    NoLogger = NoLogger
    Problems = 2
    Algorithms = 1
INVARIANTS
    ConstructorCanRegister

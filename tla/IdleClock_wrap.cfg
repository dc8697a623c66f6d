SPECIFICATION Spec
CONSTANTS
    Modulus = 8
    MaxUptime = 20
INVARIANTS
    NeverFalselyIdle
    ExactAtFirst

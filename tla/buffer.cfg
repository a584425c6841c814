\* Every method, the position setters included.
CONSTANTS
    Byte = {0, 1}
    Zero = 0
    MaxLen = 4
    MaxArg = 3
SPECIFICATION Spec
INVARIANTS TypeOK NeverPanics WriteAtEnd
PROPERTIES ImplementsByteQueue

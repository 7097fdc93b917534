\* A line of two stages whose first writes two chunks into a pipe of one.
CONSTANTS
    MaxStages = 2
    MaxOut = 2
    PipeCapacity = 1

SPECIFICATION Spec
PROPERTY CommandCompletes
\* The model runs one line; after it the shell waits for input.
CHECK_DEADLOCK FALSE

CONSTANTS
    Jobs = {j1, j2}
    Clients = {c1}
    Retained = 1
    NoJob = NoJob
SPECIFICATION Spec
PROPERTIES CancelledNeverStarts

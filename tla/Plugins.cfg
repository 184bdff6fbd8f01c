CONSTANTS
    one = one
    two = two
    Files = {1, 2}
    Ops = {one, two}
    Contents <- Sources
    Admins = {a1}
    NoFile = NoFile
    NoContent = NoContent
    NoOp = NoOp
    Nobody = Nobody
    Requests = 5
SPECIFICATION Spec
INVARIANTS TypeOK ServedIsBooked
PROPERTIES RefusalLeavesNoTrace RestartServesTheSame

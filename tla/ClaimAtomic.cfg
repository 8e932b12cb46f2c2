SPECIFICATION Spec
CONSTANTS
    c1 = c1  c2 = c2  a = a  b = b  me = me  them = them  pgp = pgp
    NoLeaf = NoLeaf  None = None  Initial = Initial
    Cmds <- MCCmds
    Slots <- MCSlots
    Vals = {a, b}
    Aad <- OneList
    Absent = NoLeaf
    AgeLists <- MCAgeLists
    Held = {me}
    Others = {pgp}
    Times <- MCTimes
    Invocations <- MCInvocations
    Starts <- MCStarts
    WritersOverlap = TRUE
INVARIANT WholeFile
CHECK_DEADLOCK FALSE

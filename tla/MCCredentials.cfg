\* Two users, two threads, every combination of the settings; one agent is replaced.
SPECIFICATION Spec
CONSTANTS
    u1 = u1
    u2 = u2
    None = None
    Users = {u1, u2}
    Workers = {w1, w2}
    AgentsOf <- MCAgentsOf
SYMMETRY WorkerSymmetry
INVARIANTS
    KeysStayWithTheirUser
    StoredKeyIsPresented
    RowServesAlone

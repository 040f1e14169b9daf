SPECIFICATION Spec
CONSTANTS
    Drafts = {d1, d2}
    Workers = {w1, w2}
    MaxSuffix = 1
    MaxCrashes = 1
SYMMETRY MCSymmetryAll
INVARIANT LogTellsStatus
INVARIANT FiledByStatus
INVARIANT NoProposalLost
INVARIANT VerdictBesideProposal
PROPERTY FinalFilesKept
PROPERTY ImplementsWorkflow
CONSTRAINT MCOneUnraced

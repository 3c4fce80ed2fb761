\* Liveness: no symmetry.
SPECIFICATION FairSpec
CONSTANTS
    g1 = g1
    g2 = g2
    a = a
    b = b
    l1 = l1
    l2 = l2
    d1 = d1
    d2 = d2
    Groups = {g1, g2}
    NoGroup = NoGroup
    NoPath = NoPath
    Paths = {a, b, NoPath}
    Labels = {l1, l2}
    NoDefault = NoDefault
    Defaults = {d1, d2, NoDefault}
    Scopes <- TwoScopes
    Workers = {w1, w2}
    Seeder = Seeder
    Nobody = Nobody
    Batches <- OneBatch
    Seeds <- BadSeeds
    Calls = {"batch", "template", "defaults", "list"}
    Faults = {"statement", "commit_ack", "row_stream"}
    MaxStarts = 2
INVARIANTS
    TypeOK
    AnswersOfOneDefinition
    ResultsAreTrue
PROPERTIES
    SeededBeforeServing
    ImplementsTemplateRegister
    StartupEnds
    CallsReturn

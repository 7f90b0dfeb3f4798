SPECIFICATION FactorySpec
CONSTANTS
    t1 = t1
    t2 = t2
    t3 = t3
    Threads <- FirstRequests
    Registries = {r1, r2, r3, r4, r5, r6}
    Nothing = Nothing
INVARIANTS FactoryTypeOK NullMeansFailure TablesSurvive FactoryRuns
PROPERTY FactorySettles

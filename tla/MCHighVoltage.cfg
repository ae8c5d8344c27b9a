SPECIFICATION FairSpec
INVARIANT TypeOK
INVARIANT InStep
INVARIANT ConfigurationIsReal
PROPERTY NewsIsReal
PROPERTY OutOfStepEnds

SPECIFICATION Spec
CONSTANT MaxRows = 2
INVARIANTS
    RevisionMeansSchema
    HeadIsTheModels
PROPERTY EvidenceSurvives
\* The schema may stay at any revision.
CHECK_DEADLOCK FALSE

SPECIFICATION ConfigSpec
CONSTANTS
    Messages <- MCMessages
    Erased = 255
    None = None
INVARIANT OnlyFramedStored
PROPERTIES ProcessedMeansStored StoredSurvives 

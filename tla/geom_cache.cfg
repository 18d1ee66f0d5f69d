SPECIFICATION MCSpec
CONSTANTS
  None = None
  square = square  ring = ring  dot = dot  far = far  void = void
  square_row = square_row  square_copy = square_copy 
  Values <- MCValues
  Kind <- MCKind
  Toasted <- MCToasted
  ValueOf <- MCValueOf
  Sites = {1, 2}
INVARIANTS ResultsAreOfTheArguments CountsAreUsers IndexesStandOnTheirKeys HashHoldsLiveObjects
PROPERTIES RepeatsFindAnIndex

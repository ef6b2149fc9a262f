CONSTANTS
  Gadgets = {"scale"}
  Utterances <- MCUtterances
  AnswersGiven <- MCAnswers
  Namesakes = {"Ana"}
  Vehicles = {"Uno"}
  Singleton = {"color"}
  MaxTurns = 4
SPECIFICATION ProposalSpec
INVARIANTS KeptOrTold OnlyWhatWasSaid AnswerKeepsTheRest
PROPERTY CorrectionsAreAimed
CHECK_DEADLOCK FALSE

SPECIFICATION Spec
CONSTANTS
  Names <- MCNames
  Types <- MCTypes
  Bodies <- MCBodies
  Programs <- MCPrograms
  MaxDepth = 7
INVARIANTS
  TypeOK InsertPointsAlive RefsAlive SurveyAgrees VerifyExact ProgramComplete
  SlotsLocal SurveysErased GCReady
PROPERTIES
  FinishedUntouched Termination

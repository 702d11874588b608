SPECIFICATION Spec
CONSTANTS
  Names <- MCNames
  Flawed = "flawed"
  Worlds <- MCWorlds
  Setups <- MCSetups
INVARIANTS
  
  
  ConfirmedIsReal
  FactsAreFacts

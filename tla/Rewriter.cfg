CONSTANTS
  NoFunc = NoFunc
  Files <- ThreeFiles
  Generated <- LastFile
  Ops <- ThreeOps
  Wrappers <- LastOp
  DispatcherOf <- Dispatchers
  FileScope = NoFunc
  Texts <- Code
  Cols <- OneTwo
  Vals <- OneTwo
  Finds <- Found
  Packages <- SomePackages
  NewLines <- SomeLines
  Scopes <- SomeScopes
  MaxEdits = 1
  MaxAccepts = 1
SPECIFICATION Spec
INVARIANTS IdentityFixed EverythingSettled JudgementsFollow FoundAgain

CONSTANTS
  r1 = r1
  f1 = f1
  f2 = f2
  t1 = t1
  v1 = v1
  v2 = v2
  NoHash = NoHash
  Versions <- TwoVersions
  TestVersions <- OneVersion
  Runs <- OneRun
  Fps <- TwoFps
  Decls <- OneDecl
  DeclOf <- SameDecl
  Tests <- OneTest
  EditAnytime = FALSE
SYMMETRY Alike
SPECIFICATION Spec
INVARIANTS CachedKillsObserved SurvivorsRetested

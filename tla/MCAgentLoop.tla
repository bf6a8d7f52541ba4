---------------------------- MODULE MCAgentLoop -----------------------------
(***************************************************************************)
(* lib with a source file of four lines and a test file, app with a file   *)
(* the agent creates, a tool without tests and a fixture.  The third line  *)
(* of lib's file can print like a header of app's fixture.                 *)
(***************************************************************************)
EXTENDS AgentLoop, TLC

MCFiles == {"lib.go", "lib_test.go", "app.go", "tool.go", "fix.go"}
MCFileOrder == <<"fix.go", "lib.go", "lib_test.go", "tool.go">>
MCPkgOf == [f \in MCFiles |->
  CASE f \in {"lib.go", "lib_test.go"} -> "lib" [] f = "app.go" -> "app"
    [] f = "tool.go" -> "tool" [] f = "fix.go" -> "testdata"]
MCSource == MCFiles \ {"lib_test.go"}
MCFuncOf == (<<"lib.go", 1>> :> "F") @@ (<<"lib.go", 2>> :> "F") @@ (<<"lib.go", 4>> :> "G")
         @@ (<<"app.go", 1>> :> "Main") @@ (<<"tool.go", 1>> :> "Tool") @@ (<<"fix.go", 1>> :> "Fix")
MCEditable == {<<"lib.go", 1>>, <<"lib.go", 2>>, <<"lib.go", 3>>, <<"lib.go", 4>>,
               <<"lib_test.go", 1>>, <<"tool.go", 1>>, <<"fix.go", 1>>}
MCCuttable == {<<"lib.go", 3>>}
MCLooks == <<"lib.go", 3>> :> "fix.go"
MCTestPkg == [t \in {"TestLib", "TestApp"} |-> IF t = "TestLib" THEN "lib" ELSE "app"]
MCReach == [t \in {"TestLib", "TestApp"} |->
  IF t = "TestLib" THEN {<<"lib.go", 1>>, <<"lib.go", 2>>}
  ELSE {<<"app.go", 1>>, <<"lib.go", 4>>}]
MCFuncRank == [g \in {"lib", "app", "tool", "testdata"} \X {"F", "G", "Main", "Tool", "Fix"} |->
  10 * (CASE g[1] = "app" -> 1 [] g[1] = "lib" -> 2 [] g[1] = "testdata" -> 3 [] g[1] = "tool" -> 4)
  + (CASE g[2] = "F" -> 1 [] g[2] = "Fix" -> 2 [] g[2] = "G" -> 3 [] g[2] = "Main" -> 4 [] g[2] = "Tool" -> 5)]
MCLooping == {<<"app.go", 1>>}
MCDrift == {<<"lib.go", 4>>, <<"tool.go", 1>>}
MCOthers == {<<"lint", 0>>, <<"deploy", 0>>}
MCAlike == {<<"deploy", 0>>}
=============================================================================

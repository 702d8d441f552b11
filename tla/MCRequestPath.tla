--------------------------- MODULE MCRequestPath ---------------------------
(* Constant values for model-checking RequestPath.                         *)
EXTENDS RequestPath

MCPeers == {{}, {"reader"}, {"operator", "reader"}, {"administrator"}, {"root"}}

MCBrowserBodies ==
  {{}, {"text"}, {"expected_generation"}, Fields("LoadInstanceMutation"),
   Fields("ImportImageMutation")}
=============================================================================

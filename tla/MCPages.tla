------------------------------ MODULE MCPages ------------------------------
(* The instance of Pages for TLC: two management actions that need a text  *)
(* and one that needs a file, and the three kinds of mappings.             *)
EXTENDS Pages, TLC

CONSTANTS setText, setName, upload

MCPayloadType == setText :> "text/plain" @@ setName :> "text/plain" @@ upload :> "file"
MCMappings == {"responseMapping", "queryParameters", "responseHeaderMapping"}
=============================================================================

--------------------------- MODULE MCBridgeUpdate ---------------------------
(* A small instance of BridgeUpdate: one runtime of each kind.             *)
EXTENDS BridgeUpdate

CONSTANTS codex, model, service

UpdateBackend == [t \in Targets |-> IF t = codex THEN "agent"
                                   ELSE IF t = model THEN "local-model" ELSE "openclaw"]

=============================================================================

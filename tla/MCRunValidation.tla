--------------------------- MODULE MCRunValidation ---------------------------
(* The plugins of the registry (internal/plugins/plugin.go:19-24). Validate of
   scriptinjector returns true unconditionally; the other two can reject. *)
EXTENDS RunValidation

CONSTANTS browser, scriptinjector, coraza

MCPlugins == {browser, scriptinjector, coraza}
MCCanReject == {browser, coraza}
=============================================================================

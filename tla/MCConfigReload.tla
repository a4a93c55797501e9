--------------------------- MODULE MCConfigReload ---------------------------
(* A property file that is replaced, removed and truncated over three      *)
(* seconds while the log file rotates over three days.                     *)
EXTENDS ConfigReload

MCKeys == {"debug", "log_sys_out"}
Texts(debug, sysOut) == [k \in MCKeys |-> IF k = "debug" THEN debug ELSE sysOut]
MCEnv == Texts("true", "false")
MCContents == {Texts("", "junk"), Bad}
MCOldFiles == {-2}
=============================================================================

---------------------------- MODULE MCSyncSummary ----------------------------
(***************************************************************************)
(* Two findings on two servers, counted under one sheet each.  The second  *)
(* has the name of the first in an instance of the same name, so that the  *)
(* statistics take its exception for the first one's as well; the first    *)
(* never matches its instance in the diff.                                 *)
(***************************************************************************)
EXTENDS SyncSummary

CONSTANTS sql1, sql2, login, config, m1, note, word

Servers == {sql1, sql2}
TheKeys == {login, config}
Places == login :> sql1 @@ config :> sql2
Sheets == login :> "Server Logins" @@ config :> "Configuration"
PassFail == {"PASS", "FAIL"}
Lookalikes == login :> {login, config} @@ config :> {config}
==============================================================================

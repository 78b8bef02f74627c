---------------------------- MODULE MCSyncEngine ----------------------------
(***************************************************************************)
(* Two instances of the engine.  "Long": one finding on the first of two   *)
(* servers, so that a scan can reach both servers, either or none, over    *)
(* three runs, a baseline and two syncs.  "Wide": a finding on each server *)
(* of which the second never matches its instance, over two runs.          *)
(***************************************************************************)
EXTENDS SyncEngine, TLC

CONSTANTS sql1, sql2, login, config

Servers == {sql1, sql2}
AllOutcomes == {"PASS", "FAIL", None}

LongKeys == {login}
LongInstanceOf == login :> sql1

WideKeys == {login, config}
WideInstanceOf == (login :> sql1) @@ (config :> sql2)
WideUnmatchedKeys == {config}
=============================================================================

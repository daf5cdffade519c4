---------------------------- MODULE MCCoreRestart ---------------------------
(***************************************************************************)
(* Four commands: a call with a configuration to fetch, the configuration   *)
(* of the login page, a plain call and an answer to a call.                 *)
(***************************************************************************)
EXTENDS CoreRestart, TLC

MCCommands  == {"callWithConfig", "loginPage", "plainCall", "answer"}
MCMainOf    == "callWithConfig" :> "call" @@ "loginPage" :> "fetch-config"
               @@ "plainCall" :> "call" @@ "answer" :> "accept"
MCWithFetch == {"callWithConfig", "loginPage"}
=============================================================================

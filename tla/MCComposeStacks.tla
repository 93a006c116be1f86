-------------------------- MODULE MCComposeStacks --------------------------
(***************************************************************************)
(* A small instance of ComposeStacks for TLC: two operations on one        *)
(* project with versions of their own.  The first brings a compose file    *)
(* and a .env; the second brings a .env.dockhand and has its compose file  *)
(* inline, so that Execute writes it under the first standard name.  An    *)
(* operation whose stack comes on stdin touches no file: for the rest it   *)
(* is the second one after its files.                                      *)
(***************************************************************************)
EXTENDS ComposeStacks

MCOps == {"up1", "up2"}
MCProbes == {"hello"}
MCInstalled == {"v1", "v2"}
MCProjects == {"web"}
MCProjectOf == [o \in MCOps |-> "web"]
MCNames == {"docker-compose.yml", "compose.yaml", ".env", ".env.dockhand"}
MCStandard == <<"docker-compose.yml", "compose.yaml">>
MCEnvFiles == {".env", ".env.dockhand"}
MCFilesOf == [up1 |-> {"docker-compose.yml", ".env"}, up2 |-> {".env.dockhand"}]
MCExplicitOf == [o \in MCOps |-> "none"]
MCInline == {"up2"}
MCVersionOf == [up1 |-> "1", up2 |-> "2"]
=============================================================================

---------------------------- MODULE MCCommandLine ----------------------------
(* One client, which is a terminal, a browser or a command line. *)
EXTENDS CommandLine

MCFronts == [Clients -> {"terminal", "browser", "command"}]

MCHows == {h \in [mode : {"run", "chat", "resume"}, interactive : BOOLEAN] :
              h.mode # "run" => h.interactive}
=============================================================================

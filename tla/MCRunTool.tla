----------------------------- MODULE MCRunTool -----------------------------
(***************************************************************************)
(* One thing at a time writes into watched directories beside the editor:   *)
(* the application, the -prebuild command, a go tool that copies, or none.  *)
(***************************************************************************)
EXTENDS RunTool

MCInit == /\ Init
          /\ <<noisy, generates, copies>> \in
               {<<n, g, c>> \in BOOLEAN \X BOOLEAN \X BOOLEAN :
                  ~(n /\ g) /\ ~(n /\ c) /\ ~(g /\ c)}

MCSpec == MCInit /\ [][Next]_vars /\ Fairness
=============================================================================

------------------------------ MODULE MCServe ------------------------------
(* A small instance of Serve: one PDF of two contents, two chunks and no   *)
(* text at all, and settings that use each supervisor fully, partly or not *)
(* at all.                                                                 *)
EXTENDS Serve, TLC

MCFiles == <<"a.pdf">>
MCVersions == {"v1", "scan"}
MCChunksOf == ("v1" :> 2) @@ ("scan" :> 0)

Full == [qdrant |-> "managed", stop_on_exit |-> TRUE,
         openshell |-> TRUE, delete_on_exit |-> TRUE, gateway |-> TRUE]
Kept == [Full EXCEPT !.stop_on_exit = FALSE, !.delete_on_exit = FALSE]
Bare == [qdrant |-> "off", stop_on_exit |-> FALSE,
         openshell |-> FALSE, delete_on_exit |-> FALSE, gateway |-> FALSE]
Compose == [Bare EXCEPT !.qdrant = "watched", !.gateway = TRUE]
MCSettings == {Full, Bare, Compose}
MCManaged == {Full, Kept}
=============================================================================

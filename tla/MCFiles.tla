------------------------------ MODULE MCFiles ------------------------------
(* Small instances of Files: the sequences of requests worth interleaving.   *)
EXTENDS Files

MCPlans == {<<"text", "text", "restore">>, <<"document", "edit", "restore">>,
            <<"copy", "edit", "unused">>, <<"snapshot", "write", "unused">>}
=============================================================================

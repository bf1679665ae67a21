----------------------------- MODULE MCCodeMode -----------------------------
(* A small instance of CodeMode: scripts that await each call or gather them. *)
EXTENDS CodeMode

MCPrograms ==
    {<<"gated", "await">>, <<"write">>,
     <<"write", "await", "gated", "await", "read", "await", "write", "await">>,
     <<"fetch", "await", "write", "await">>,
     <<"fetch", "await", "gated", "await", "write", "await">>,
     <<"fetch", "write", "await">>,
     <<"read", "gated", "write", "await">>,
     <<"gated", "write", "await">>,
     <<"write", "gated", "await">>}
=============================================================================

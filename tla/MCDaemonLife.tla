---------------------------- MODULE MCDaemonLife ----------------------------
(***************************************************************************)
(* DaemonLife with two callers.  They are interchangeable: of two plays    *)
(* that differ only in who runs which command, one is enough.              *)
(***************************************************************************)
EXTENDS DaemonLife

CONSTANTS c1, c2

MCPlays ==
    {p \in [{c1, c2} -> Start] :
        <<p[c1], p[c2]>> \in
            {<<"start", "start">>, <<"idleLook", "start">>, <<"idleLook", "idleLook">>,
             <<"start", "stopLook">>, <<"idleLook", "stopLook">>, <<"stopLook", "stopLook">>}}
=============================================================================

---------------------------- MODULE MCRdcDaemon -----------------------------
(* Instance of RdcDaemon for TLC: one daemon with any of five command lines, *)
(* which the lock files do not depend on, and one without options.           *)
EXTENDS RdcDaemon

MCCmdLines ==
  <<{<<>>, <<"--version">>, <<"--port bad">>, <<"--pinned_cert", "--port", "--unauth_comm">>,
     <<"--unauth_comm", "--other", "--pinned_cert">>},
    {<<>>}>>
=============================================================================

---------------------------- MODULE MCTcpFraming ----------------------------
(***************************************************************************)
(* TcpFraming with three frames whose bodies are shorter than a header, as *)
(* long as one, and longer.                                                *)
(***************************************************************************)
EXTENDS TcpFraming

MCOffset == <<0, 6, 14, 24>>
=============================================================================

---------------------------- MODULE MCHttpClient ----------------------------
(***************************************************************************)
(* An instance of HttpClient: codes on both sides of 200 and 300, and a    *)
(* line that is no status line.                                            *)
(***************************************************************************)
EXTENDS HttpClient

MCStatuses == {-1, 199, 204, 300}
=============================================================================

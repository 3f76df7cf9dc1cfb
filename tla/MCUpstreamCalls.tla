--------------------------- MODULE MCUpstreamCalls ---------------------------
(***************************************************************************)
(* A small instance of UpstreamCalls for TLC.  Sizes are in thousands of   *)
(* characters: startup_info and an answer have up to 8, a report's query   *)
(* joins all of them.                                                      *)
(***************************************************************************)
EXTENDS UpstreamCalls

ShippedSizes ==
  [h \in Handlers |-> CASE h = "create"   -> {1, 8}
                        [] h = "submit"   -> {1, 9}
                        [] h = "complete" -> {16, 24}]
=============================================================================

----------------------------- MODULE MCResponse -----------------------------
(* A small instance of Response for TLC.                                   *)
EXTENDS Response

(* Room for a long line and a short one, for a short one only, for none. *)
MCFirstLines    == {8, 12, 18}
MCHeaderLengths == {2, 7}
(* Five characters fill the first twice, with one left. *)
MCStreamSizes   == {2, 3}
=============================================================================

---------------------------- MODULE MCRoundtrip ----------------------------
(* Small instances of Roundtrip for TLC.                                   *)
EXTENDS Roundtrip

Cfg(protocol, serving, isWorker, reads) ==
  [protocol |-> protocol, serving |-> serving, isWorker |-> isWorker,
   reads |-> reads]
Req(head, body, close, match, flaws) ==
  [head |-> head, body |-> body, close |-> close, match |-> match,
   flaws |-> flaws]

(* A POST with an empty line in front and a body in two pieces, one with a *)
(* body that holds CRLFCRLF, a GET that closes the connection, and a head  *)
(* too long for the buffer.                                                *)
Post     == Req(1, 2, FALSE, FALSE, {"lead"})
Upload   == Req(1, 1, FALSE, TRUE, {"mimic"})
Get      == Req(1, 0, TRUE, TRUE, {})
LongHead == Req(3, 0, FALSE, TRUE, {})

(* Heads whose CRLFCRLF comes in two pieces: one without blanks, and one   *)
(* with a line without a colon in front of its Content-Length.             *)
Bare     == Req(2, 1, FALSE, TRUE, {"split", "blankless"})
Unnamed  == Req(2, 1, TRUE, TRUE, {"split", "colonless"})

AllRequests == {Post, Upload, Get, LongHead, Unnamed}
FewRequests == {Post, Upload}
OddRequests == {Upload, Bare}

AllConfigs  == {Cfg("http", "servlet", FALSE, TRUE), Cfg("https", "none", FALSE, TRUE),
                Cfg("fastcgi", "router", TRUE, TRUE)}
HttpConfigs == {Cfg("http", "servlet", FALSE, TRUE), Cfg("http", "router", FALSE, TRUE)}
LiveConfigs == {Cfg("http", "router", FALSE, TRUE), Cfg("http", "servlet", FALSE, FALSE)}
TlsConfigs  == {Cfg("https", "servlet", FALSE, TRUE)}
=============================================================================

--------------------------- MODULE HttpExchange ---------------------------
(***************************************************************************)
(* What one ILEastic connection promises its client, without saying how:   *)
(* as long as the server keeps track of where requests begin, it accepts   *)
(* one only when the client has sent one; whatever it accepts is answered  *)
(* by one header, any number of chunks and one end marker, nothing of the  *)
(* next response comes before that marker, and the response is eventually  *)
(* ended when the client takes what is written.  Roundtrip implements it.  *)
(***************************************************************************)
EXTENDS Naturals, Sequences

VARIABLES asked,    \* number of requests the client has started to send
          served,   \* number of requests the server has accepted
          phase,    \* "idle", "headless", "streaming" or "closed"
          wire,     \* everything the server has sent, in order
          astray,   \* the server takes other bytes for the head of a request
          stalled   \* the client does not take what is written

vars == <<asked, served, phase, wire, astray, stalled>>

Token(kind, n) == [kind |-> kind, req |-> n]

(* The header goes out with the first piece of the response. *)
Prefix == IF phase = "headless" THEN <<Token("header", served)>> ELSE <<>>

Init ==
  /\ asked = 0
  /\ served = 0
  /\ phase = "idle"
  /\ wire = <<>>
  /\ astray = FALSE
  /\ stalled \in BOOLEAN

Ask ==
  /\ asked' = asked + 1
  /\ UNCHANGED <<served, phase, wire, astray, stalled>>

Accept ==
  /\ phase = "idle"
  /\ served < asked \/ astray
  /\ served' = served + 1
  /\ phase' = "headless"
  /\ UNCHANGED <<asked, wire, astray, stalled>>

Write ==
  /\ phase \in {"headless", "streaming"}
  /\ wire' = wire \o Prefix \o <<Token("chunk", served)>>
  /\ phase' = "streaming"
  /\ UNCHANGED <<asked, served, astray, stalled>>

Finish ==
  /\ phase \in {"headless", "streaming"}
  /\ wire' = wire \o Prefix \o <<Token("end", served)>>
  /\ phase' = "idle"
  /\ UNCHANGED <<asked, served, astray, stalled>>

LoseTrack ==
  /\ phase = "idle"
  /\ astray' = TRUE
  /\ UNCHANGED <<asked, served, phase, wire, stalled>>

(* The client is gone, and writes no longer wait for it. *)
Release ==
  /\ stalled' = FALSE
  /\ UNCHANGED <<asked, served, phase, wire, astray>>

Close ==
  /\ phase = "idle"
  /\ phase' = "closed"
  /\ UNCHANGED <<asked, served, wire, astray, stalled>>

Next == Ask \/ Accept \/ Write \/ Finish \/ LoseTrack \/ Release \/ Close

Safety == Init /\ [][Next]_vars

(* A servlet that returns lets the server end its response. *)
Spec == Safety /\ WF_vars(~stalled /\ Finish)
=============================================================================

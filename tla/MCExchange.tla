------------------------------ MODULE MCExchange ------------------------------
(* Two requests, in messages of one, two and three segments, with the sizes  *)
(* where the number of segments steps: 300 bytes are exactly 400 base64      *)
(* characters.                                                               *)
EXTENDS Exchange

CONSTANTS long, short, e1, e2

MCRequestIds == {long, short} \X {"request", "response"}
MCSize == [m \in MCRequestIds |-> CASE m = <<long, "request">> -> 301
                                    [] m = <<long, "response">> -> 900
                                    [] m[1] = short -> 300]
MCEntry == [r \in {long, short} |-> IF r = long THEN e1 ELSE e2]
==============================================================================

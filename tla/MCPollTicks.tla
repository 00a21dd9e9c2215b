------------------------------- MODULE MCPollTicks -------------------------------
(* Two overlapping poll ticks and the deliveries of one webhook event.            *)
EXTENDS TriggerIngest

CONSTANTS p1, p2, w
MCCalls == {p1, p2, w}
MCDoor == [c \in MCCalls |-> IF c = w THEN "webhook" ELSE "poll"]
MCKeyOf == [c \in MCCalls |-> 10]
==================================================================================

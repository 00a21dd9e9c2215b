-------------------------------- MODULE MCRunCap --------------------------------
(* Three manual triggers, two of them with the same idempotency key, a cron tick *)
(* and a poll tick at the edge of the run cap.                                    *)
EXTENDS TriggerIngest

CONSTANTS p, t, m1, m2, m3
MCCalls == {p, t, m1, m2, m3}
MCDoor == [c \in MCCalls |-> IF c = p THEN "poll" ELSE IF c = t THEN "cron" ELSE "manual"]
MCKeyOf == [c \in MCCalls |-> IF c = t THEN 10 ELSE IF c = m3 THEN 12 ELSE 11]
==================================================================================

-------------------------- MODULE MCConnectionRefresh --------------------------
(* Two executions, the refresh job and the Google client around one expiry.        *)
EXTENDS ConnectionRefresh

CONSTANTS e1, e2
================================================================================

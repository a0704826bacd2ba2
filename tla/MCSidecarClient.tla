---------------------------- MODULE MCSidecarClient ----------------------------
(* Two callers, a worker and one Close over an endpoint that goes away.        *)
EXTENDS SidecarClient

CONSTANTS c1, c2

===============================================================================

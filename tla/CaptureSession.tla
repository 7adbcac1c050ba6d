--------------------------- MODULE CaptureSession ---------------------------
(***************************************************************************)
(* What the daemon relies on when it starts and stops a frame source: a    *)
(* session begins once a start has installed the handler, it ends with a   *)
(* stop or with the start that throws, and no failure finds a handler      *)
(* outside of one.  It knows no filters, displays and refresh tasks.       *)
(***************************************************************************)
CONSTANT Reports

VARIABLES
    source,   \* "off", "on" (a handler is installed) or "stopping"
    reported  \* failures that have found a handler

Init ==
    /\ source = "off"
    /\ reported = {}

Begin ==
    /\ source = "off"
    /\ source' = "on"
    /\ UNCHANGED reported

\* The start whose handler this was throws.
Abort ==
    /\ source = "on"
    /\ source' = "off"
    /\ UNCHANGED reported

Release ==
    /\ source = "on"
    /\ source' = "stopping"
    /\ UNCHANGED reported

Stopped ==
    /\ source = "stopping"
    /\ source' = "off"
    /\ UNCHANGED reported

Report(r) ==
    /\ source = "on"
    /\ reported' = reported \cup {r}
    /\ UNCHANGED source

Next ==
    \/ Begin \/ Abort \/ Release \/ Stopped
    \/ \E r \in Reports : Report(r)

Spec == Init /\ [][Next]_<<source, reported>>

=============================================================================

--------------------------- MODULE MCControllerFeed ---------------------------
\* An instance of ControllerFeed whose source has an irregular cron line.
EXTENDS ControllerFeed

\* Two units of time are a second: the source is due every other second, and later every second.
MCInterval == [t \in Times |-> IF t < 4 THEN 4 ELSE 2]
=============================================================================

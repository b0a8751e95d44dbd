---------------------------- MODULE MCSeoEmployee ----------------------------
\* Instances of the product small enough for TLC: one target, one plan, and two
\* timezones, of which the east has its midnight first.  The target begins there, so
\* that moving west may take the date back.
EXTENDS SeoEmployee

OneTarget == {"site"}
OneMode == {"daily_monitor"}
OneZone == {"east"}
TwoZones == {"east", "west"}

East == [t \in Targets |-> "east"]
Calendar == [z \in Zones |-> [c \in 0..MaxClock |-> IF z = "east" THEN c ELSE 0]]
=============================================================================

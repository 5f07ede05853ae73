-------------------------- MODULE MCIngestSchedule --------------------------
\* Calendars, accounts and claims for the runs of IngestSchedule.
EXTENDS IngestSchedule

CONSTANTS c1, oauth, caldav, t1, t2

OneOAuth == [c \in {c1} |-> oauth]
OneCalDAV == [c \in {c1} |-> caldav]

Symmetry == {[x \in {t1, t2} |-> x], [x \in {t1, t2} |-> IF x = t1 THEN t2 ELSE t1]}
=============================================================================

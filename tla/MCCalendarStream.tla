--------------------------- MODULE MCCalendarStream ---------------------------
(* Small instances of CalendarStream. *)
EXTENDS CalendarStream

MCVersions == {"1.0", "2.0"}
=============================================================================

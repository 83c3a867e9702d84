----------------------------- MODULE Intervals -----------------------------
(***************************************************************************)
(* Booking windows.  The backend compares windows in three places: the     *)
(* service (validateInterval, overlapsWindow), the SQL of SeatHasConflict  *)
(* and the tstzrange of the EXCLUDE constraint.  All of them read a window *)
(* as the half-open interval [start_at, end_at).                           *)
(***************************************************************************)
EXTENDS Integers

(* A window with both ends set that does not start before it ends.         *)
ValidInterval(x) == x.start_at < x.end_at

(* A comparison that looks at the start of the later window only.          *)
MutStartsInside(x, y) == x.start_at <= y.start_at /\ x.end_at > y.start_at

(* The comparison of SeatHasConflict and overlapsWindow, which is also the *)
(* && of two '[)' ranges.                                                  *)
Overlaps(x, y) == x.start_at < y.end_at /\ x.end_at > y.start_at

(* Instant t lies in the window.                                           *)
Covers(x, t) == x.start_at <= t /\ t < x.end_at
=============================================================================

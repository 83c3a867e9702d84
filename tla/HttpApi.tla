------------------------------ MODULE HttpApi ------------------------------
(***************************************************************************)
(* What httpapi/handler.go decides without the service: which middleware   *)
(* stands before a route, and which status an error is answered with.      *)
(***************************************************************************)
EXTENDS Integers

(* The routes behind authMiddleware, named after the handlers that serve   *)
(* them.                                                                   *)
UserRoutes == {"me", "availableSeats", "coworkingMap", "createBooking", "myBookings",
               "cancelBooking"}

AdminRoutes ==
  {"adminListCoworkings", "adminCreateCoworking", "adminUpdateCoworking",
   "adminDeleteCoworking", "adminListSeats", "createSeat", "updateSeat", "deleteSeat",
   "adminListBookings", "adminUpdateBooking", "updateLimit", "report", "adminLogs"}

ProtectedRoutes == UserRoutes \cup AdminRoutes

(* authMiddleware runs first on both groups, adminMiddleware after it.     *)
AdminMiddleware(route, user) == route \in AdminRoutes => user.role = "admin"

(* The routes whose service method asks ensureAdmin: the handlers answer   *)
(* it with the constant RoleAdmin, so the middleware is the only check of  *)
(* the caller's own role.                                                  *)
EnsureAdmin ==
  {"adminListSeats", "adminCreateCoworking", "adminUpdateCoworking", "adminDeleteCoworking",
   "createSeat", "updateSeat", "deleteSeat", "adminListBookings", "adminUpdateBooking",
   "updateLimit", "report", "adminLogs"}

(* The sentinel errors of internal/domain.                                 *)
AppErrors ==
  {"ErrInvalidCredentials", "ErrEmailTaken", "ErrUnauthorized", "ErrForbidden", "ErrNotFound",
   "ErrInvalidInput", "ErrSeatUnavailable", "ErrLimitExceeded", "ErrBookingNotCancelable",
   "ErrConflictState", "ErrNotImplemented"}

(* writeAppError: an error it does not know (a failed statement, a foreign *)
(* key) is the server's fault.                                             *)
StatusOf(err) ==
  CASE err = "ErrInvalidInput" -> 400
    [] err \in {"ErrInvalidCredentials", "ErrUnauthorized"} -> 401
    [] err = "ErrForbidden" -> 403
    [] err = "ErrNotFound" -> 404
    [] err \in {"ErrSeatUnavailable", "ErrLimitExceeded", "ErrBookingNotCancelable",
                "ErrConflictState", "ErrEmailTaken"} -> 409
    [] OTHER -> 500

Statuses == {200, 201, 204} \cup {StatusOf(err) : err \in AppErrors}
=============================================================================

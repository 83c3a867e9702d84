----------------------------- MODULE MCAccounts -----------------------------
(***************************************************************************)
(* Accounts on small instances.  Anna types her address in two spellings.  *)
(* The id of device D has a capital letter, so the address derived from it *)
(* is not the one a form would make of it; somebody registers the address  *)
(* derived from device e.                                                  *)
(***************************************************************************)
EXTENDS Accounts, TLC

CONSTANTS D, e

Folded ==
  [a \in {"boss", "Anna", "anna", "device-D", "device-d", "device-e"} |->
     CASE a = "Anna" -> "anna" [] a = "device-D" -> "device-d" [] OTHER -> a]
AllAddresses == DOMAIN Folded

PeopleAndDerived == {"Anna", "anna", "boss", "device-e"}

(* One for everybody, one that the router and the service both keep for    *)
(* administrators, and one that the router alone does.                     *)
OneOfEachKind == {"coworkingMap", "report", "adminListCoworkings"}

DeviceAddresses == [d \in Devices |-> IF d = D THEN "device-D" ELSE "device-e"]

Interchangeable == Permutations(Workers) \cup Permutations(Passwords)
=============================================================================

---------------------------- MODULE MCNotifications ----------------------------
(* Notifications on small sets for TLC. *)
EXTENDS Notifications, TLC

CONSTANT s1     \* a member of the staff

(* One member of the staff pauses the e-mail and resumes it. *)
MCSwitches == {<<s1, "email">>}

(* Handlers are interchangeable. *)
Symmetry == Permutations(Call)
=============================================================================

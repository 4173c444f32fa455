------------------------ MODULE MCCalendarInvitations ------------------------
(* Two operations at a time.  Sessions share nothing but the operation: one *)
(* session stands for the one that it is about when it fails or is overtaken. *)
EXTENDS CalendarInvitations
CONSTANTS c1, c2, s1

MCCalls == {c1, c2}
MCSessions == {s1}
=============================================================================

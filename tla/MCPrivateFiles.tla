--------------------------- MODULE MCPrivateFiles ---------------------------
(* One file with one owner: two PUT requests, two deliveries at a time. *)
EXTENDS PrivateFiles

CONSTANTS a1, u1, u2, f1, c1, c2

MCAuthorizers == {a1}
MCUploaders == {u1, u2}
MCFinalizers == {f1}
MCCleaners == {c1, c2}
=============================================================================

--------------------------- MODULE MCUploadServer ---------------------------
(* UploadServer with two uploads that claim one key (two in the replay      *)
(* run), one import of the desktop and two processes.                      *)
EXTENDS UploadServer, TLC

CONSTANTS u1, u2, d1, k1, k2, p1, p2

MCUploads == {u1, u2}
MCKeys    == {k1, k2}
MCProcs   == {p1, p2}
=============================================================================

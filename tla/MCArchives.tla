----------------------------- MODULE MCArchives -----------------------------
(* Instance of Archives for TLC: two overlapping requests and downloads, and *)
(* a slug that is given away twice.                                          *)
EXTENDS Archives

CONSTANTS q1, q2, q3, d1, d2

MCRequests == {q1, q2, q3}
MCDownloads == {d1, d2}
=============================================================================

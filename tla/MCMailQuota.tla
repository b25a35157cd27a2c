---------------------------- MODULE MCMailQuota ----------------------------
(* MailQuota with a limited provider and one without a limit, for TLC. *)
EXTENDS MailQuota

CONSTANTS s1, s2

MCSenders == {s1, s2}
MCLimit == <<1, 0>>
=============================================================================

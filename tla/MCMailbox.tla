----------------------------- MODULE MCMailbox -----------------------------
(* Small instances of MailboxLimits for TLC.                               *)
EXTENDS MailboxLimits, TLC

CONSTANTS s1, s2

TwoSenders == {s1, s2}
OneSender == {s1}

One == {1}
ZeroToTwo == 0..2
=============================================================================

--------------------------- MODULE MCLegacyTransfer ---------------------------
(* Model values for LegacyTransfer: every list of up to two RV directives  *)
(* over every protocol, DNS and IP instruction shape, and To1d's with up   *)
(* to two TO2 addresses.                                                   *)
EXTENDS LegacyTransfer

MCDirChoices == BoundedSeq(Directives, 2)
MCMaxAddrs == 2
====

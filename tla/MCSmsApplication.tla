-------------------------- MODULE MCSmsApplication --------------------------
(* Constant values with which TLC checks SmsApplication.                   *)
EXTENDS SmsApplication

ShortPatterns == {<<7>>, <<7, 8, 9>>}
=============================================================================

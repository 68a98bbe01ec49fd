-------------------------------- MODULE MCBrain --------------------------------
(***************************************************************************)
(* Rows of two accounts and several platforms, for the jobs that carry     *)
(* them to the Brain.                                                      *)
(***************************************************************************)
EXTENDS BrainIngest

MCNamespaces == <<"personal", "professional">>

\* Two ticks to the millisecond, each row of an account in one of its own.
MCRows     == 1..3
MCAccount  == <<"personal", "personal", "professional">>
MCPlatform == <<"whatsapp", "telegram", "instagram">>
MCStamp    == <<1, 3, 1>>

\* Two rows of an account in one millisecond, and another after them.
MCAccountClose  == <<"personal", "personal", "personal">>
MCPlatformClose == <<"whatsapp", "telegram", "whatsapp">>
MCStampClose    == <<3, 3, 4>>
================================================================================

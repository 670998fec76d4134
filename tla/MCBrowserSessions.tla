--------------------------- MODULE MCBrowserSessions ---------------------------
(* Two sign-ins, one after or beside the other, through the same or two     *)
(* Zitadel sessions.                                                        *)
EXTENDS BrowserSessions
=============================================================================

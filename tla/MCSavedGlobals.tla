--------------------------- MODULE MCSavedGlobals ---------------------------
(* A small instance of SavedGlobals for TLC. *)
EXTENDS SavedGlobals

CONSTANTS cli, fpm

TwoHosts == {cli, fpm}
=============================================================================

------------------------------- MODULE MCSite -------------------------------
(***************************************************************************)
(* Five checkouts of three versions.  The policy of 2 pins packages built  *)
(* from 1, that of 3 still pins version 1 but other bytes of it, that of 4 *)
(* the packages of version 2 and that of 5 those of version 3.  4 and 5    *)
(* retain the release before the one they pin; 2 and 3 retain none.        *)
(***************************************************************************)
EXTENDS RepositorySite

MCRevisions == 1 .. 5
MCVersion == <<1, 1, 2, 3, 3>>
MCPins == <<0, 1, 2, 3, 4>>
MCRetains == <<0, 0, 0, 1, 3>>
=============================================================================

------------------------ MODULE MCRemoteConnections ------------------------
(***************************************************************************)
(* Small instances of RemoteConnections for TLC.  Three offers: one that is*)
(* kept, one that replaces it or fails, and one after that.                *)
(***************************************************************************)
EXTENDS RemoteConnections

CONSTANTS o1, o2, o3
=============================================================================

--------------------------- MODULE MCOrbitaClient ---------------------------
(* A small instance of OrbitaClient.                                         *)
EXTENDS OrbitaClient
=============================================================================

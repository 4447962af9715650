--------------------------- MODULE MCRemoteFetch ---------------------------
(* RemoteFetch for TLC. *)
EXTENDS RemoteFetch

CONSTANTS u1, u2

MCUrls == {u1, u2}
\* A local file between two URLs: the second is included by a loader that has no
\* stop flag.
MCDoc == <<u1, LocalFile, u2>>
=============================================================================

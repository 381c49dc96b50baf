---------------------------- MODULE MCHttpClient ----------------------------
(* A small instance of HttpClient: one host and one path to be sent to.    *)
EXTENDS HttpClient

CONSTANTS api, mirror, stopPath, movedPath

OtherHostsDef == {mirror}
OtherPathsDef == {movedPath}
=============================================================================

-------------------------- MODULE MCServerProcess --------------------------
(***************************************************************************)
(* Two servers come up over one database; one of them is asked, by one     *)
(* client, with two requests at a time.                                    *)
(***************************************************************************)
EXTENDS ServerProcess

CONSTANTS east, west, client

MCKeys == {<<east, client>>}
MCCalls == {<<east, 1>>, <<east, 2>>}
=============================================================================

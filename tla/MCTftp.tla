------------------------------- MODULE MCTftp -------------------------------
(* Two servers: one with a file of two blocks and an empty one, one with a *)
(* file that has a block more than there are block numbers.                *)
EXTENDS Tftp

CONSTANTS h1, h2

MCHosts == {h1, h2}
MCTransfers == {<<"get", h1, 3>>, <<"put", h2, 2>>, <<"get", h2, 4>>}
=============================================================================

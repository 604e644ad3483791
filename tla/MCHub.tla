-------------------------------- MODULE MCHub ---------------------------------
(***************************************************************************)
(* Small instances of Hub.  Connections, senders and texts of the same     *)
(* kind are alike.                                                         *)
(***************************************************************************)
EXTENDS Hub, TLC

Symmetry ==
  Permutations(Client) \union Permutations(Sender) \union Permutations(Msg)
    \union Permutations(Dir)

===============================================================================

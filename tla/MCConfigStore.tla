--------------------------- MODULE MCConfigStore ---------------------------
(***************************************************************************)
(* TLC instance of ConfigStore: two admins, an editor, one provider with a *)
(* key of its own and a list of two.                                       *)
(***************************************************************************)
EXTENDS ConfigStore

MCInitial ==
    [named |-> [n \in {"p"} |-> "key1"], pool |-> <<"key2", "key3">>,
     hot |-> "good", listen |-> "l1", boot |-> "b1", note |-> "c1"]

\* By hand: other addresses.  Documents that cannot be built come of the admins.
MCOutside == {[MCInitial EXCEPT !.listen = "l2", !.boot = "b2"]}
=============================================================================

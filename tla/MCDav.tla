-------------------------------- MODULE MCDav --------------------------------
(* Two clients on a collection d with one inside it, and a collection e that *)
(* may go into d or have a part of d moved to its place: enough for locks    *)
(* above and below a path, for a removal, a copy or a PUT whose directory is *)
(* moved away or removed, and for a transfer into itself.                    *)
EXTENDS Dav, TLC

D == <<"d">>
S == <<"d", "s">>
F == <<"d", "s", "f">>
E == <<"e">>
G == <<"e", "f">>
Paths == {D, S, F, E, G}

On(op, p) == [op |-> op, src |-> p, dst |-> p, overwrite |-> TRUE]
To(op, p, q, o) == [op |-> op, src |-> p, dst |-> q, overwrite |-> o]
Wanted ==
  {On("lock", D), On("lock", F), On("lock", E), On("put", F), On("put", E),
   On("mkcol", D), On("mkcol", S), On("delete", D), To("move", G, F, TRUE),
   To("move", S, E, TRUE), To("copy", E, S, TRUE), To("copy", D, S, FALSE)}

Symmetry == Permutations(Requests)
=============================================================================

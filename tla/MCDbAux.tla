------------------------------- MODULE MCDbAux -------------------------------
(* Model-checking instances of DbAux.                                      *)
EXTENDS DbAux

MCEnvironments ==
    [explicit : {"absent", "memory", "path"}, upstream : {"absent", "path"}, candidates : 0..2]
=============================================================================

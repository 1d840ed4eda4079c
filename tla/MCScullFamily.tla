---------------------------- MODULE MCScullFamily ----------------------------
(* Small instances of ScullFamily for TLC.                                 *)
EXTENDS ScullFamily

Layouts == {<<0, 2>>, <<0, 1>>, <<1, 1>>}

(* A mapping process opens, maps and unmaps; the others do the rest.       *)
RolesNext ==
    \E p \in Proc :
        \/ scullp_opens(p) \/ scullc_opens(p) \/ scullv_opens(p) \/ sculld_opens(p)
        \/ p \in Mappers /\ (scullp_maps(p) \/ sculld_maps(p))
        \/ /\ p \notin Mappers
           /\ scullp_file(p) \/ scullc_file(p) \/ scullv_file(p) \/ sculld_file(p)

RolesSpec == PagesInit /\ [][RolesNext]_vars
=============================================================================

---------------------------- MODULE MCPackageInUn ----------------------------
(* An instance for TLC: two clients and four opkgs, one for each way in    *)
(* which the database and the package directory can list the rpms.         *)
EXTENDS PackageInUn, TLC

CONSTANTS n1, n2, base, app, meta, lost

MCPackages == {base, app, meta, lost}
MCNodes == {n1, n2}
MCRequires == {<<app, base>>}
(* base names rpms for both kinds of machine, app has only files in RPMS/, *)
(* meta names rpms for "all", lost names rpms that are nowhere to be found.*)
MCRpms == (base :> {"oscar_clients", "oscar_server"}) @@ (app :> {})
            @@ (meta :> {"all"}) @@ (lost :> {"oscar_server"})
MCOnDisk == {base, app}
MCClientScripts == {app}

Symmetry == Permutations(MCNodes)
=============================================================================

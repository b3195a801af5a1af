-------------------------- MODULE MCPackageDeploy --------------------------
(* Small instances of PackageDeploy for TLC: what the manifests say. *)
EXTENDS PackageDeploy, TLC

CONSTANTS a, b, post

\* 1 deploys a, 2 replaces it, 3 deploys b; post registers a by hand.
TwoPackages == 1 :> a @@ 2 :> a @@ 3 :> b @@ post :> a
TwoActions  == 1 :> "new" @@ 2 :> "update" @@ 3 :> "new" @@ post :> "upsert"
TwoModes    == 1 :> "local" @@ 2 :> "daemon" @@ 3 :> "daemon" @@ post :> "local"
=============================================================================

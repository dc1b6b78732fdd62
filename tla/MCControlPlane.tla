---------------------------- MODULE MCControlPlane ----------------------------
(***************************************************************************)
(* Two namespaces with three ControlPlanes that may live there, a third    *)
(* namespace to claim, and the edits that matter: the release up and down, *)
(* the Keystone block dropped, declared again with a database of its own   *)
(* or moved, an endpoint that is not its gateway's, a dashboard added; for *)
(* an External keystone, an account that changes its domain.               *)
(***************************************************************************)
EXTENDS ControlPlane, TLC

ax == <<"a", "x">>
ay == <<"a", "y">>
bx == <<"b", "x">>
MCCPs == {ax, ay, bx}
MCPlaces == Labels \X {"x", "y"}
MCEarlier(m, n) == m = "x" /\ n = "y"

Rel(y, m) == [year |-> y, minor |-> m, patch |-> ""]
Plain == [ControlPlaneSpec(Rel(2025, 2)) EXCEPT !.ks = {ServiceKeystoneSpec}]
Gateway(h) == [hostname |-> h, parent |-> "gw"]
InN(lifecycle) == {[ServiceNamespaceSpec("n") EXCEPT !.lifecycle = lifecycle]}
Published == {[ServiceKeystoneSpec EXCEPT !.gateway = {Gateway("ks")}]}
Dashboard == {[ServiceHorizonSpec EXCEPT !.gateway = {Gateway("hz")}]}
OwnDatabase ==
  {[ServiceKeystoneSpec EXCEPT !.dedicated =
      {[KeystoneDedicatedBackingServicesSpec EXCEPT
          !.database = {[DatabaseSpec EXCEPT !.database = "own"]}]}]}

Placed == [Plain EXCEPT !.ks = {[ServiceKeystoneSpec EXCEPT !.ns = InN("")]}]
Public == [Plain EXCEPT !.ks = Published]
Registered ==
  {[ExternalKeystoneSpec EXCEPT
      !.authURL = {HTTPS("ks", "")},
      !.catalog = {[ExternalCatalogSpec EXCEPT !.entries =
                      <<[ExternalCatalogEntrySpec("image") EXCEPT !.endpoints =
                           <<[interface |-> "public", url |-> HTTPS("hz", "")]>>]>>]}]}
External ==
  [Plain EXCEPT !.ks = {[ServiceKeystoneSpec EXCEPT !.mode = "External", !.external = Registered]},
                !.accounts = <<ServiceAccountSpec("image")>>]
MCDrafts == (ax :> {[Placed EXCEPT !.hz = Dashboard]}) @@ (ay :> {Public, External})
            @@ (bx :> {Placed})

\* The blocks that replace the ones a spec has.
MCEdits(s) ==
  {[s EXCEPT !.rel = r] : r \in {Rel(2025, 1), Rel(2026, 1)}} \union
  {[s EXCEPT !.accounts = [i \in DOMAIN @ |-> [@[i] EXCEPT !.domain = "other"]]]} \union
  {[s EXCEPT !.ks = k] : k \in
     {{}, Published, OwnDatabase,
      {[ServiceKeystoneSpec EXCEPT !.ns = InN("Managed")]},
      {[ServiceKeystoneSpec EXCEPT !.gateway = {Gateway("ks")},
                                   !.publicEndpoint = {HTTPS("elsewhere", "v3")}]}}}

\* A Keystone of somebody else's that an apply could reshape.
MCStrangers == {ay}
MCStrangerSpec ==
  keystoneChild(Default([Plain EXCEPT !.ks = {[ServiceKeystoneSpec EXCEPT !.replicas = {5}]}]))
=============================================================================

--------------------------- MODULE MCProvisioning ---------------------------
(* Two deployments that share an exact-file dependency and are bound to      *)
(* providers in opposite order; one of them has a package of its own.        *)
EXTENDS Provisioning

MCPlanArtifacts == "d1" :> {"layout", "pack"} @@ "d2" :> {"layout"} @@ "d3" :> {"voice"}
MCPlanCandidates == "d1" :> <<"huggingface", "modelscope">> @@ "d2" :> <<"modelscope">> @@ "d3" :> <<>>
MCRequired == "layout" :> <<>> @@ "pack" :> <<>> @@ "voice" :> <<>>
Slots == {<<"layout", "huggingface">>, <<"layout", "modelscope">>, <<"layout", "shared">>, <<"pack", "shared">>, <<"voice", "local">>}
Empty == [slot \in Slots |-> IF slot[2] = "local" THEN <<ReadyManifest("file", "none")>> ELSE <<>>]
MCLegacy == {Empty,
             [Empty EXCEPT ![<<"layout", "shared">>] = <<ReadyManifest("huggingface", "immutable")>>],
             [Empty EXCEPT ![<<"pack", "shared">>] = <<ReadyManifest("modelscope", "none")>>]}
MCRoleSource == "model" :> "neutral" @@ "mmproj" :> "neutral" @@ "draft" :> "modelscope" @@ "local" :> "file"
MCRoleRepository == "model" :> "repo1" @@ "mmproj" :> "repo1" @@ "draft" :> "repo2" @@ "local" :> "none"
MCRoleCandidates == <<"huggingface", "modelscope">>
=============================================================================

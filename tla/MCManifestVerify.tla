-------------------------- MODULE MCManifestVerify --------------------------
(* The cases of MCManifestAudit and the two cases of the study. *)
EXTENDS ManifestVerify, MCManifestAudit

StudyCases == AllCases \cup {BuildCase(Forward), BuildCase(Backward)}
=============================================================================

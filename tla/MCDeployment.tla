---------------------------- MODULE MCDeployment ----------------------------
(* Instances of the deployment engine for TLC *)
EXTENDS Deployment, TLC

\* The template get_template makes, and one without rollback, whose deploy_script is
\* empty (the default of the template form)
Various == {Parts, Parts \ {"script", "rollback"}}

\* Both ways of installing
BothInstalls == {Parts \ {"verify"}, Parts \ {"script", "verify"}}

Symmetry == Permutations(Workers)
=============================================================================

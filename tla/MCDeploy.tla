------------------------------- MODULE MCDeploy -------------------------------
(* Instances of Deploy for TLC. *)
EXTENDS Deploy

\* The stages whose order or repetition matters alone; a FORCE that `all` has
\* set meets a later buildvm.
MCInvocations == {<<"all", "buildvm">>, <<"register", "deps">>,
                  <<"update-policy", "buildvm">>}
JustAll == {<<"all">>}
\* nft and nftables are left out: a failed apply is DeployContained's subject.
MCMayFail == Failures \ {"nft", "nftables", "section"}
===============================================================================

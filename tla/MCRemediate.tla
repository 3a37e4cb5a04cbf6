---------------------------- MODULE MCRemediate ----------------------------
(***************************************************************************)
(* Instances of Remediate: app needs lib and, once upgraded, vim; vim is   *)
(* also what somebody installs by hand and needs lib and old; old may      *)
(* already be there, left over from a package that needed it.  Service web *)
(* is declared, cron is not.                                               *)
(***************************************************************************)
EXTENDS Remediate

MCNeeds == [p \in Packages |->
    CASE p = "app" -> [v \in Versions |-> IF v = "v1" THEN {"lib"} ELSE {"lib", "vim"}]
      [] p = "vim" -> [v \in Versions |-> {"lib", "old"}]
      [] OTHER -> [v \in Versions |-> {}]]
MCArchives == {[p \in Packages |-> IF p = "app" THEN "v2" ELSE "v1"]}
MCManual == {"app", "vim"} \cap Packages
MCAptHost == {<<"apt", "root">>}
MCHosts == MCAptHost \cup {<<"apt", "reader">>, <<"dnf", "denied">>, <<"dnf", "root">>,
                           <<"dpkg", "root">>, <<"brew", "reader">>}
MCDeclaredPackages == [p \in {"app"} |-> Absent]
Node(installed, running) ==
    [version |-> [p \in Packages |-> IF p \in installed THEN "v1" ELSE Absent],
     active |-> running, enabled |-> running]
MCNodes == {Node({"app", "lib", "old"}, {"web"}), Node({"app", "lib", "vim", "old"}, {"cron"})}
=============================================================================

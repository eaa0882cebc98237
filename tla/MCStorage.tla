----------------------------- MODULE MCStorage -----------------------------
(* Values for Storage.                                                     *)
EXTENDS Storage

\* Two versions of the ISO: the second has a program less and another one more.
MCShellFiles == <<"a.elf", "b.elf">>
MCEverywhere == {"clks_kernel.elf", "BOOTX64.EFI", "os-release", "users.db"}
MCIsoFiles == <<MCEverywhere \cup {"a.elf"}, MCEverywhere \cup {"b.elf"}>>

\* Two files in the root and one in a directory.
MCFcParent == [p \in {"/", "d", "a", "b", "d/a"} |-> IF p = "d/a" THEN "d" ELSE "/"]
MCFcBase == [p \in {"a", "b", "d/a"} |-> IF p = "b" THEN "b" ELSE "a"]
MCFcJoin == [q \in {"/", "d"} \X {"a", "b"} |-> IF q[1] = "/" THEN q[2] ELSE IF q[2] = "a" THEN "d/a" ELSE ""]

MCPfTexts == {<<"a">>, <<"b">>, <<"a", "b">>}
MCPfNames == {<<"n">>, <<"m">>}
MCPfMails == {<<>>, <<"e">>}

=============================================================================

----------------------------- MODULE MCDesktop -----------------------------
(* Values for Desktop.                                                     *)
EXTENDS Desktop, TLC

\* Three folders, the innermost empty; names out of order, one a program.
MCFolders == ("/" :> <<"b", "s", "p">>) @@ ("s" :> <<"x", "y", "z", "w">>) @@ ("y" :> <<>>)
MCTypeOf == [c \in {"b", "s", "p", "x", "y", "z", "w"} |->
               IF c \in {"s", "y"} THEN "dir" ELSE IF c = "p" THEN "elf" ELSE "file"]
MCName == [b |-> 2, s |-> 3, p |-> 1, x |-> 2, y |-> 4, z |-> 1, w |-> 3]
MCParentOf == ("/" :> "/") @@ ("s" :> "/") @@ ("y" :> "s")

\* Text, the control characters and the escape sequences the terminal reads.
MCTermInput ==
    {"x", "\n", "\t", "\r", "esc", "[", "7", "8", "1", "2", ";", "?", "J", "K", "H",
     "A", "B", "C", "D", "E", "F", "G", "d", "s", "u"}

=============================================================================

---------------------------- MODULE MCLineEditor ----------------------------
(***************************************************************************)
(* Instances of LineEditor for TLC: short lines over a few bytes.           *)
(***************************************************************************)
EXTENDS LineEditor

\* The letter a, a two-byte lead and a continuation byte.
MCLetter == 97
MCLead == 195
MCCont == 169

\* Editing keys: selections, cuts and pastes of one- and two-byte characters,
\* complete and broken, with a reverse search under a selection.
MCEditKeys == AllKeys \ {"enter", "up", "down", "eof"}
MCEditBytes == {SPACE, MCLead, MCCont}
\* Two names that share the first byte of their only character.
MCEditWords == {<<MCLead, MCCont>>, <<MCLead, MCCont - 1>>}
MCEditHistories == {<<<<SPACE, MCLead, MCCont>>>>}

\* History keys: entering, completing, recalling and searching lines.
MCHistKeys == {"enter", "eof", "up", "down", "tab", "search", "char", "left",
               "backspace"}
MCHistBytes == {MCLetter, BACKSLASH}
MCHistHistories == {<<>>, <<<<MCLetter>>, <<MCLetter, SPACE>>>>}
MCHistWords == {<<MCLetter, MCLetter>>, <<MCLetter, SLASH>>,
                <<MCLetter, MCLetter, MCLetter, MCLetter, MCLetter>>}
=============================================================================

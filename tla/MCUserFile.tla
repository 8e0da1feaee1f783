------------------------------ MODULE MCUserFile ------------------------------
(* TLC instances of UserFile: letters are "a" and "b". *)
EXTENDS UserFile

\* One path is a prefix of another.
RutasLargas == {<<"a", "b">>, <<"b", "a">>, <<"a", "b", "a">>}
RutasCortas == {<<"a">>, <<"b", "a">>}

\* A word that is also a path, and two words with both blanks between them.
Textos == {<<"a", "b">>, <<"b", TAB, SP, "a">>}

\* "PUBLISH f " in the client's shell: the description is empty.
TextoVacio == {<<>>, <<"b">>}
===============================================================================

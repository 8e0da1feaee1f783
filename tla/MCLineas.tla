------------------------------- MODULE MCLineas -------------------------------
(* TLC instance of Lineas: requests of every shape; "n1" "n2" are the bytes of
   one character. *)
EXTENDS Lineas

Ana == <<"a", "n", "a">>

\* With arrays of 4 bytes: fields of every length, a path and a description that
\* run over the next field, the second cut at MAX_MSG, and a name that runs over
\* the end of the struct.
PeticionesDeTodas ==
  {<<CONNECT, Ana, <<"i", "p">>, <<"p">>>>,
   <<PUBLISH, Ana, <<"f", "g", "h", "i", "j">>, <<>>>>,
   <<PUBLISH, <<"a">>, <<"f">>, <<"d", " ", "e">>>>,
   <<PUBLISH, <<"a">>, <<"f">>, <<"d", "e", "d", "e", "d", "e">>>>,
   <<DELETE, Ana, <<"f", "g">>>>,
   <<LIST_CONTENT, Ana, <<"b", "b">>>>,
   <<LIST_CONTENT, Ana, <<"b", "b", "b", "b">>>>,
   <<LIST_USERS, Ana>>,
   <<<<"DISCO", "NNECT">>, Ana>>}

ListasCortas == {<<>>, <<Ana>>, <<<<"b">>, <<"n1", "n2">>>>, <<Ana, <<"b">>>>}

CampoViejo == <<"v">>

\* The bytes of them all.
LetrasDeTodas ==
  ToSet(CampoViejo) \cup UNION {UNION {ToSet(s[i]) : i \in DOMAIN s} : s \in PeticionesDeTodas \cup ListasCortas}
===============================================================================

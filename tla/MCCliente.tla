------------------------------ MODULE MCCliente ------------------------------
(* TLC instances of Cliente: the commands typed at each process. *)
EXTENDS Cliente

CONSTANTS ana, luis, k1, k2

Orden(op, u) == [op |-> op, user |-> u]

\* ana asks luis for files, logs him off, comes back; luis comes and quits.
DosClientes ==
  (k1 :> {Orden("CONNECT", ana), Orden("GET_FILE", luis), Orden("DISCONNECT", luis),
          Orden("UNREGISTER", ana), Orden("DISCONNECT", ana)})
    @@ (k2 :> {Orden("CONNECT", luis), Orden("QUIT", luis)})

\* One that only asks, and one that publishes and may leave at any moment.
PideYSirve ==
  (k1 :> {Orden("CONNECT", ana), Orden("GET_FILE", luis)})
    @@ (k2 :> {Orden("CONNECT", luis), Orden("PUBLISH", luis),
               Orden("DISCONNECT", luis), Orden("QUIT", luis)})

TresYDos == (k1 :> 3) @@ (k2 :> 2)
DosYDos == (k1 :> 2) @@ (k2 :> 2)

SinPublicaciones == {<<>>}

Puertos == Permutations(Direcciones)
===============================================================================

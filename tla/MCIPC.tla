--------------------------------- MODULE MCIPC ---------------------------------
(* Two CPUs; one server thread, client threads, two shadow thread objects. *)
EXTENDS IPC

CONSTANTS srv, cl1, cl2, sh1, sh2, i0, i1

MC_CPUs == 0 .. 1
MC_Idle == (0 :> i0) @@ (1 :> i1)
MC_NO_AFF == -1
MC_AffArgs == {-1}
MC_Servers == {srv}
MC_Shadows == {sh1, sh2}
\* One client thread per connection, as in user/lab4.
MC_OneClient == {cl1}
\* Two threads of the client process sharing its connection caps.
MC_TwoClients == {cl1, cl2}
MC_Threads1 == MC_Servers \cup MC_OneClient \cup MC_Shadows
MC_Threads2 == MC_Servers \cup MC_TwoClients \cup MC_Shadows
\* max_client as user/lib/ipc.c passes it (scaled to the two shadows), and
\* a value past IPC_MAX_CONN_PER_SERVER.
MC_MaxClient == {2}
MC_MaxClientBad == {1, 3}
\* A server that accepts one connection while two clients register.
MC_MaxClientOne == {1}
\* The server is spawned with affinity 1 (user/lab4/ipc_reg.c:47); the
\* root thread, the client, with the boot CPU 0 (process_create_root);
\* the second client thread is pinned to CPU 1.
MC_InitAff == (srv :> 1) @@ (cl1 :> 0) @@ (cl2 :> 1)
MC_CapArgsGood == {"none", "valid"}
MC_CapArgsAll == {"none", "valid", "invalid"}
=============================================================================

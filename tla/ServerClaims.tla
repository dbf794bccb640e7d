---------------------------- MODULE ServerClaims ----------------------------
(* What the documentation says of the server process and the code does not *)
(* keep.                                                                   *)
EXTENDS Server

\* README.md:6: "My server spawns a thread per connection".  main passes every
\* thread the address of the same stack variable, and may have accepted the
\* next connection before the thread reads it (server.c:552): both threads
\* then serve the later connection.
ThreadPerConnection == [][\A c \in Clients : StartThread(c) => args = c]_vars

=============================================================================

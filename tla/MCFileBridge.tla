---------------------------- MODULE MCFileBridge ----------------------------
(* Small instances of FileBridge: which commands the client sends. *)
EXTENDS FileBridge

CONSTANTS k1, k2, p1, p2, i1, i2

Command(k, p, i, dated) == [key |-> k, payload |-> p, id |-> i, dated |-> dated]

\* A command (sent again, its retry), another key, and the first key with another
\* payload, the other command's id and no deadline.
MCCommands == {Command(k1, p1, i1, TRUE), Command(k2, p1, i2, TRUE), Command(k1, p2, i2, FALSE)}
=============================================================================

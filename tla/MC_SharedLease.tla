--------------------------- MODULE MC_SharedLease ---------------------------
(* SharedLease for TLC. *)
EXTENDS SharedLease, TLC

CONSTANTS mds, c1, t1, t2

Hosts   == {mds, c1}
Threads == {t1, t2}

\* One thread on the server host and one on a client, or both on the client.
OnBoth   == t1 :> mds @@ t2 :> c1
OnClient == t1 :> c1 @@ t2 :> c1

Set(mh, types, host, g, e) ==
    [mh_write |-> mh, types |-> types, host |-> host, gets |-> g, expires |-> e]

\* Append leases that expire twice; all of the I/O leases; stale pages, which
\* take one request more; the other kinds of leases; mappings on two hosts;
\* several writers, without and with leases that expire; mappings on one client.
Usual ==
    {Set(FALSE, {"append"}, OnBoth, 4, 2),
     Set(FALSE, {"open", "read", "write", "append"}, OnBoth, 4, 1),
     Set(FALSE, {"open", "read", "write"}, OnBoth, 5, 1),
     Set(FALSE, {"open", "append", "truncate", "mmap", "exclusive", "stage"},
         OnBoth, 3, 1),
     Set(FALSE, {"open", "write", "mmap"}, OnBoth, 4, 0),
     Set(TRUE, {"read", "write", "append"}, OnBoth, 3, 0),
     Set(TRUE, {"read", "append"}, OnBoth, 3, 1),
     Set(FALSE, {"open", "mmap"}, OnClient, 3, 0)}
=============================================================================

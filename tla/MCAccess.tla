------------------------------ MODULE MCAccess ------------------------------
(***************************************************************************)
(* One request slot for each of two domains, which share a service until   *)
(* the second version of the file renames one of them.  Addresses have two *)
(* octets of two bits.  The second version needs more memory than there    *)
(* is, and has a domain without a connlimit section.  No request has a     *)
(* limit_location: the rules of the two limiters are for the location that *)
(* the limiter then assumes.                                               *)
(***************************************************************************)
EXTENDS Access

Net(a, b, m) == [ip |-> <<a, b>>, mask |-> m]
Args(loc, k, dry) == [key |-> k, limit_location |-> loc, limit |-> 1, dry_run |-> dry]
Section(type, args, default) ==
    [limit_type |-> type, limit_common_on |-> TRUE, limit_default_user |-> "anonymous",
     limit_args |-> args, default_args |-> default, dry_run |-> FALSE]

ByAddress   == Section("ip", <<Args("", Net(1, 2, 3), FALSE), Args("", Net(1, 0, 1), FALSE)>>, <<>>)
ByNetwork   == Section("ip", <<Args("", Net(1, 0, 1), TRUE)>>, <<>>)
ByUser(loc) == Section("user", <<Args(loc, [user |-> "anonymous"], FALSE)>>, <<Args(loc, Nil, FALSE)>>)
Shared      == Section("ip", <<Args("default", Net(1, 0, Nil), FALSE)>>, <<Args("default", Nil, FALSE)>>)
Open        == Section("ip", <<>>, <<>>)

Text(len, svc, deny, req, conn) ==
    [len |-> len, basic |-> [service |-> svc, ip_deny |-> deny], reqlimit |-> req, connlimit |-> conn]

MCReq == {"r1", "r2"}
MCHost == [r1 |-> "a", r2 |-> "b"]
MCClients == [r1 |-> {[ip |-> <<1, 1>>, user |-> Nil, location |-> Nil],
                      [ip |-> <<1, 2>>, user |-> "u", location |-> Nil]},
              r2 |-> {[ip |-> <<1, 3>>, user |-> "u", location |-> Nil]}]
MCFile == << [a |-> Text(2, "s", TRUE, Open, ByAddress),
              b |-> Text(2, "s", FALSE, Shared, ByNetwork)],
             [a |-> Text(5, "t", FALSE, Open, ByUser("")),
              b |-> Text(2, "s", FALSE, ByUser("default"), Nil)] >>
MCLists == {<<"s", <<1, 1>>>>}
=============================================================================

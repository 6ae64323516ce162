---------------------------- MODULE MCDriverTrace ----------------------------
(***************************************************************************)
(* Values of the constants of DriverTrace for model checking.              *)
(***************************************************************************)
EXTENDS DriverTrace

Driver(uid) == [uid |-> uid, car_number |-> "c"]

Table(rows) == [cols |-> {"uid", "car_number"}, rows |-> rows]

\* LIMIT 0,2: no row, one or two.
Drivers == {Table(<<>>), Table(<<Driver("u1")>>), Table(<<Driver("u1"), Driver("u2")>>)}

=============================================================================

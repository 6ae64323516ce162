--------------------------- MODULE MCMysqlWrapper ---------------------------
(***************************************************************************)
(* Values of the constants of MysqlWrapper for model checking.             *)
(***************************************************************************)
EXTENDS MysqlWrapper

Row(uid, car) == [uid |-> uid, car_number |-> car]

Table(rows) == [cols |-> {"uid", "car_number"}, rows |-> rows]

\* Results of different lengths, one of them empty and one with a single column.
SmallResults ==
  {Table(<<>>),
   Table(<<Row("u1", "c1")>>),
   Table(<<Row("u2", "c2"), Row("u1", "c3")>>),
   [cols |-> {"uid"}, rows |-> <<[uid |-> "u3"], [uid |-> "u3"], [uid |-> "u1"]>>]}

=============================================================================

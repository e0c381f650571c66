-------------------------- MODULE MCRequestMapping --------------------------
(* A service of every kind and every kind of message, with up to two       *)
(* optional members, each with a value of its own.                         *)
EXTENDS RequestMapping

AllTypes == {99, 102, 106, 112}
AllServices == {-1, 0, 3, 4, 5, 8, 9, 13, 14, 15, 17}
OptionalMembers ==
  [units |-> 3, other_num |-> 4, traffic_case |-> 1, location |-> 5, event_id |-> 11, service_id |-> 12,
   tariff_id |-> 13, apn |-> 15, mccmnc |-> 16, sgsn |-> 17, dattim |-> 19, rg |-> 20, overdraft_flag |-> 21,
   rat_type |-> 22, periodic_charge_part_size |-> 23, discount_percent1 |-> 24, discount_percent5 |-> 25,
   discount_descr5 |-> 28]
=============================================================================

------------------------------ MODULE ObjectData ------------------------------
(* c_obj of ch_obj.hpp: a tracked object's position, velocity and attitude in *)
(* several coordinate systems and the flags (m_dtype) that say which of them  *)
(* hold.  A datum is represented by what it was computed from: Unset is what  *)
(* the constructor left there, and a conversion hands on its input's origin.  *)
EXTENDS Integers, FiniteSets

VARIABLE target

Unset == 0
Data == {"POS_BLH", "VEL_BLH", "POS_ECEF", "VEL_ECEF", "POS_REL", "VEL_REL", "ATTD", "POS_BD", "TDCPA"}

NewObject == [m_dtype |-> {}, from |-> [d \in Data |-> Unset]]

Put(o, d, s) == [o EXCEPT !.m_dtype = @ \union {d}, !.from[d] = s]
Drop(o, ds) == [o EXCEPT !.m_dtype = @ \ ds]
Has(o, d) == d \in o.m_dtype
Convert(o, d, e) == Put(o, e, o.from[d])

set_pos_blh(o, s) == Put(o, "POS_BLH", s)
set_vel_blh(o, s) == Put(o, "VEL_BLH", s)
set_blh_from_ecef(o) == Convert(o, "POS_ECEF", "POS_BLH")
reset_blh(o) == Drop(o, {"POS_BLH", "VEL_BLH"})

set_pos_ecef(o, s) == Put(o, "POS_ECEF", s)
set_vel_ecef(o, s) == Put(o, "VEL_ECEF", s)
set_ecef_from_blh(o) == Convert(o, "POS_BLH", "POS_ECEF")
set_ecef_from_rel(o) == IF Has(o, "POS_REL") THEN Convert(o, "POS_REL", "POS_ECEF") ELSE o
\* It asks for the position where it uses the velocity.
set_vel_ecef_from_blh(o) == IF Has(o, "POS_BLH") THEN Convert(o, "VEL_BLH", "VEL_ECEF") ELSE o
reset_ecef(o) == Drop(o, {"POS_ECEF", "VEL_ECEF"})

set_pos_rel(o, s) == Put(o, "POS_REL", s)
set_vel_rel(o, s) == Put(o, "VEL_REL", s)
\* A bug: the relative position is computed whether or not there is an
\* absolute one.
RelUnguarded(o) == Convert(o, "POS_ECEF", "POS_REL")
set_pos_rel_from_ecef(o) == IF Has(o, "POS_ECEF") THEN Convert(o, "POS_ECEF", "POS_REL") ELSE o
set_vel_rel_from_ecef(o) == IF Has(o, "VEL_ECEF") THEN Convert(o, "VEL_ECEF", "VEL_REL") ELSE o
set_vel_rel_from_blh(o) == IF Has(o, "VEL_BLH") THEN Convert(o, "VEL_BLH", "VEL_REL") ELSE o
reset_rel(o) == Drop(o, {"POS_REL", "VEL_REL"})

set_att(o, s) == Put(o, "ATTD", s)
reset_att(o) == Drop(o, {"ATTD"})

\* set_pos_bd assigns m_dtype: every other flag is gone.
set_pos_bd(o, s) == Put(Drop(o, o.m_dtype), "POS_BD", s)
set_pos_rel_from_bd(o) == Convert(o, "POS_BD", "POS_REL")
set_pos_bd_from_rel(o) == Convert(o, "POS_REL", "POS_BD")
reset_bd(o) == Drop(o, {"POS_BD"})

Older(s, r) == IF s <= r THEN s ELSE r
(* The closest point of approach, from the relative position and velocity;    *)
(* the older of the two is its origin.                                        *)
calc_tdcpa(o) ==
  IF ~Has(o, "POS_REL") THEN o
  ELSE LET b == IF Has(o, "POS_BD") THEN o ELSE Convert(o, "POS_REL", "POS_BD")
       IN  Put(b, "TDCPA", Older(b.from["POS_REL"], b.from["VEL_REL"]))
reset_tdcpa(o) == Drop(o, {"TDCPA"})
get_prediction(o) == [ok |-> Has(o, "TDCPA"), from |-> o.from["TDCPA"]]
-------------------------------------------------------------------------------
(* An object on its own, and callers that use what they know to be there: the *)
(* conversions that do not ask for their input's flag are called only when it *)
(* is set, and a velocity is set together with a position.                    *)
ObjectInit == target = NewObject

SetByCaller ==
  \/ target' = set_vel_blh(set_pos_blh(target, 1), 1)
  \/ target' = set_vel_ecef(set_pos_ecef(target, 1), 1)
  \/ target' = set_vel_rel(set_pos_rel(target, 1), 1)
  \/ target' = set_att(target, 1)
  \/ target' = set_pos_bd(target, 1)

Derive ==
  \/ target' = set_ecef_from_rel(target)
  \/ target' = set_pos_rel_from_ecef(target)
  \/ target' = set_vel_rel_from_ecef(target)
  \/ target' = set_vel_rel_from_blh(target)
  \/ target' = calc_tdcpa(target)

DeriveKnown ==
  \/ Has(target, "POS_ECEF") /\ target' = set_blh_from_ecef(target)
  \/ Has(target, "POS_BLH") /\ target' = set_ecef_from_blh(target)
  \/ Has(target, "POS_BLH") /\ Has(target, "VEL_BLH") /\ target' = set_vel_ecef_from_blh(target)
  \/ Has(target, "POS_BD") /\ target' = set_pos_rel_from_bd(target)
  \/ Has(target, "POS_REL") /\ target' = set_pos_bd_from_rel(target)

ResetByCaller ==
  \/ target' = reset_blh(target)
  \/ target' = reset_ecef(target)
  \/ target' = reset_rel(target)
  \/ target' = reset_att(target)
  \/ target' = reset_bd(target)
  \/ target' = reset_tdcpa(target)

ObjectNext == SetByCaller \/ Derive \/ DeriveKnown \/ ResetByCaller

ObjectSpec == ObjectInit /\ [][ObjectNext]_target
-------------------------------------------------------------------------------
(* What an object says it holds was computed from something a caller set: no  *)
(* conversion flags what the constructor left.  The closest approach is left  *)
(* out, calc_tdcpa takes the relative velocity without asking for its flag.   *)
FlaggedIsComputed == \A d \in target.m_dtype \ {"TDCPA"} : target.from[d] # Unset
=============================================================================

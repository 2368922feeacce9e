----------------------------- MODULE MCItemSync -----------------------------
(* The bound on uuids cuts no behaviour of the runs short. *)
EXTENDS ItemSync

UuidsSuffice ==
  /\ op.pc = "received" => uuids + Cardinality(Duplicated) <= MaxUuid
  /\ left.creates > 0 => uuids < MaxUuid
=============================================================================

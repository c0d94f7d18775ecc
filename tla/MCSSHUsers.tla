----------------------------- MODULE MCSSHUsers -----------------------------
(* Small instances of SSHUsers for TLC.                                    *)
EXTENDS SSHUsers, TLC

Sshd == {"sshd"}
BothServers == {"sshd", "dropbear"}

(* One customer with everything: a connection limit, a quota of one unit   *)
(* and an entry in the CheckUser database.                                 *)
FullForm == {[days |-> 1, limit |-> 1, quota |-> 1, linked |-> TRUE]}
(* What the enforcer looks at.                                             *)
LimitsForm == {[days |-> 1, limit |-> 1, quota |-> 1, linked |-> FALSE]}
(* A quota only, so that the second customer stays small.                  *)
QuotaForm == {[days |-> 1, limit |-> 0, quota |-> 1, linked |-> FALSE]}

(* Coherent and EnforcerKeepsRecords promise nothing once a stale copy was *)
(* saved, so the run of two customers stops there; one active customer at  *)
(* a time is enough to fill a quota or to make userdel refuse, and on the  *)
(* second day the operator only removes the expired ones.                  *)
OneActiveUntilRaced ==
  /\ ~raced /\ (today > 1 => op \in {"none", "expired"})
  /\ Cardinality({u \in Users : sessions[u]["sshd"] > 0 \/ counter[u] > 0}) <= 1

(* One session of Dropbear beside those of sshd, which only a login and a  *)
(* logout of the client's change.                                          *)
OneDropbearSession ==
  \A u \in Users, d \in Daemons \ {"sshd"} : sessions[u][d] <= 1

UserSymmetry == Permutations(Users)
=============================================================================

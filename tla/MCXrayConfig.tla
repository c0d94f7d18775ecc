---------------------------- MODULE MCXrayConfig ----------------------------
(* An instance of XrayConfig for TLC: two paths, one of which is also      *)
(* spelt without the slash in front, the other with one at the end.        *)
EXTENDS XrayConfig, TLC

MCPaths == {"/a", "/a/", "b", "/b"}
MCLead == [x \in MCPaths |-> IF x = "b" THEN "/b" ELSE x]
MCTrim == [x \in MCPaths |-> IF x \in {"/a", "/a/"} THEN "/a" ELSE "/b"]
MCSymmetry == Permutations(Users) \cup Permutations(Internal)

(* What fails, fails where the first path alone is in use, with and        *)
(* without its slash at the end; from then on the session keeps to it, and *)
(* edits only the path of users the tracker does not know.                 *)
Spelt(c) == {Inb(c)[p].path : p \in DOMAIN Inb(c)} \cup {r.path : r \in UNION {Inb(c)[p].routes : p \in DOMAIN Inb(c)}}
Typed ==
  Spelt(conf) \cup Spelt(plan.conf) \cup {tracker[u].path : u \in DOMAIN tracker} \cup {r.path : r \in mux \cup sites \cup plan.mux}
OnePathOnceFailed ==
  /\ crashes' + refusals' > 0 => Typed' \subseteq {"/a", "/a/"}
  /\ crashes + refusals > 0 => ~(Idle /\ op'.name = "path" /\ op'.users \subseteq DOMAIN tracker)
=============================================================================

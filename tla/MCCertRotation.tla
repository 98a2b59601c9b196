--------------------------- MODULE MCCertRotation ----------------------------
(***************************************************************************)
(* CertRotation for TLC: two names, a legacy tree of two leaves, and a     *)
(* database with a row of every status.                                    *)
(***************************************************************************)
EXTENDS CertRotation, TLC

CONSTANTS f1, f2, l1, l2, s1, s2

LegacyOfMC ==
    l1 :> [fqdn |-> f2, broken |-> FALSE, chains |-> TRUE, age |-> 1]
    @@ l2 :> [fqdn |-> f2, broken |-> FALSE, chains |-> TRUE, age |-> 2]

OldRow(id, fqdn, status, ca) ==
    [id |-> id, fqdn |-> fqdn, status |-> status, ca |-> ca, signer |-> ca, leaf |-> NoLeaf]

StoredOfMC == {OldRow(1, f1, "active", 1), OldRow(2, f1, "archived", 1), OldRow(3, f2, "quarantined", 1)}

Symmetric == Permutations({s1, s2})
=============================================================================

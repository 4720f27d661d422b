------------------------------- MODULE MCLab -------------------------------
(* Lab and History for TLC: the calls are interchangeable.                  *)
EXTENDS History, TLC

CONSTANTS c1, c2, c3, c4, main, dev, v1, f1, u1, loop

CallSymmetry == Permutations(Calls)
AllOps  == {"write", "edit", "amend", "blob", "commit", "branch", "delete", "tag", "setref",
            "rebase", "vcs-rebase", "mr", "merge", "mirror", "sync"}
HistoryOps == {"amend", "rebase", "tree", "fetch"}
EditOps == {"write", "edit"}
=============================================================================

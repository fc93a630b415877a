-------------------------- MODULE MCChangeReceipts --------------------------
EXTENDS ChangeReceipts, TLC
Cmd(kind, target, payload) == [kind |-> kind, target |-> target, payload |-> payload]
MixedCommands == {Cmd("change", 0, "p1"), Cmd("batch", 0, "p2"), Cmd("fix", 1, "p3"),
                  Cmd("undo", 1, "p4")}
Symmetry == Permutations(Slots)
=============================================================================

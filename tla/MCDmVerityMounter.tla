-------------------------- MODULE MCDmVerityMounter --------------------------
(* Instances of DmVerityMounter: two processes, two names, mount points of  *)
(* their own or one that they share.                                        *)
EXTENDS DmVerityMounter, TLC

CONSTANTS p1, p2

MCOwnPoints == p1 :> "m1" @@ p2 :> "m2"

\* Both processes synchronise with udev; or one call synchronises and another
\* leaves the device when it is unmounted.
MCSyncFlags == {{"UDevSync"}}
MCMixedFlags == {{"UDevSync"}, {"NoAutoClear"}}

\* Loop devices, names and numbers are interchangeable.
MCSymmetry == Permutations(Loops) \union Permutations(Names) \union Permutations(Numbers)

MCSharedPoint == [p \in {p1, p2} |-> "m1"]

=============================================================================

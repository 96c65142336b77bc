--------------------------- MODULE MCMailRouting ----------------------------
(* MailRouting with two labels for one address, as "Build" and "build" are, *)
(* and one label for another address.                                       *)
EXTENDS MailRouting, TLC

CONSTANTS Build, build, test, aBuild, aTest, aOther

MCLabels == {Build, build, test}
MCAddr == {aBuild, aTest, aOther}
MCAddressOf == (Build :> aBuild) @@ (build :> aBuild) @@ (test :> aTest)

SessionSymmetry == Permutations(Sessions)
=============================================================================

---------------------------- MODULE MCCreditLedger ----------------------------
(* Instances of CreditLedger for TLC. *)
EXTENDS CreditLedger, TLC

CONSTANTS u1, u2, eBuy, ePack, eLapse, eTest

MCAllowance == [p \in Plans |-> CASE p = "floor_pass" -> 1
                                  [] p = "floor_manager" -> 4
                                  [] OTHER -> 2]
MCRoomPrice == [p \in Plans |-> IF p = "floor_manager" THEN 2 ELSE 1]
MCMonthOf == [t \in Clock |-> 1 + (t \div 2)]

\* A subscription is bought, a pack is bought, the subscription lapses, and
\* RevenueCat's dashboard sends a test event: all name the first user.
MCEventOf ==
    [e \in Events |->
       [kind |-> CASE e = eBuy -> SubscribeKind
                   [] e = ePack -> PackKind
                   [] e = eLapse -> RevokeKind
                   [] OTHER -> IgnoredKind,
        user |-> u1,
        plan |-> "floor_manager",
        amount |-> 3]]

NoClaims == {}
OneClaim == {<<u1, u2>>}
BothWays == {<<u1, u2>>, <<u2, u1>>}
MCGrants == {2, -1}
NoGrants == {}

Symmetry == Permutations(Workers)
=============================================================================

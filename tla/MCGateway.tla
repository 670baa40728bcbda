----------------------------- MODULE MCGateway -----------------------------
EXTENDS GatewayInv, TLC
MCTotal == [o \in Orders |-> 2]
MCSymmetry == Permutations(Txns) \cup Permutations(Refunds)
=============================================================================

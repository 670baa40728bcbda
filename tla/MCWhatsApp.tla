----------------------------- MODULE MCWhatsApp -----------------------------
EXTENDS WhatsApp, TLC

MCSymmetry == Permutations(Phones)
=============================================================================

------------------------------- MODULE MCSignIn -------------------------------
EXTENDS SignIn, TLC

SignInSymmetry ==
    Permutations(Requests) \cup Permutations(Challenges) \cup Permutations(Sessions)
=============================================================================

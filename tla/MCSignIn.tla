------------------------------ MODULE MCSignIn ------------------------------
(***************************************************************************)
(* A small instance of SignIn for TLC, in two halves: behaviours in which  *)
(* anybody tries passwords on one account, nobody uses Microsoft and no    *)
(* cookie reaches a browser, and behaviours with Microsoft sign-ins and    *)
(* cookies in which every password typed is right.                         *)
(***************************************************************************)
EXTENDS SignIn, TLC

CONSTANTS a1, a2, b1, b2, n1, r1, c1, c2, t1, t2, s1, s2

VARIABLE microsoft   \* which half, chosen at the start

MCWhose == (b1 :> a1) @@ (b2 :> a2)

Half ==
    IF microsoft
      THEN \A c \in Calls : At(c, "password") => call[c].right
      ELSE /\ \A c \in Calls : At(c, "password") => call[c].account = a1
           /\ \A b \in Browsers : jar[b] = [token |-> NoToken, state |-> NoState]

MCInit == Init /\ microsoft \in BOOLEAN
MCNext == Next /\ UNCHANGED microsoft /\ Half'
MCSpec == MCInit /\ [][MCNext]_<<vars, microsoft>>

MCSymmetry == Permutations(Calls) \cup Permutations(Tokens) \cup Permutations(States)
=============================================================================

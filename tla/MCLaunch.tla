------------------------------ MODULE MCLaunch ------------------------------
(***************************************************************************)
(* A small instance of Launch for TLC, in two halves: behaviours of what   *)
(* the backend does with overrides and tickets, of which two are issued    *)
(* and signing is not configured, and behaviours of what three launches    *)
(* over RDP, by the bridge and with tickets in time, do to the desktop's   *)
(* stores.                                                                 *)
(***************************************************************************)
EXTENDS Launch, TLC, FiniteSets

CONSTANTS c1, s1, t1, t2, t3, l1, l2

VARIABLE desktopOnly   \* which half, chosen at the start

\* What has been issued and has not yet come to the stores.
Coming == {t \in Tickets : tickets[t].state = "live"}
          \cup {l \in Launches : At(l, "resolved")}

Half ==
    IF desktopOnly
      THEN /\ \A t \in Tickets : tickets[t].state \in {"unissued", "live"} \/ t \in served
           /\ \A l \in Launches : At(l, "handed") =>
                 /\ tickets[launch[l].ticket].state = "live"
                 /\ tickets[launch[l].ticket].payload.connection \in Rdp
           /\ Cardinality(Coming) <= 1
           /\ Cardinality({l \in Launches : At(l, "handed")}) <= 1
           /\ \A l \in Launches : ~At(l, "idle") => launch[l].way = "bridge"
           /\ override[s1] = "unset" /\ override[c1] \in {"unset", "mine"}
      ELSE /\ certificate = None
           /\ Cardinality({t \in Tickets : tickets[t] # Unissued}) <= 2

MCInit == LaunchInit /\ desktopOnly \in BOOLEAN
MCNext == LaunchNext /\ UNCHANGED desktopOnly /\ Half'
MCSpec == MCInit /\ [][MCNext]_<<launchVars, desktopOnly>>

MCSymmetry == Permutations(Tickets) \cup Permutations(Launches)
=============================================================================

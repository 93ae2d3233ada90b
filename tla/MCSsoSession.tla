---------------------------- MODULE MCSsoSession ----------------------------
(* Instances of SsoSession for TLC.                                        *)
EXTENDS SsoSession, TLC

\* Tokens are interchangeable (Readable holds all of them or none), and so
\* are connections, web requests and issuers. Safety runs only.
Symmetry ==
    Permutations(Tokens) \cup Permutations(Conns) \cup Permutations(Issuers)
        \cup Permutations(Users)
=============================================================================

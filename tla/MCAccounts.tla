------------------------------ MODULE MCAccounts ------------------------------
(***************************************************************************)
(* Instances of Accounts for TLC.                                          *)
(***************************************************************************)
EXTENDS Accounts, TLC

CONSTANTS e1, n1, n2, w1, a1, f1, f2, links

AllValues == {e1, n1, n2, w1, a1, f1, f2, links, Empty}

\* One person under two names, of which a wallet account would get the first.
TwoNames == {[email |-> e1, username |-> n, displayName |-> Null] : n \in {n1, n2}}

Endings == w1 :> n1

\* The address a1 ends in the name of the first file.
Names == [v \in AllValues \cup {Null} |->
             IF v = a1 THEN f1 ELSE IF v \in Files THEN v ELSE Null]

AllEdits ==
    {[op |-> "profile", set |-> [displayName |-> Empty, avatarUrl |-> a1]],
     [op |-> "wallet", set |-> [walletAddress |-> w1]],
     [op |-> "links", set |-> [socialLinks |-> links]]}

\* Requests for a unique column overlap others before the first upload only.
Overlapping == \A p \in Handlers : pc[p] # "idle"
OverlapByKind ==
    Overlapping /\ (\E p \in Handlers : arg[p].op \in {"signup", "signin", "wallet"})
        => \A f \in Files : uploader[f] = Null

Symmetry == Permutations(Handlers) \cup Permutations(Ids)
=============================================================================
